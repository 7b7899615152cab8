# A TLA+ model of the recruitment platform

This project models the recruitment platform: its backend (`src/backend`, a
NestJS application over PostgreSQL through Prisma) and its frontend
(`src/frontend`, a Next.js application that talks to it). It model-checks both
with TLC on small instances, and proves the main invariants of the backend's
services with TLAPS.

## 1. The system

Every operation of the backend is an HTTP request to one Node process. A handler runs alone
from one `await` to the next; at an `await` any other request may run. What
handlers share is the database (and, for files, an object storage). Nearly every
handler has the shape *read a row, check it, update it by id*, so what it checked
may be stale when it writes. Some writes are grouped in a `$transaction`; some
races are decided by a unique index or a foreign key.

| Component | State | Operations | Interacts with | What is hard |
|---|---|---|---|---|
| Applications | `Application`, `ApplicationStageHistory`, audit rows | create, withdraw, screen, decide | reads jobs, stages, CVs; calls notifications | duplicate applications, overlapping decisions, stage deleted under a screening, logs that must match the state, notification after commit |
| Jobs and pipelines | `Job`, `RecruitmentStage` | create, update, publish, close, archive, replaceStages, applyTemplate | stages are read by applications, templates are read by jobs | publish against replacement of stages, two replacements, archive against publish or close, repeated names |
| Offers | `Offer` | create, read (which expires lazily), respond | needs a HIRED application; read by onboarding | overlapping answers, the clock passing `expiresAt` between check and update |
| Onboarding | `OnboardingChecklist`, `OnboardingTask`, `Document` | createChecklist, addTask, completeTask, uploadDocument | reads offers (and expires them), writes to the storage | file and row in two systems, the acceptance overwritten |
| Interviews | `Interview`, `InterviewPanelMember`, `Evaluation` | schedule, reschedule, submitEvaluation | reads applications and members, calls notifications | two reschedules of one slot, double evaluation, a panel notified in part, a member removed while an interview stands |
| Notifications | `Notification` | notify, list, markRead | called by the services above | lost or repeated notifications |
| Authentication | `User`, `RefreshToken`, `VerificationToken` | register, verify, login, refresh, switchOrg, logout, reset | sessions of every other request | replay of a token, rotation cut off by a crash, reset against refresh |
| Organizations | `Organization`, `Invitation`, `UserOrganizationRole` | register, approve, reject, invite, accept, cancel, remove member | roles decide what every other request may do | invitation accepted twice or while cancelled, the last owner removed |
| Candidates | profile, `Education`, `Experience`, `Skill`, `CV` | update, replace lists, upload, primary CV | CVs are used by applications; storage | more than one primary CV, file without row, a CV deleted while it is applied with, overlapping replacements of a list |
| Object storage | files under keys, links that expire | put, delete, sign | CVs, onboarding documents | no transaction spans it and the database |
| Pipeline templates | `PipelineTemplate`, `PipelineStageTemplate` | create, update, delete | snapshotted by jobs | overlapping updates, an update of a template being deleted |
| Talent pools | `TalentPool`, `TalentPoolCandidate` | create, add, remove | applications decide who may be added | the checked application and the insert are two statements |
| Universities | `University`, `UniversityPartnership` | create, partner, end | organizations | duplicate rows |
| Subscriptions | `Subscription`, `Payment` | choose a plan | organizations | plan and payment are two statements |
| Guards | none (read roles and tenants) | canActivate | every request | an access token is believed until it expires |
| Analytics, audit log queries, health | none | queries | all tables | nothing that changes state |
| API client | access token and `refreshPromise` of a tab, `user`, the cookie of all tabs | send, refresh once, retry after a 401, mount, log in and out | authentication | several requests that meet a 401 at once, a lost answer, tabs that share a single-use token |
| Pages | what each component has loaded, typed, locked | loads on mount, handlers of buttons and forms | API client | answers out of order, a page that is left before its answer, a button pressed twice, text typed during a save |

### What makes them correct

- Applications: one ACTIVE application per candidate and job; status and audit
  row, stage and history row change together; a rejection is notified once,
  after its commit, and in the end.
- Jobs: a published job has a stage; applications stay in a stage of their job;
  a replaced pipeline is the list submitted; an archived job stays so once the handlers
  on their way are through.
- Offers and onboarding: an offer follows a hire, onboarding an acceptance; the
  first outcome stands; documents have files and files documents.
- Interviews: moved slots are linked both ways with the same panel, of members
  present or past; one evaluation per panel member; the panel is told, once.
- Authentication: a token is used once; a session is carried by one refresh
  token at a time; a reset revokes the tokens of the time before it.
- Organizations: status and audit log agree; before its approval an organization
  is its owner alone; an invitation admits once; an organization keeps an owner.
- Candidates: one primary CV; the CV of an application stays, with its file; what
  a replacement of a list leaves behind is its own rows.
- Files: stored before their row, deleted after it, orphaned by failures only.
- Pools hold applicants; the plan in force has been paid for by the selection that
  put it in force.
- Frontend: a tab refreshes once for all that wait; a handler runs once on the
  server however often its request is sent; a button is disabled exactly while
  its handler runs; a page ends up showing what it wrote; typed text is kept until
  it is saved.

## 2. How requests and the database are modelled

`Requests.tla` keeps `req[r]`, the record a handler holds across its current
`await`: `pc` names the statement that comes next and the other fields are the
locals that statement uses. One awaited statement, or one `$transaction` whose
statements need not be told apart, is one action. `Fails` ends a handler of
`Unreliable` at any await and leaves it `Lost`: a rejected promise and a crash
of the process look the same to the database. `CutOff`, the requests that were
lost, lets a property say what a failure may cost. Requests are never retried by
the server; the callers' retries are further requests.

PostgreSQL runs at READ COMMITTED: a statement sees what has been committed, an
update by id overwrites whatever is there, a transaction's writes appear at its
commit. `setStages()`, whose reads and writes are in one transaction but may be
interleaved with other commits, takes three steps: read, in-use check, write at
the commit. Unique indices and foreign keys are guards of the writing step: a
violation (P2002, P2003, P2025) ends the handler with nothing written.

Rows keep the columns the properties tell apart. An id is never used again:
`Deleted` is what remains of a stage row. `SeedJobs`, `SeedStages` and
`SeedApplications` are the rows a behaviour starts from, all of them rows that
the services themselves can have written.

### The browser

A page of the frontend is a React component whose life is always the same: it is
mounted, its effect sends some GETs, each answer sets some state, and a handler
sets a lock, awaits one request, sets state from the answer, loads again, and
releases the lock in `finally`. `PageTables.tla` has the vocabulary of this
(`Page`, `Write`), and `CandidatePages`, `OrganizationPages` and `VisitorPages`
describe the 37 pages with it, one definition for each component, its handlers
named as in the code. `Pages.tla` is the machine that runs such a table: `Enter`
mounts, `LoadSettles` is the continuation of a load, `Click` a handler up to its
`await` and `WriteSettles` from there on, `Type` the user, `Choose` a tab or a
page number of the page. A page that is mounted anew gets a new `visit`: what the
component of an earlier visit still awaits has no effect on it (`Here`). What a
resource contains is the number of its changes
(`version`), so that older and newer answers are told apart. Every request goes
through `ApiClient.tla`, which is `api.ts` and `auth-context.tsx`: the server takes
it or answers 401 because the token has expired, the client joins or starts a
refresh and sends it again. `Frontend.tla` puts tabs, users and faults together.
The server here is no more than what the client can tell: it takes a refresh token
once, counts the changes of a resource, and may refuse a change. What it really
does is what the other modules are about.

## 3. Modules

| Module | What it models |
|---|---|
| `Requests` | handlers as processes |
| `Schema` | the tables of the core, shared queries, the partial unique index |
| `ApplicationsService` | `applications.service.ts`: one action per await, and the invariants of the tables |
| `Applications` | that service alone, on jobs nobody edits |
| `ApplicationLedger` | abstract: an application and its logs, changed by atomic steps |
| `JobsService` | `jobs.service.ts`: the state changes and `setStages()` |
| `Hiring` | jobs and applications on one database: `Applications` and the steps that edit jobs |
| `OffersService`, `OnboardingService` | `offers.service.ts`, `onboarding.service.ts` and the storage |
| `OfferPromise` | abstract: the documented life of an offer |
| `Placement` | decisions, offers, onboarding and the clock together |
| `Recruitment` | jobs, applications, offers, onboarding and the clock: the whole path from a draft to a new colleague |
| `InterviewsService` | `interviews.service.ts`, and the roles that members are given and lose meanwhile |
| `Interviewing` | interviews, applications and membership together |
| `AuthService` | `auth.service.ts`: accounts, mail tokens, refresh tokens |
| `Sessions` | that service and the clock |
| `OrganizationsService` | `organizations.service.ts` on the tables of `AuthService` |
| `Membership` | organizations, their staff, and users who register on their own |
| `CandidatesService` | the CVs of `candidates.service.ts`: rows, files, links, the primary CV, and the use that `create()` and a recruiter's preview make of them |
| `ListsService` | lists replaced as a whole: those of a profile, and the stages of `pipeline-templates.service.ts` |
| `SubscriptionsService` | `subscriptions.service.ts` |
| `SourcingServices` | `talent-pools.service.ts`, `universities.service.ts` |
| `FileStore` | abstract: files beside rows |
| `Workspace` | those four services on one database |
| `ApiClient` | `api.ts`, `auth-context.tsx`, and the answers of `AuthController` |
| `PageTables`, `CandidatePages`, `OrganizationPages`, `VisitorPages` | the pages of `app/`, as tables |
| `Pages` | how a page runs in a tab |
| `Frontend` | tabs, users, the network and the clock |
| `MC*` | model values, seeds and symmetry for TLC |
| `*_proofs` | theorems and their proofs |

`Applications`, `Hiring`, `Placement`, `Recruitment`, `Interviewing`, `Sessions`,
`Membership`, `Workspace` and `Frontend` are the specifications; the other
modules are the parts they compose. A service names the requests it takes after
its controllers (`JobApplicationsController(r)`) and the awaits it resumes in
`Continue...(r)`.

Variables that no table has are ghosts, and said to be: `answers` (the statuses
an offer was given), `ended`, `overtaken`, `halfReset` and the `session`, `resets`
and `missed` of a refresh token, `joined` (in `Membership` and in
`InterviewsService`), `removed`, the `by` of a subscription and of a payment, the counts in `notifications`, the `by`, `index` and `of` of a
row in `lists`; in the browser `spent`, `version`, `wrote`, `missed`,
`overlapped` and the `runs` of a request.

Definitions keep the names of the code: `CreateInsert` is the insert of
`create()`, `SetStagesWrite` the writing part of `setStages()`. An operator
commented as *Mutation of X* is X with a mistake a programmer could make. No
specification uses it; exchanging the two shows that the properties notice.

### Abstract specifications

`ApplicationLedger!Spec` is what the database promises of an application under
any interleaving: a decision and its audit row, a move and its history row are
one step, and nothing else ever happens. `ApplicationsService` implements it, in
`Applications` and in `Hiring` (`ImplementsLedger`, checked and proved). The
stronger `OrderlySpec` adds what the documents say: only ACTIVE applications
change and a move starts where the application is. That holds while requests do
not overlap (`ImplementsOrderlyLedger`) and fails otherwise. `OfferPromise` is in
the same way what offers and onboarding do while requests do not overlap
(`KeepsOfferPromise`).

`FileStore!Spec` is what a table that has files beside it promises, under any
interleaving: `Store` before `Refer`, `Release` before `Discard`, and in the end no
more files without a row than requests that were cut off. The CVs of `Workspace`
and the onboarding documents of `Placement` both implement it
(`ImplementsFileStore`), with rows and cut-off requests mapped by `INSTANCE ...
WITH`. Its last conjunct is a liveness promise: an upload that has stored its file
and is not cut off goes on to insert the row, so the fairness of the two
specifications is part of what is checked.

## 4. Runs

Every run below passes, or is a *divergence*: a run of one property, which
states what a document or a comment of the repository says and which TLC refutes.
Deadlock is checked in all runs of the backend: a behaviour may only stop with
every request `Done` or `Lost` (`Quiescent`). In `Frontend_races` it is not, as a
user may stop at any page; that nothing is left waiting is what `Settled` says.

| Run | Question | Bounds |
|---|---|---|
| `Applications_races` | are the tables right, the logs complete, the rejections told and the decisions settled, whatever overlaps? | two candidates, three stages, 4 requests, 3 in flight, 1 unreliable |
| `Applications_terminal` | *divergence*: does a terminal status stand? | 3 requests, 2 in flight |
| `Hiring_edits` | does a pipeline edited under applications stay whole, and what do the checks of its edits enforce? | a draft and a job that may be created, 2 stages and room for 4 more, lists that grow, shrink, reorder, rename and repeat, 4 requests, 2 in flight, all unreliable |
| `Recruitment_serial` | do the documented lives of applications, offers and onboarding hold one request at a time? | a published job and one that may be created, an application in the last stage and one that may be made, 2 tasks, 1 file, the clock, 5 requests, 1 in flight, all unreliable |
| `Placement_races` | has each step of a placement the one before it on record, each offer one outcome in the end, and each file its row? | one application, 2 tasks, 2 files, the clock, 6 requests, 2 in flight, 1 unreliable |
| `Interviewing_races` | are moved interviews linked, evaluations single, panels told? | 3 interviews, 3 interviewers of whom 2 are members at the start and any may join or leave at any time, 3 requests, 2 in flight, 1 unreliable |
| `Sessions_races` | are sessions and single-use tokens kept apart? | an account and one that may register, 1 mail token, 3 refresh tokens, 4 requests, 2 in flight, 1 unreliable, the clock |
| `Sessions_reset` | *divergence*: does a reset sign its user out everywhere? | as `Sessions_races`, nothing cut off |
| `Workspace_races` | do CVs, files, links and applications agree, whose rows does a list keep, is the plan paid and who is in a pool? | 1 candidate, 2 CVs, 2 files, a list of a profile, a template, lists of up to 2 rows, a free and a paid plan, a pool, a university, 4 requests, 2 in flight, 1 unreliable |
| `Membership_races` | do members, invitations, accounts and audit log agree? | an approved organization and one that may register, 3 emails, 2 invitations, 4 requests, 2 in flight, 1 unreliable |
| `Membership_owner` | *divergence*: does an organization keep an owner? | two owners, 2 requests |
| `Frontend_races` | do pages show what they wrote and keep what was typed, are locks released, refreshes shared and handlers run once? | each of 37 pages in the tab of a signed-in user with 2 clicks and 1 edit, or two tabs that are opened, log in, register and log out once; 1 fault |

Why these bounds are enough: what can go wrong in the backend is a step of one
handler between two awaits of another, so two handlers in flight show every
pairwise race, and a third one, where it is affordable, shows that the outcome of
a race is not repaired or spoilt by one more. The requests beyond those in flight
set the scene (create before screen, hire before offer, invite before accept,
upload before apply) and look at the result. Two of every id that can be confused
with another (candidate, stage, name, task, file, CV, panel member, organization)
are enough to confuse them. Where a run says *one at a time*, `MaxInFlight = 1`: it
asks whether the sequential program is right, for properties that overlapping
requests break.

In the browser the actors are a page's loads, its handlers and the refresh. Two
clicks (`MaxClicks`) overlap any handler with any other or with itself, beside all
the loads of the page; one edit (`MaxTyped`) may come before, during or after any
of them. A fault (`MaxFaults`) is a lost answer (`MaxLost`) or an access token that
expires (`MaxLapses`); one is enough to send everything in flight through a
refresh, or to have a refresh fail. Pages do not differ in how their requests are
authenticated, so tokens expire, and users log in and out (`MaxSubmits`), on
the pages of `Volatile` only, `notifications` and `login`; answers get lost on all.
`Home` stands for the dashboard a user lands on. Two tabs are what it takes to
share a cookie.

Symmetry is used only in runs without liveness, over requests and over ids that
no seed names.

### Fairness

Node resumes every await once its promise is settled, so the specifications of
the backend whose liveness is checked assume `WF_vars(Continue...(r))` for each
request: a handler that has begun goes on, or is cut off by `Fails`. Nothing is
assumed of arrivals, of the clock or of failures: no request need ever come, no
token or link need expire. `Hiring`, `Recruitment` and `Membership` state no
liveness and no fairness. The liveness properties (`RejectionsAreNotified`,
`PanelIsNotified`, `UsedTokensTakeEffect`, the last part of `ImplementsFileStore`)
allow each request that was cut off to cost one effect, because the code writes
these effects outside the transaction before them and has nothing that makes up
for a loss.

`Frontend` assumes `WF_vars(Advance)`: while requests are in flight, the server
answers one or the network fails, and the event loop of a tab handles what has
arrived. Weak fairness of the disjunction is enough because every behaviour
between two clicks has a bounded number of such steps. Nobody need click, type or
log in, and nothing need fail.

### Mutations

`PROJECT.json` names for every property of a passing run a mutation of the
code under which TLC finds the property violated by the same configuration: a
dropped guard (`CloseReadAny`), an update made unconditional (`RotateAgain`), a
transaction split (`ScreenMoveInTwo`), an off-by-one (`LastIndexFromZero`), a
forgotten row (`DecisionUnaudited`), an effect too early (`UploadFileLost`), a
missing `finally` (`FailedLocked`), a refresh of its own for every 401
(`RetryAlone`).

## 5. What the code does otherwise than its documents say

Shown by a run of their own:

- `decide()`, `screen()` and `withdraw()` check ACTIVE and then update by id, so
  terminal statuses overwrite each other (`Applications_terminal`).
- Two overlapping removals leave an organization without an owner
  (`Membership_owner`).
- `docs/authentication.md:28` and the comment at `auth.service.ts:214-215` say that a
  reset revokes all existing refresh tokens and forces a login everywhere. The
  `updateMany` at `auth.service.ts:216` revokes the rows that are there. A login that
  has compared the old password, or a `refresh()` or `switchOrg()` that has taken its
  token, and inserts its row after that statement, stays signed in
  (`Sessions_reset`). `ResetEndsSessions` says what remains true: those are the only
  ones, found by a ghost `missed` that is set for the requests the statement ran
  past (`OnTheirWay`) and stays with what their session is rotated to. A login's
  password is the one it compared, not the one in force at its insert, and a reset
  that is cut off between its two statements excuses its own user, until another
  comes through.

Of the same kind, met while modelling. `setStages()` accepts a list that names a stage
twice, reuses one row for both positions (`jobs.service.ts:352`) and leaves a gap in the
orders, at which `screen()` finds no next stage; `replace-job-stages.dto.ts:10-11` says
that the order is the array index. It takes a single request, so a unit test shows it;
`OrderIsIndex` speaks of lists of distinct names. Overlapping requests take a job out
of ARCHIVED, which REQ-JOB-001 calls terminal (`publish()` or `close()` that checked it
before). With two requests in flight `Recruitment` finds that overlapping answers to an offer, or an answer and an
expiry, overwrite each other, that an offer may be answered after `expiresAt`,
and that a checklist may exist for an acceptance that was overwritten
(`KeepsOfferPromise`). `ImplementsOrderlyLedger` fails in the
configuration of `Applications_terminal`: a move in the history need not start
where the one before it ended. Two overlapping reschedules of one slot both
insert a replacement and the slot links to the later one only
(`ReschedulesAreLinked` says what remains true: the link leads to one that came
from it); two overlapping first uploads of a candidate are both primary
(`PrimaryIsChosen`, proved and not run, says that this is the only way to two). `create()` may
insert an application for a job that was closed since it found it published. Two
overlapping replacements of a list leave the rows of both
(`OverlapsAloneConcatenate` says that only overlaps do); `selectPlan()` that is
cut off before `payment.create` leaves a plan in force that was not paid
(`PlanInForceIsPaid` allows this and nothing else: a row knows the selection that
wrote it, a payment the selection it was made for, and an earlier payment for the
same plan does not count).

What the checks of the code do enforce when requests overlap is stated beside the
promises that they break. A terminal application, an archived job, an answered offer
may be written over by the handlers that had passed their check at the time, once by
each; nobody joins them, and when they are through it stands for good
(`SettledForGood`, `ArchivedForGood`, `AnsweredForGood`). A replacement by distinct
names leaves just the list it was given unless another one changed the rows since it
read them (`OrderIsIndex`).

A member who is removed stays on the panels they are on: `schedule()` asks for
membership at `interviews.service.ts:103` and inserts at 105, `removeMember()` deletes
roles without looking at panels (`organizations.service.ts:394`), and `reschedule()`
copies a panel without asking again. `docs/architecture.md:109` asks for membership
when the interviewers are looked up, which is what the code does; no document says
what becomes of a panel later, so this is no divergence. `ReschedulesAreLinked` asks
that those on a panel are *or have been* members.

Of the frontend:

- `page.tsx:32-34` of the admin's organizations says that the list is "briefly
  stale, never empty" when the tab changes. `approve()` and `reject()` call the
  `load()` of the render they were clicked in, so after a change of tab in between
  the list of the old tab may come last and stay. `PagesShowTheirWrites` names the
  pages on which answers can overtake each other (`Overlapping`) and holds on all
  others.
- Two effects of a handler are on the page that sent it and are not loaded again:
  the history of an application after `screen()`, and the organization's name in the
  side bar after `GeneralSettings` has saved it (`NotRefreshed`).
- Every change of the CVs calls `load()`, which sets the About fields anew, typed
  text included; the stages of a job are set by their first load, which may come
  after the page lets them be edited (`Overwritten`). `addSkill()` clears its field
  before it saves and says nothing of a failure (`ClearedAtOnce`).
- Rows typed in the experience and education editors while a save is in flight
  lose their Save button: `setDirty(false)` follows the await.
- The lock of the billing page holds the plan clicked last, so two selections can
  be in flight, of one plan even after a click on the other (`LocksFollowWrites` leaves
  this page out; the proof needed that, and two clicks do not show it). Buttons without a lock (`publish`,
  `close`, CVs, tasks, `markRead`) may be pressed twice.
- The tabs of a browser share the cookie and not `refreshPromise`: two that refresh
  at once present one single-use token, and the one that comes second signs its user
  out. The same happens to a login that ends before the refresh of the mount does.
  `RefusedForCause` says that a tab never does this to itself.

## 6. Proofs

Eight modules hold them. `ApplicationsService_proofs` has the lemmas about that
service, which the proofs of three specifications share; the seven others have the
theorems of `Hiring` and `Applications`, `Placement`, `Interviewing`, `Sessions`,
`Membership`, `Workspace` and `Frontend`. They hold for any sets of rows, users, tabs
and requests and any number of requests in flight, with
failures wherever the model has them, under the named assumptions of the modules: the seeds are rows of the right
type that obey the invariants, and `None` and `Deleted` are no rows or ids. What is
counted is counted over finite sets, and the theorems that count say so.

| Specification | Theorem | Property |
|---|---|---|
| `Hiring` | `TypesCorrect` | `HiringTypeOK` |
| | `ActiveIsUnique` | `OneActiveApplication` |
| | `DecisionsAreAudited` | `DecisionsRecorded` |
| | `HistoryExplainsStage` | `StageIsLastMove` |
| | `LedgerRefinement` | `ImplementsLedger` |
| | `RejectionsComeFirst` (finite `Request`) | `NotificationsFollowRejections` |
| | `PublishedJobsHaveStages` | `PublishedHasStage` |
| | `FirstStageIsFound` | `CreateFindsStage` |
| | `ApplicationsStayInTheirJob` | `StageOfOwnJob` |
| | `DecisionsSettle` | `SettledForGood` |
| | `ArchivesSettle` | `ArchivedForGood` |
| | `ListsAreOrders` | `OrderIsIndex` |
| `Applications` | `WithoutEdits` | every behaviour is one of `Hiring`, so all of these hold |
| `Placement` | `OffersFollowHires` | `OfferFollowsHire` |
| | `OnboardingFollowsAcceptances` | `OnboardingFollowsAcceptance` |
| | `AnswersSettle` | `AnsweredForGood` |
| | `DocumentsFollowFiles` (finite `Request`) | the steps of `FileStore`, for documents |
| `Interviewing` | `MovesAreLinked` | `ReschedulesAreLinked` |
| | `EachActsOnce` | `PanelActsOnce` |
| `Sessions` | `OneCarrierEach` | `SessionsAreCarried` |
| | `ResetsRevoke` | `ResetEndsSessions` |
| | `TokensChangeOnce` (finite `MailToken`, `Request`) | `TokensAreUsedOnce` |
| `Membership` | `AuditSaysStatus` | `ReviewsAreAudited` |
| | `UnapprovedHaveTheirOwner` | `OwnerAloneUntilApproved` (in no run) |
| | `AcceptanceAdmits` | `AcceptedAreMembers` |
| | `OneAdmissionEach` (finite `Invitation`) | `AdmittedOncePerInvitation` |
| `Workspace` | `AttachedCvsStay` | `AttachedCvsRemain` |
| | `PrimariesAreChosen` | `PrimaryIsChosen` (in no run) |
| | `PooledHaveApplied` | `PoolsHoldApplicants` |
| | `PlansArePaid` | `PlanInForceIsPaid` |
| | `ListsAreReplaced` (finite `Request`) | `OverlapsAloneConcatenate` |
| | `FilesFollowRows` (finite `Request`) | the steps of `FileStore`, for CVs |
| `Frontend` | `RefusalsAreExplained` (finite `Tab`) | `RefusedForCause` |
| | `WritesRunOnce` (finite `Tab`) | `CallsRunOnce` |
| | `ButtonsFollowHandlers` (finite `Tab`) | `LocksFollowWrites` |
| | `TypedTextStays` (finite `Tab`) | `EditsAreKept` |
| | `PagesAreCurrent` (finite `Tab`) | `PagesShowTheirWrites` |

In each specification `IInvHolds` (`FullInvHolds` in `Frontend`) says that an inductive invariant `IInv` holds,
and the rest follows from it. `IInv` is always made of what is true of the rows and
of what is true of the *handlers*: a request has read something, others have run
since, and what it writes next is right only if something about its reading is
still true. Finding what that is is the argument of each proof.

- *Applications and jobs.* `HiringTypeOK`; `ServiceInv`, that applications are in existing
  stages of their own job and that the application named by a suspended handler
  exists, while the stage it is about to write is one of the job as far as the row
  still exists (a deleted one is caught by the foreign key); `LedgerInv`,
  uniqueness, audit and history, and that rows not yet inserted have no logs; `JobInv`:
  published and closed jobs have a stage, and a handler that
  goes on to rely on this (`publish()` after its count, `create()` after its status
  check, `setStages()` before its commit) does so for a job that has one.
  `setStages()` never leaves a job without: its list is not empty, and a row it
  renumbers or creates is there after the commit. The refinement of the ledger
  shows from the same invariant that a step is one step of it or none.
  `RejectionsComeFirst` adds a count: each step appends a rejection and sends one
  more request to notify, or notifies with one request fewer.
- *Placement.* The status a handler has read may be overwritten at any time, so
  the invariant speaks of records that only grow: the audit log, `answers`, the
  checklists. An offer that is about to be inserted has a hire on record, not in
  the status; a checklist that is about to be has an acceptance on record.
  `UploadsInv`: a stored file without a row is held by one request.
- *What a check is worth.* `DecisionsSettle`, `ArchivesSettle` and `AnswersSettle` are
  theorems about one step, any number of requests being in flight. Call *writers* of a
  row the handlers that have passed the check of its status and have not written yet.
  A read of a row that is no longer ACTIVE (not ARCHIVED, SENT) makes nobody a writer,
  a statement of a writer that is not its last leaves it one, and the statement that
  writes the row takes its own handler from the writers; so the writers only get
  fewer, and the row changes only when they do. `ListsAreOrders` is about one commit: the
  rows that are kept are renumbered to the only position of their name, the new ones
  are created at theirs, those that are no longer listed are deleted, and if nobody
  has replaced the rows since the transaction read them there are no others.
- *Interviewing.* The row that a reschedule has read may be moved by another
  request in the meantime. Its panel and application never change, and that is all
  the transaction uses; and no two requests tell the panel of one interview. Members
  come and go between any two statements: what a handler found of them is kept by
  `joined` only.
- *Sessions.* `CarriedInv`: a session has one live row or one request or, exactly
  when it has ended, neither. A rotation passes it from the row to the request
  because the update is conditional, the insert passes it on to a new row, and a
  token that starts a session has an id that no row and no request knows.
  `PasswordInv`: each live row, and each request that holds a session without a row,
  has checked the password in force, unless the reset has yet to revoke, was cut off or
  ran past the request. The revocation marks all carriers without a row in the step in
  which it revokes all rows, so no third kind of session escapes both. `TokensChangeOnce` counts: a reset
  token that is used up sends one request to change the password.
- *Membership.* What is read of an organization or an invitation may be stale; that
  there is one, that it was approved, that a token of the user was used stays. The
  invariant is about these growing sets. `OneAdmissionEach` counts: a role is given
  together with the acceptance of one more invitation.
- *Workspace.* `CvInv`: a file is stored before its row and deleted after it, an
  upload holds a file that is nobody else's, a CV of an application is not deleted;
  `SourcingInv`: the applicant a recruiter's handler found remains one. `PaidInv`:
  the selection that wrote the row is the one that pays next, has paid, or was cut off;
  a request writes one selection in its life. `CrowdsInv` bounds
  whose rows a list has, without a history of who overlapped whom: take any
  replacements that have deleted and not committed yet; the requests whose rows all of
  these leave, together with the replacements themselves, are no more than may be in
  flight. A replacement that has just deleted leaves nobody's rows, so that only requests
  in flight are counted; its commit makes its rows the list's and what it deleted no
  longer counts, which is the bound for one replacement fewer.
- *Frontend.* `IInv`: exchanges have ids of their own, a handler of the server has run
  for one only if it was answered, and never for one that waits to be sent again, which
  is why a retry does not run it twice; what a page has in flight it sent in this visit
  or an earlier one. `SessionInv` follows the pairs of tokens: a pair is carried by one
  answer on its way, which nobody presents yet, or has become the cookie; the refresh a
  tab has in flight is the one `refreshing` names; and a cookie that is no longer good
  was used by a tab other than the one asked about, or by that tab's refresh whose
  answer is on its way. `LocksInv`: the locks of a page are those of its handlers in
  flight, and no two of these share one. The pages enter the proof through facts shown
  page by page (`LocksOfPages`): handlers of one operation have one lock, which is
  given back whole. `EditsInv`, for what is typed: outside the forms that are
  overwritten, the answer that sets a form is awaited once and never once the form can
  be typed into, and a tab has one request to sign in, on the login page, which has no
  form of the model. `ShowInv`, for what is shown, is about what is on its way as
  well: as long as no two requests for a resource were in flight at once, each answer
  in flight is as recent as the page's own last write and belongs to its tab and page
  number, and the page is current itself or awaits a GET that will make it so
  (`FreshOK`). That two requests in flight are recorded (`OverlapOK`), that the four
  pages outside `Overlapping` whose handlers change what they show ask for it once,
  before any handler can run (`OnceOK`), and that each handler of each page shows or asks again for what it
  changes (`HandlersRefresh`, page by page) are the lemmas it rests on; the proof
  needs `LocksInv`, because two handlers of one lock never answer one another.

Each step lemma has a case per action; the actions of a service are shown to keep
the part of another service by saying what they leave alone.

Only model-checked:

- liveness, and with it the last part of `ImplementsFileStore`. `ENABLED`, induction
  over data and recursive operators are out of TLAPS's reach too; no module here
  declares one of the latter;
- the serial lives of `Recruitment`, `ImplementsOrderlyLedger` and `KeepsOfferPromise`.
  Nothing in the code makes callers wait for each other, so what is proved is what
  holds when they do not: the `...ForGood` theorems and `ListsAreOrders`;
- of `Frontend`, `Settled`.

## 7. Not modelled

- Reads of the backend that change nothing: lists, searches, analytics, audit log
  queries, health. The seed, which runs once before the program.
- Titles, descriptions, names, salaries, scores and other columns no property
  reads, and the operations that only write these (`jobs.update()`, both
  `updateMine()`, `markRead()`).
- Membership in organizations beside `Membership`, but for the roles that
  `Interviewing` gives and takes away at any time. What gives and takes them away
  there is one step each: `Membership` has the steps around it.
- Validation of request bodies, the permission and tenant guards: a request here is
  one that the guards let through, on rows of its own organization. The exceptions
  are the actor of `removeMember()`, whose token may name a role since removed, and
  `JwtAuthGuard` as the frontend meets it.
- Object storage but for the set of stored keys and the links that are good until
  they expire.
- Of the frontend: the public job pages, which the server renders and which have no
  state; links from one page to another; buttons that are shown for some data only
  (a handler may be called whenever its button's data are there); other users, whose
  changes a page cannot know of before its next load; `switchOrg()`, which no page
  calls; what anything looks like.

## 8. Plan

Done: the core (`Requests`, `Schema`, applications, jobs), its abstract
specifications and proofs; placement; interviews; sessions; membership; CVs, lists,
templates, pools, partnerships and plans; the file store; the whole path of a
recruitment; the API client and the pages.

Proved: the safety properties of section 6.

Left, in this order:

1. A bound on how often an application, a job or an offer is written over, counted over
   finite sets of requests, from the `...ForGood` theorems.
2. `RoleInserted` and `RolesDeleted` composed with `OrganizationsService` itself.
