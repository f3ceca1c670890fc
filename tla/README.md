# A TLA+ model of the OA leave server

The repository is a Go HTTP server (gin, pgx, Redis) with which employees ask
for leave and approvers decide on it. This directory models it in TLA+, checks
the models with TLC on small instances, and proves some of the properties with
TLAPS for every instance. Paths are relative to the repository root.

## 1. The system

| Component | State | Operations | Hard behaviour |
|---|---|---|---|
| Leave service (`services/leave_service.go`, `repositories/leave_repository.go`) | table `leaves` | Create, Cancel, GetByID, List | checks and writes are separate statements |
| Approval workflow (`services/workflow_service.go`, `services/approval_service.go`, `repositories/approval_repository.go`) | table `approvals`, `leaves.status` | Start, AutoApprove, initiateManualApproval, ProcessManualApproval | several approvers at once, requests that die half-way |
| Working days (`leave_service.go`, `services/holiday_service.go`) | none | CalculateWorkingDays, IsWorkday | weekends, holidays, make-up days, year boundary |
| Holiday service and cache (`holiday_service.go`, `cache/holiday_cache.go`) | table `holidays`, in-memory map by year with an expiry | GetHolidaysByYear, BatchImport, Get, Set, evict | an eviction in a goroutine, stale loads |
| Balance service (`balance_service.go`, `repositories/balance_repository.go`) | table `leave_balances` | HasSufficientBalance; Deduct and Refund without a caller | what counts as taken, days chosen in one statement and charged in the next |
| Department service (`department_service.go`) | table `departments` | CheckMinimumOnSite; GetTree without a caller | two leaves of one day |
| Notifications (`approval_service.go`, `worker/notification_worker.go`) | table `notifications`, goroutines | Notify*, processBatch, Stop | delivery more than once, loss at shutdown |
| Authentication (`middleware/auth_middleware.go`, `cache/user_cache.go`, `handlers/user_handler.go`) | in-memory map by user, table `users` | Auth, Login, Get, Set, Invalidate | a user deactivated while cached |
| Migration (`database/migrate.go`) | table `schema_migrations`, the schema | Migrate | several instances without a lock, a crash within a file, a commit nobody hears of |
| Start, shutdown, plumbing (`cmd/server`, `router`, `handlers/health_handler.go`, `utils`) | none | wiring | worker and goroutines are not waited for |

How they interact. A request passes Auth, a handler and a service; services
call each other directly and share state through PostgreSQL only. No code opens
a transaction (except Migrate and BatchUpsert) or locks a row, so requests
interleave between any two SQL statements. Create calls the balance service,
the working-day calculation (and through it the holiday cache) and then
`WorkflowService.Start`, which either signs by itself or inserts approval rows;
ProcessManualApproval is called later, by other users. Notices are started as
goroutines, stored as rows, and sent by a worker that polls.

What makes each part correct: a settled leave stays settled; an approval rests
on every signature the length calls for; no decision is lost; a department keeps
its minimum on site; approved days stay within the balance; one applicant's
leaves do not overlap; an approval is announced once, and only if it stands; the
number of working days is right for the holidays in force; a migration runs once.

## 2. Plan

| # | Module | What | State |
|---|---|---|---|
| 1 | `ApprovalPolicy`, `WorkCalendar` | the pure rules | done |
| 2 | `LeaveWorkflow`, `LeaveLifecycle` | the core, and what it promises | done |
| 3 | `LeaveWorkflow_proofs` | types, three invariants, the program as it ships | done |
| 4 | `HolidayCache`, `HolidayCache_proofs` | the cache with its evictions and imports | done |
| 5 | `Notifications`, `NoticeDelivery`, `Notifications_proofs` | goroutines, table, worker, shutdown; delivery under fairness; that it implements what the worker promises | done |
| 6 | `UserCache`, `UserCache_proofs` | authentication against a cache | done |
| 7 | `Migrate`, `SchemaHistory`, `Migrate_proofs` | several instances starting, crashes within a file: each file once, in order, all of them in the end | done |
| 8 | `SerialLeaves_proofs` | that `LeaveWorkflow` implements `LeaveLifecycle`, and keeps `NoOverlap`, `NoticeFollowsApproval`, `DecisionIsFinal`, the minimum on site and the balance, and how far apart requests must be kept for each | done |
| 9 | `BalanceLedger`, `BalanceLedger_proofs` | Deduct and Refund, which nothing calls | done |
| 10 | `SumLemmas` | sums over finite sets, for the proofs about days | done |
| 11 | queries that break off | in `HolidayCache`, `Notifications` and `Migrate`: what a loop over rows does without `rows.Err` | done |

Which module uses which. `LeaveWorkflow` extends `ApprovalPolicy` and
`WorkCalendar`, and instantiates `LeaveLifecycle`. `HolidayCache` extends
`WorkCalendar`: the holiday map that `LeaveWorkflow` takes as the constant
`Calendar` is what `HolidayCache` answers, and when that can be wrong is said
there. `Notifications` starts where the `notices` of `LeaveWorkflow` end, with a
goroutine that was started; it instantiates `NoticeDelivery`. `UserCache` stands in front of all of them and
shares only table `users`. `Migrate` runs before any of them and instantiates
`SchemaHistory`. `BalanceLedger` has the table that `LeaveWorkflow` takes as the
constant `Balance`, because no call in the code changes it. The parts are checked apart because they share no
state beyond these values; composed they would only multiply the interleavings.

## 3. The modules

`ApprovalPolicy` holds `calculateRequiredApprovals` and `buildApprovalSteps`,
the two forms in which the code writes its rule, and `RequiredApprovals`, what
Create stores. `WorkCalendar` holds the loop of `CalculateWorkingDays`, and
`IsWorkday`, which writes the same rule in another way: dates are numbers, a
holiday map is a function from dates to BOOLEAN.

`LeaveWorkflow` is the core. Its variables:

| Variable | In the code |
|---|---|
| `status`, `req` | a row of `leaves`: the status, and the fields that never change |
| `node`, `assignee` | rows of `approvals` by leave and approver type: `status`, `approver_id` |
| `pc` | how far each Create call is |
| `act` | the Cancel and Act requests in flight, each with the leave, row and decision it holds in local variables |
| `notices` | how often `NotifyLeaveApproved` was started |
| `interrupted` | ghost: leaves on which an Act died after recording its decision |
| `today` | `CURRENT_DATE` |

One action is one SQL statement with the Go code up to the next one:
`CheckOverlap`, `CheckBalance`, `Insert`, `LoadForAuto`, `CheckOnSite`,
`WriteSystemApproval`, `AutoApproveLeave`, `AutoApproveNotify`, `CreateNode` for
Create and Start; `CancelBegin`, `CancelWrite` for Cancel; `ActBegin`,
`ActRecord`, `ActReject`, `ActCount`, `ActApprove`, `ActNotify` for Act. The UPDATE
that approves a leave and the `go` statement that announces it are two actions: an
UPDATE that takes effect without an answer, or a process that ends in between,
leaves an approved leave of which nobody is told. `CreatorFails` and `HandlerFails` end a request
after any statement: a statement fails, the client disconnects (its context is
cancelled), or the process dies, which is all of them failing one after the
other. Refused requests end in the action that refuses them; an Act or a Cancel
that is refused changes nothing and has no action. `CountApprovedSteps` counts
approved rows of any type, as the SQL does. The first read of an Act that
re-reads the leave only to get `required_approvals`, which never changes, is
part of `ActCount`.

`AssignApprover` is not in the code. `buildApprovalSteps` leaves `approver_id`
at 0 and no statement updates it, so without an outside hand `ActBegin` is never
enabled. `Approvers = {}` is the program as it ships (run `lw_as_shipped`);
elsewhere somebody fills the column.

`Serial = TRUE` lets a request begin only when none is in flight. It separates what
the checks of the code get right from what concurrency breaks: with it two
submissions, two sessions of approvers, or a Cancel and an approval never overlap,
so a property that is checked with it says nothing of those races. The proofs ask
for less (`OnePerLeave`, `OnePerUser`, `OnePerDept`).

`LeaveLifecycle` is the abstract specification: signatures are given or refused
once, a leave is settled once, and approved only on the signatures it calls
for. `LeaveWorkflow!LifecycleKept` maps a leave into it with its row, and a
signature when it is decided.

`HolidayCache` has one year of the cache: the entries of two years never touch.
One action is one turn of the mutex, one SQL statement or one start of a
goroutine. `holidays` is the table, `entry` the cached map with its age,
`evictions` the goroutines that Get started and that have not deleted yet,
`call` and `import` the control of each `GetHolidaysByYear` and `BatchImport`
with the rows in its hands. The age is not counted: `Expire` ends the 24 hours
of an entry at any moment, except while a call is between its Set and its second
Get, which takes no 24 hours. `QueryCutShort` and `RereadCutShort` are queries
that break off between two rows: `rows.Next` returns false, nobody asks
`rows.Err`, and what there is so far is cached. `aged` and `overtaken` are ghosts. BatchImport has
no route yet; it is modelled as the operation the service offers.

`Notifications` follows a notice from the `go` statement on: `notify` is the
goroutine, `created` its clock reading as a rank, `row` and `retries` the table,
`worker` and `batch` the loop of `processBatch`, `server` the process. `Stop` is
the closed channel; `Exit` is the end of `main`, which waits neither for the
worker nor for a goroutine, or a crash; `Restart` is external. The `send` that
ships only writes a log; `Failing` has the rows on which the channels its
comment announces may fail, without which the retries would never be used. A
batch is the oldest rows due, or a first part of them when the query breaks off
(`Fetched`). `MaxRetries` is 3 in the code. A row is
stored only for a receiver who is a user (`Addressed`); the request notice goes
to `approver_id` 0. `delivered` and `unmarked` are ghosts. `NoticeDelivery` is the
abstract specification: it has no batches, ages or processes, only a phase for
each notice and its counted failures. `Notifications!Phase` maps a notice to it:
in hand while it is the oldest of a batch that is being marked, unconfirmed when
an earlier mark of it was lost.

`UserCache` has a clock, because what matters is how long a change can go
unnoticed: `account` is table `users`, `cached` the entries with their
`expiresAt`, `token` the end of the newest token of each user, `pc`, `caller`,
`user` the requests in Auth. `until` and `readAt` are ghosts. `Change` is
external: nothing in the code writes `users`. `QueryTime` bounds the time
between the query of Auth and its Set; the code sets no such limit, and the
result grows with it.

`Migrate` has several processes on one database. `recorded` is table
`schema_migrations`, `times` how often the statements of a file were committed,
`pc` and `todo` the control of each process, with the files its loop will not
skip. One action is one statement: `Start` makes sure of the table, `Read`
fetches the versions, all of them or the first ones, `Exec`, `Record` and
`Commit` are the transaction of a file. What others have not committed is not
visible, but it makes them wait: `Exec` and `Record` are not enabled while
another transaction has executed the same file or inserted the same version
(`Executed`, `Inserted`). A file is a number, its place in the order of the
names; what a file does is abstracted to whether it can be executed twice
(`Tolerant`). None of the five files can, since each has a CREATE INDEX without
IF NOT EXISTS; the run lets one file be tolerant, which later ones may be. That
a release ships the files of the one before it and newer ones is assumed by
`Ships`. `SchemaHistory` is the promise, which `Migrate!SchemaKept` maps to.

`BalanceLedger` has the rows of one user in `leave_balances`. A call is one
Deduct and, if that succeeded, at most one Refund: nothing calls them yet, and
this is the protocol their comments describe. `Choose` is the read of the
compensatory days with the choice of a row, `Deduct`, `DeductUnheard`,
`DeductRefused` and `DeductFails` the UPDATE and what its caller hears, `Refund`
the UPDATE of `Add`. `NewYear` moves the year that `time.Now` yields. `overtaken`
is a ghost, `paying` and `repaid` remember the rows that were charged and
credited. The model makes visible where a refund goes (`Astray`): an annual
leave that was paid with compensatory days is paid back in annual days, and a
leave paid in one year is paid back in the next, or to no row at all.

Each operator commented as a mutant is a plausible mistake in the definition
after it, and is used nowhere else: replacing the definition by it must make
TLC report the property named in `PROJECT.json`.

## 4. The runs

| Run | Checks | Shows |
|---|---|---|
| `lw_concurrent` | TypeOK, NodesDecidedBeforeApproval, NoLostDecision, NeverForgotten, Settles | in every interleaving with failures, no signature is skipped, no decision lost, no pending leave left without a row to decide or a request at work; with approvers assigned and answering, a stored leave is settled |
| `lw_serial` | NoOverlap, NoticeFollowsApproval, AutoApprovalKeepsOnSite, AutoApprovalWithinBalance, DecisionIsFinal, LifecycleKept | one request at a time, any of which may die: dates, decisions and the life cycle are kept; no notice is doubled or wrong (one may be missing when a request died); what the system signs leaves the minimum on site on the first day, and is covered by the balance together with what is approved and has not begun |
| `lw_cancel_race` | DecisionIsFinal, violated | Cancel overwrites an approval |
| `lw_min_on_site` | AutoApprovalKeepsOnSite, violated | two leaves of one day leave one person of three |
| `lw_as_shipped` | Settles, violated | nobody can decide on a manual leave |
| `lw_balance` | BalanceCoversUpcoming, violated | pending leaves are not held against the balance |
| `hc_cache` | TypeOK, OutOfDateOnlyWhenOvertaken, AnsweredBeforeFirstExpiry, StaleAnswersCease | when the cached calendar may be wrong or missing, and that it mends |
| `hc_nil_map` | AlwaysAnswered, violated | a late eviction makes a lookup answer with a nil map and no error |
| `nt_delivery` | TypeOK, RepeatedOnlyIfUnmarked, MarkedMeansSent, EveryRowSettled, DeliveryKept | no stored notice is lost, none is repeated without a lost mark, failing rows do not hold up the others for ever; the worker keeps the promise of NoticeDelivery |
| `uc_cache` | TypeOK, ChangeNoticedInTime | a change of a user is noticed within TTL + QueryTime |
| `mg_rollout` | TypeOK, AppliedOnce, EveryInstanceServes, SchemaKept | each file is committed once, in order and before anyone serves on it, and no race or crash leaves a database on which an instance cannot start |
| `bl_overlap` | TypeOK, NoOverdraw, BooksBalance, RefusedForCause | overlapping calls overdraw no row and lose no charge; whoever is refused was overtaken or has too little |

Bounds. Two leaves suffice for every property that relates two leaves; two
handlers for two approvers, or an approver and a Cancel, at once. `lw_concurrent`
has one leave: its properties speak of one, no action of one leave changes what
they say of another, and the proofs cover any number. The requests
are chosen so that the system signs, the on-site check fails and falls back, two
and three signatures are needed, a weekend, a holiday and a make-up Saturday are
crossed, a balance is exhausted and dates are refused. The department is the
seeded one of three people with two to stay. `LastDay` stops the clock after the
first leaves have begun.

For the cache of holidays: two calls that go on calling, two imports that contradict
each other on one date, two pending evictions (one that is late and one more), and
three dates: a holiday, a working day and a weekend day. For the notices: batches of
two out of three rows, so that rows that fail can hold up another one, two tries,
and one end of the process. For the users: one user, since no action reads the entry
of another one, two roles and the inactive state, two requests of which one can be
slow, and five ticks, enough for an entry of two to be stored late, to be used and
to expire. The bound TTL + QueryTime is the best one: with one tick less TLC finds a
counterexample.

For the migration: two files and a third one that only the
newer release ships, two instances of that release that race for it and one of the
older release, with any number of faults. For the balances: two annual leaves that race for
compensatory days of which there are enough for either, a leave of the
compensatory kind, one that needs no balance, and two years, in the second of
which nobody has a row of compensatory days. The runs of violations use the
smallest instance that shows them. Deadlock is not an error for leaves,
notices, balances and migrations: when everything is answered, delivered or paid
the system rests.

Symmetry (over leaves and handlers, requests and roles) is used where no
liveness is checked.

Fairness is assumed only by the runs with a liveness property.

- `LeaveWorkflow`: requests that have begun run on (weak fairness): a goroutine
  is scheduled and every pgx call returns. Approvers take up a row in their list
  and get through (strong fairness): the handlers that are busy at a moment bound
  the model, the server starts one for each request. Nothing makes anybody
  submit, cancel or fail.
- `HolidayCache`: time passes, goroutines run, and a call or an import that has
  begun takes its next step, a failure included (weak fairness). Nobody has to
  call. `StaleAnswersCease` is claimed only if queries are not cut short for ever.
- `Notifications`: the ticker ticks, a process that was told to stop ends and is
  started again (weak fairness; `docker-compose.yml` sets no restart policy, so
  this is an assumption about whoever runs the server). `UpdateStatus` and `IncrRetryCount` are strongly
  fair: they may fail any number of times but not for ever on the same row. Their
  errors are ignored, so without this a row could be sent again and again; that
  is the price of marking after sending.
- `Migrate`: a process that is down is started again, which `logger.Fatal`
  leaves to whoever runs the container (`docker-compose.yml` sets no restart policy, so
  this is an assumption about the environment), and one that runs takes its next step (weak
  fairness); faults, which are errors from outside, crashes, lists cut short and
  lost answers, may happen any number of times but not for ever. Being refused,
  because another instance was first, is not such a fault.

## 5. The proofs

Every safety property that a passing run checks is also proved, for any values
of the constants that satisfy the assumptions named here; nothing but
`PolicyAssumption`, `NotificationAssumption` and their like is assumed unless a
theorem says so.

`LeaveWorkflow_proofs`, for any number of leaves, handlers, users and approvers:

- `StepsMatchRequired`: as many rows are created as signatures are counted, for
  every length.
- `TypeCorrect`: `TypeOK`.
- `RowsAreKept`: rows of one route only, of types the length calls for, and an
  Act in flight is about an existing row (`OneRoute`, `ActsOnRows`).
- `ApprovedIsDecided`: `NodesDecidedBeforeApproval`, if AutoApproveMaxDays is at
  most 3. The property alone is not inductive: the step that approves relies on
  an earlier count. `ApprovesDecided` carries the result of the count to that
  step, and the count means something because, by `OneRoute`, the rows counted
  are among those the leave calls for, so that a count as large as the set is
  the whole set (`EnoughMeansDecided`). The limit is needed: with
  AutoApproveMaxDays at 4 or more, a leave of that length is stored with
  `required_approvals` 0, and when too few people are on site it falls back to
  two rows, of which the first one approves it.
- `DecisionsAreKept`: `NoLostDecision`, for every policy. The strengthening
  `SomeoneSettles` says who is going to settle a leave whose signatures are
  complete: a handler that is about to count or to approve. A handler that
  counts too few was not the last one (`ApprovedMeansEnough`).
- `PendingIsAttended`: `NeverForgotten`, for every policy: what `Settles` says about
  the states, without the fairness. `Stored` adds to the above that nobody comes to
  a leave before its row is there, and that Create is done only when all of its
  approval rows are.
- `ManualLeavesWait`: the finding of `lw_as_shipped`, for every policy and every
  interleaving. If `Approvers = {}`, no Act ever begins (`NobodyActs`), so that no
  leave is rejected and those that are approved were signed by the system and
  have at most AutoApproveMaxDays (`OnlyTheSystemDecides`, strengthened by
  `ShortOnAutoRoute`).

`SerialLeaves_proofs`, for any number of leaves and any policy, each request of which
may die after any statement. It answers what concurrency breaks and how far apart
requests would have to be kept, that is, which lock would mend it; the theorems
have the form Spec /\ []apart => property.

- No two requests at a time on one leave (`OnePerLeave`): `LeaveLockKeepsDecisions`,
  `LeaveLockKeepsNotices` and `LeaveLockKeepsLifecycle`, that is, `DecisionIsFinal`,
  `NoticeFollowsApproval` and `LifecycleKept`, the refinement of `LeaveLifecycle`. A
  leave is then pending from its INSERT to the UPDATE of a request that settles it,
  and approved and not announced yet when the `go` statement comes (`OnPending`).
  The theorem does not say that an approval is announced: a request that dies
  between the two leaves it unheard for ever (`Unheard`), and no code looks for such
  leaves. In the refinement, Insert is Submit; WriteSystemApproval and ActRecord are
  Sign; AutoApproveLeave and ActApprove are Approve; ActReject is Reject,
  CancelWrite Cancel; every other statement is a stutter. It assumes
  AutoApproveMaxDays at most 3, as `ApprovedIsDecided` does: the row an Act has
  decided stays as it wrote it, and an Act that is about to approve has found all of
  them approved (`ActsAlone`).
- Nor on leaves of one applicant (`OnePerUser`): `UserLockKeepsDates` and
  `UserLockKeepsBalance`, that is, `NoOverlap` and `AutoApprovalWithinBalance`. What
  Create has checked still holds when it writes (`StillApart`, `StillAffordable`).
  `Leaves` may be infinite, but only finitely many have begun (`Begun`), so the sum
  of their days exists, and by `SumLemmas` it does not grow until the system signs.
  `UserLockCoversUpcoming`: `BalanceCoversUpcoming`, which `lw_balance` violates, does hold
  if besides nobody writes approver_id and no balance is below zero. An approver
  who signs long after the check is thus what it takes. Both theorems, like
  HasSufficientBalance itself, count the days that are approved and have not begun.
  Once a leave begins its days are counted nowhere, since Deduct has no caller: over a
  year more days can be approved than the balance has, even one request at a time.
- Nor on leaves of one department (`OnePerDept`): `DeptLockKeepsOnSite`, that is,
  `AutoApprovalKeepsOnSite`. As many people are left as were counted (`StillOnSite`).
- `Serial` gives all three (`SerialKeepsApart`), hence the same theorems for requests
  that come one at a time, which is what `lw_serial` checks: `DecisionsAreFinal`,
  `NoticesFollowApprovals`, `ImplementsLifecycle`, `DatesAreKept`, `BalanceIsKept`,
  `ShippedUpcomingIsCovered`, `MinimumIsKept`.

Each step is needed. `lw_cancel_race` has two requests on one leave. Two Create calls
of one applicant are on two leaves, and neither HasOverlap nor the balance check sees
a row that is not yet inserted. The two leaves of `lw_min_on_site` are of two
applicants.

`HolidayCache_proofs`, for any calendar, calls and imports:

- `TypeCorrect`, and `OneNotionOfWorkday`: `CalculateWorkingDays` and `IsWorkday`
  agree on every day and every map.
- `CachedCalendarIsRight`: `OutOfDateOnlyWhenOvertaken`. It needs
  `CachedRowsCurrent`, about the rows in the hands of calls and imports, which are
  stored later.
- `WorkingDaysAreRight`: from it, that `CalculateWorkingDays` over the cached map is
  the number of dates that the table says are worked. `LeaveWorkflow` takes its
  `Calendar` for such a map.
- `FirstDayAnswered`: `AnsweredBeforeFirstExpiry`, from `NothingEvictedYet`: no
  eviction is pending before the first entry is old.

`Notifications_proofs`, for any finite set of notices, batch limit and number of
ends:

- `TypeCorrect`; among other things, no row is tried more than three times.
- `RepeatsAreExplained` and `MarksAreEarned`: `RepeatedOnlyIfUnmarked` and
  `MarkedMeansSent`. Both need `AgesDiffer`, by which the oldest row of a batch is
  a single one, and `UnsettledRows`, by which a batch has only rows that may be
  sent and a row that was sent is marked, being marked, or has lost its mark.
- `ImplementsDelivery`: `DeliveryKept`. The INSERT is Store, Send is Send, Mark is
  Confirm, Count is Fail; MarkFails is LoseConfirmation, and so is an Exit that
  catches the worker between a send and its mark. Every other step is a stutter:
  because ages differ, no step that touches the batch changes which notice is in
  hand (`OneInHand`).

`UserCache_proofs`, for any users, roles, requests and lifetimes:

- `TypeCorrect`: no row of an inactive user gets into the cache or to a handler.
- `ChangesAreNoticed`: `ChangeNoticedInTime`. The invariants `EntriesRecent` and
  `ReadsRecent` say that an entry, and a row on its way to one, was true recently
  enough, counted from the last moment at which the user still had it.

`Migrate_proofs`, for any instances, releases and tolerant files:

- `TypeCorrect`, and `EveryFileOnce`: `AppliedOnce`. It needs `SkipsRecorded`, what
  the loop will skip is listed, and `OneInserts`, of those who are about to commit
  a file only one has its version in, which is what the primary key gives.
- `ImplementsHistory`: `SchemaKept`. Commit is Apply, whether or not it is heard,
  since the file is the first that is left and those before it are listed.

`BalanceLedger_proofs`, for any calls and rows:

- `TypeCorrect`, `NeverOverdrawn`: the condition in the UPDATE is what keeps
  `NoOverdraw`, since the read before it may be old.
- `RefusalsHaveACause`: `RefusedForCause`, from `ChosenHolds`: the days a call has
  chosen are there until another call is charged to the row.

- `BooksAreKept`: `BooksBalance`, about sums of days. `IInv` is inductive. A row's
  used days are compared with the sum over the calls that have been charged to
  it and not paid back (`Owed`); those are among the calls that have begun, of
  which there are finitely many, so that `Calls` itself may be infinite. A charge
  adds one call to the sum, a refund to the same row takes one away, and a refund
  that goes astray only makes the used days fewer.

`SumLemmas` has the facts about `SumFunctionOnSet` that these need: a sum over
naturals is a natural, one more or one less element adds or subtracts its value,
fewer elements sum up to no more. The library defines the sum by a recursive
function on subsets, and its induction theorems cannot be cited here (they take
an operator). The argument is by a least counterexample instead. The sizes up to
which the recursion has a solution contain 0 and with each size the next, so
there is no least size without one (`NatBySuccessor`, `Solvable`); two solutions
agree, and a sum does not depend on which element is taken first, because there
is no minimal set on which it fails (`MinimalSet`). Only the well-foundedness of
the naturals and of the subsets of a finite set is cited.

Model-checked only: the four liveness properties `Settles`, `StaleAnswersCease`,
`EveryRowSettled` and `EveryInstanceServes`, which are out of the prover's reach.

## 6. Not modelled

- `GetByID`, `List`, pagination, health checks, formatting and logging: no state.
  `List` pages by OFFSET while rows come in, so a page can repeat a row of the
  page before it; nothing in the code depends on it.
- `users.is_active` in Create, and a change of department while a leave is
  open: `DeptOf` is constant. One year is modelled in `LeaveWorkflow`.
- The composition of `LeaveWorkflow` with `BalanceLedger`: the comments say
  when Deduct and Refund are to be called (`balance_service.go:58`, on approval, and
  `:82`, on cancellation or rejection), but nothing calls them, so used days never change in the
  shipped program.
- What the migration files do, beyond whether they can be executed twice, and a
  release whose files sort before those of an older one.
- The holiday map in `LeaveWorkflow` is right and constant; several years; several
  server processes that serve one database at a time (each has its own caches, and
  their workers would poll the same rows).
- `UserCache.Invalidate` has no caller, `RequireRole` is not used.
- Lists cut short elsewhere than in the holidays, the batch of notices and the
  list of migrations: they are shown to a user, or, the pending list of an
  approver, at worst refuse a decision that can be sent again.
- Redis: connected to at start, pinged by the health check, not used otherwise.
- The statuses `expired`, `MinimumOnSiteRatio`, `NotifyLeaveRejected`,
  `ValidateDateRange`: nothing uses them.
- Whether the router starts: `/:id` and `/:leave_id/approvals` (`router.go:78-80`) give
  one path segment two names, which gin refuses when the routes are registered. The
  models take the handlers as reachable.
- Columns that a query cannot scan: `users.phone` may be NULL
  (`001_create_users.sql:7`) and is read into a string. The users of the models have
  rows that can be read.
