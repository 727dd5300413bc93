# TLA+ models of BRIDGEPORT

BRIDGEPORT deploys Docker services to servers over SSH. It is one Node process
(Fastify, Prisma on SQLite) with a scheduler; a web interface, a command line
tool and an MCP server use its HTTP API. These modules model the parts of it
where the order of asynchronous steps decides what ends up running on a host,
what is kept in the database and on disk, what is answered to a client and who
is told.

## Inventory

| Part | State | Operations | What is hard | What makes it correct |
|---|---|---|---|---|
| Plan builder (`orchestration.ts` 44-257) | dependency rows, selection, step list | `detectCycle`, `resolveDependencyOrder`, `buildDeploymentPlan` | shared sets of a recursive search, rows in any order | dependencies first, each deployment once, cycles and only cycles refused |
| Plan execution (`orchestration.ts` 264-855, `routes/deployment-plans.ts`) | plan status, step status | `executePlan`, `rollbackPlan`, `cancelPlan` and the three routes | execute, cancel and manual rollback interleave at every `await`; database calls fail; the process crashes | stop at the first failure, roll back everything in reverse, one terminal webhook, no plan left running |
| `deployService` (`deploy.ts`) | `Service.imageTag`, compose file, container | load, tag, generate, write, up, verify | the tag is shared by all deployments of a service and read three times | a rolled back host runs the previous image |
| Health verification (`health-verification.ts`) | none | `verifyServiceHealth` | waits and retries | a failure stops the plan |
| Idempotency keys (`lib/idempotency.ts`) | one row per key, method and path | `preHandler`, `onSend`, `onResponse`, daily cleanup | takeover of a stale row races its owner; crash while a handler runs | no concurrent handlers, right replay, key never wedged |
| Webhook subscriptions (`webhook-subscriptions.ts`) | `WebhookDelivery` rows, flag `delivering` | `emitWebhookEvent`, `deliverPending`, `markFailed`, cleanup | overlapping sweeps, crash after a POST, batch and attempt limits | no duplicate without a fault, nothing forgotten |
| Keyed lock (`lib/keyed-lock.ts`) | promise chain per key | `runExclusive` | order of promise callbacks, keys dropped while others chain on | mutual exclusion, arrival order, no key left behind |
| Notifications (`notification-queue.ts`, `notifications.ts`, `outgoing-webhooks.ts`) | queue in memory, notification rows | enqueue, drain, fan-out, flush | overlapping drains, rows deleted during the fan-out, shutdown | each entitled person told once and in order, nothing forgotten |
| Configuration files (`config-file-auto-resync.ts`, `routes/config-files.ts`) | content, history, sync status, copies on hosts | edit, restore, sync, re-sync for a key | edits while a sync runs, targets that fail | no content lost, an "ok" sync has delivered |
| Sync batches (`sync-batch.ts`) | batch and operation rows | execute, undo, replay by key | the undo fails half way, two requests with one key, crash | the report is true, one key runs once |
| Dependency route (`routes/service-dependencies.ts`) | `ServiceDependency` rows | add, remove, deletion of a service | check and insert in two calls | the stored graph can be planned over |
| Accounts (`auth.ts`, `plugins/authenticate.ts`, `routes/users.ts`, `routes/service-accounts.ts`, `routes/api-tokens.ts`) | users, accounts, tokens, environments | create, change, delete, authenticate | a role checked early and used late, owners that disappear | tokens bounded by their owner, an admin remains |
| Health alerts (`bounce-tracker.ts`, `scheduler.ts`) | resource status, failure counter | runs of the scheduler, checks by hand | read and write in several calls, runs that break off | alerts at the threshold, spaced, recovered once |
| Agents (`routes/metrics.ts`, `agent-deploy.ts`, `scheduler.ts`) | status and times of a server, throttle in memory | ingest, staleness check, deploy, remove, new token | heartbeats throttled in memory, check with an old read | a pushing agent is active |
| Backups (`database-backup.ts`, `scheduler.ts`) | backup rows, files, schedules | create, execute, rotate, delete, cleanup, due check | background execution, two queries for one decision, restart | floor kept, rows and files together, one backup per slot |
| Image updates (`image-management.ts`, `scheduler.ts`, `deploy.ts`) | digests, deployed digest, tags | update check, automatic deploy, recording | checks and deploys overwrite each other's view | services catch up with the last push |
| Templates, drift, registries, metrics, servers, clients, interfaces | rows | CRUD, text generation, remote I/O | mostly I/O | |

How they interact: a route, the scheduler or an incoming webhook builds a plan
and calls `executePlan` without waiting for it. `executePlan` calls
`deployService` and `verifyServiceHealth` step by step, `rollbackPlan` calls
`deployService` again; `deployService` holds the keyed lock of the compose file
while it runs a compose command and records the digest on the image, which the
next update check reads. The end of a plan calls `emitWebhookEvent`, which stores
rows that the delivery sweep POSTs, and puts a notification into the queue. The
scheduler starts the health checks, the staleness check, backups, rotation,
update checks, sweeps and cleanups, and nothing keeps a run from starting while
the one before it is still at work. A POST may carry an Idempotency-Key. All
requests share one process and one database; nothing is locked between two
database calls except compose runs on one file.

## Modules

| Module | Models | Checked with | Proved in |
|---|---|---|---|
| `PlanBuilder` | building a plan | `MCPlanBuilder`, part `build` | `PlanBuilderProofs` |
| `PlanExecution` | executing, cancelling and rolling back one plan, with the deploys it runs | `MCPlanExecution` | `PlanExecutionProofs` |
| `IdempotencyKeys` | all requests with one key | `MCPlanBuilder`, part `retry` | `IdempotencyKeysProofs` |
| `WebhookDeliveries` | subscriptions of one environment and their deliveries | `MCWebhookDeliveries` | `WebhookDeliveriesProofs` |
| `KeyedLock` | `runExclusive`, its callers and the event loop | `MCKeyedLock`, part `lock` | `KeyedLockProofs` |
| `FifoMutex` | abstract: what the lock promises | `MCKeyedLock` (`ImplementsMutex`) | `KeyedLockProofs` |
| `NotificationQueue` | the queue, its consumer and the flush at shutdown | `MCKeyedLock`, part `notify` | `KeyedLockProofs` |
| `ConfigFileSync` | contents, histories, host copies, sync and re-sync | `MCRequests`, part `file` | `SyncBatchProofs` |
| `SyncBatch` (extends `ConfigFileSync`) | batches over files, undo, replay | `MCRequests`, parts `batch`, `keys` | `SyncBatchProofs` |
| `DependencyRoute` | dependency rows and the routes that change them | `MCRequests`, part `route` | `PlanBuilderProofs` |
| `Accounts` | users, service accounts, tokens, roles and scopes | `MCScheduler`, part `account` | `SchedulerProofs` |
| `HealthAlerts` | a watched server or container and its bounce tracker | `MCScheduler`, parts `server`, `container` | `SchedulerProofs` |
| `AgentStatus` | a monitored server, its agent, ingest and staleness | `MCScheduler`, part `agent` | `SchedulerProofs` |
| `BackupRuns` | the life of a backup and the cleanup | `MCScheduler`, parts `dump`, `upload` | `SchedulerProofs` |
| `ImageUpdates` | update checks, automatic deploys, what deploys record | `MCScheduler`, parts `versions`, `rolling` | |
| `BackupRotation` | which backups a policy keeps, and the passes that delete the rest | `MCBackups`, parts `passes`, `overlap`; `MCBackupFloor` | `BackupRotationProofs` |
| `BackupSchedule` | `checkDueBackups` every minute | `MCBackups`, part `schedule` | `BackupRotationProofs` |
| `CronSchedule` | the search for the next run of a cron expression | `MCBackups`, part `cron` | |

Operators whose comment begins with "Mutant of" are deliberately broken forms
of the operator that follows them. No specification uses them; each is there to
show that some property notices when the code is changed like that.

`MCPlanBuilder`, `MCKeyedLock`, `MCRequests`, `MCScheduler` and `MCBackups` each check
several components in one run. Their variable `part` is chosen in the initial state and
never changes; a behaviour takes the steps of that part and leaves the variables
of the others as they are. That loses nothing, because the parts of one module
have no row, file or lock in common: a step of one could not be seen by
another. Each part has constants, fairness and properties of its own. A component
whose property is also proved is extended by the MC module, so that run and theorem
name the same definition; the others are instances.

### PlanBuilder

`Init` chooses the dependency rows, their types, the selection and the number
of deployments per service. `SearchFrom` .. `SearchReturn` are the recursion of
`detectCycle` with its call stack (`frames`) and its two shared sets; `StartSort`,
`NextLevel` and `FinishSort` are Kahn's algorithm; `EmitService` and
`SavePlan` write the steps. A dependency of a service on itself does not occur
(the dependency route refuses it). The crash between the creation of the plan
row and of its steps is not modelled.

### PlanExecution

One action is what happens between two `await`s of a request. `pc` says where a
request is: `load`, `artifacts`, `generate`, `write`, `up`, `verify` are inside
`deployService`, `record` is the write of the step's outcome, `rbread`, `rbnext`
are `rollbackPlan`, `catch` is the catch block of `executePlan`, `skip` and
`cancel` are `cancelPlan`. Data is reduced to two tags, `previous` and `target`:
`Service.imageTag` has a default and is never null, so every step has a
`previousTag`.

 - A deployment is `managed` (SSH, and the compose file BRIDGEPORT writes is the
   one it brings up), `unmanaged` (SSH, but the operator's shared file is kept or
   there is no compose path and the container is restarted) or `socket` (no SSH).
   Only on a managed host does a deploy decide which image the container has.
 - Failures inside `deployService` may happen at every step (`DeployFail`), and
   leave behind what was already done. Failures of the orchestration's own
   database calls (`Fault`, `RecordRetry`, `RollbackRecordFault`) are counted.
 - `FailPlan` and `RollbackFinish` contain the notification between or after the
   status and the webhook: `sendSystemNotification` only puts a job into a queue
   in memory, so nothing can fail or be lost in between.
 - The branch for `parallelExecution` groups steps by `order`, which is unique,
   so each group has one step and the branch does what the sequential one does.
 - A step that failed is not rolled back itself. That is what the code does, and
   `ToRollback` says so.
 - A crash ends every request. Nothing resumes a plan at boot.

### IdempotencyKeys

One stored key on one route. `row` is the only row it can have. A request is cut
at its find, delete, create, at the handler and at the write of `onResponse`.
Time is the age of the row and, for the property `OneHandler` only, of each
running handler. Clients send the same request again until they have an answer
that is not "retry". `row.by` and `row.late` are history: whose response the row
holds, and whether it was stored when the row was already stale.

### WebhookDeliveries

A row per event and matching subscription. `work` is the batch of the sweep in
progress; at most `Concurrency` rows are in flight. `nextAttempt` abstracts the
backoff to now, later and never. No route disables a subscription, so the check
for it is one of the reasons of `Refuse`. The history keeps how a row went: `gone`
with its subscription, or removed by the retention when nothing was left to do for it;
`lapsed` when the retention removed it with a retry ahead, which the code does and its
comment denies (see "Differences"); `lost` would be a row removed before its first
attempt, which the where clause of `Cleanup` excludes. `DeliveriesSettle` allows all
but the last.

### KeyedLock and FifoMutex

A call of `runExclusive` is cut where the event loop can run something else: the
call itself (it reads the tail of its key and makes itself the tail, in one
piece), the start of `fn` when the previous tail has settled, each of the two
remote commands of `fn`, the settling of the call's own tail, and the `finally`
that deletes the key if the call is still its tail. `prev` is the call whose tail
is waited for, `chains` the map. `FifoMutex` knows nothing of
promises: calls take tickets, and the one with the lowest ticket of its key may
enter. `fn` may throw; the chain goes on either way.

### NotificationQueue

A drain takes the jobs out of the queue and processes them one by one, cut at
every await: reading type and users, `createMany`, emails, webhooks with their
retries, Slack. `told` is the history of who was told of what, in order. What is not
inside a `try` of its own can throw: a query before the emails ends the job
(`JobFails`), and the list of webhooks, the settings, the secret that cannot be
decrypted or the counters of one webhook end all the webhooks after it (`HooksFail`).
A recipient or webhook deleted meanwhile does the same to `createMany` and to the
counters. `cut` is the history of these exceptions and their cause; `Reaches` says who
is entitled, apart from those an exception left out, and `Explained` that only a
failing call or such a deletion is ever the cause, so that a refused email, POST or
message takes nobody along. The flush at shutdown waits for the queue to empty, or
runs into its deadline. One process life, all jobs of one type.

### ConfigFileSync and SyncBatch

A content is a version number; what lies on a host is a version together with the
version of the one secret a file refers to. Each pair of an attachment and a
deployment is written in a step of its own, and each may fail. The model keeps
track of syncs during which somebody else edited or wrote the same file:
`UndisturbedSyncDelivers` speaks of the others. A batch goes through the lookup by key, the
insert against the unique index, its operations one by one and, if asked to, the
undo in reverse, and a crash can end it anywhere. Audit rows and the webhook at
the end are left out.

### DependencyRoute and Accounts

The handler that adds a dependency reads services, edges and the graph, checks,
and inserts, with deletions of services in between. A set of edges is circular when no
numbering of the services falls along every edge, the definition the plan builder's
proofs use too. `Accounts` cuts each request
at authentication and at its handler: the role and the scope found first are
used later, when rows may have changed. A token's scope is compared with the
environment of the path. `Work` stands for the routes that look for what the body or
the path names in that environment; `DeployPlan` is the one that does not, so that
`worked` records both environments, that of the route and that of what is changed.
`TokensBounded` is about the first for every route, and about the second for all but
the plans; the run `token_scope` shows the plans. Passwords, names and expiry times are
left out; roles are the numbers of `roleHierarchy`, and the identifier of a deleted
token is not given out again.

### HealthAlerts, AgentStatus, BackupRuns, ImageUpdates

 - `HealthAlerts` has the flow of servers and that of containers with the bounce
   tracker. They differ in when the previous status is read, and this decides what
   overlapping or broken off runs notice. The staleness check also counts a failure of
   the server when its agent goes offline (`lib/scheduler.ts:744`, `:819`), in the
   tracker that the health checks use. That is not modelled: flow `server` is about
   servers whose metrics do not come from an agent.
 - `AgentStatus` counts time in ages. The throttle lives in memory and is stamped
   before the transaction that writes the heartbeat. `silence`, `steady` and `lost`
   are history: time since an accepted push, time since the agent was last late, and
   heartbeats rolled back since one was written.
 - `BackupRuns`: `createBackup` writes a row, `executeBackup` runs in the
   background. Phases in `Slow` have no timeout in the code and so no fairness here.
   The backups in `Uploaded` go to object storage, the others stay on the server.
 - `ImageUpdates`: push n is digest n, with a tag of its own or all with one tag. A
   plan is reduced to what `PlanExecution` shows of it. It assumes that one plan
   runs at a time, that a scheduled check (every 30 minutes by default) does not
   begin beside one, and that deploys fail in their remote commands only.

### BackupRotation, BackupSchedule, CronSchedule

`BackupRotation` has the policy (last n, tiers per period, floor, cap on bytes,
pins) as operators and a pass cut at its queries and deletions. The delete of a file
can fail without effect or with it (the answer of the host or of the storage is lost);
a query or the delete of a row can fail (`PassFails`, `DeleteRowFails`); and the process
can restart anywhere (`Crash`). A deletion that breaks off with the file already removed
leaves a completed row without its file: `broken` is the history of these, and
`RowsAndFiles` says that there are no others, and that a file outlives its row only
when a user's deletion gave up on it. `overlapped` is
history: some pass has begun while another was under way. `BackupSchedule`
has fixed periods; the general computation is `CronSchedule`, the search of
`getNextRunTime` minute by minute with its jumps, compared with the definition
of the first matching time, over a shortened calendar.

## Runs

| Run | Properties | Result |
|---|---|---|
| `builds_and_retries` | `DependenciesFirst`, `EveryDeploymentOnce`, `CyclesRefused` (part `build`); `OneHandler`, `ReplaySound`, `TimelyResponseKept`, `KeyNotWedged` (`retry`) | hold for all graphs and selections of 4 services; 3 clients, two bodies, a fault, a crash |
| `plan_execution` | `StepGate`, `RollbackCoverage`, `RollbackReversed`, `RolledBackRestored`, `OneTerminalEvent`, `CompletedMeansDeployed`, `AnnouncedOutcome`, `PlanSettles` | hold; one executor, one cancel, one manual rollback, one failing call, one deleted deployment, one crash |
| `webhook_delivery` | `AcknowledgedOnce`, `DeliveriesSettle` | hold; 2 subscriptions, 2 events, 2 workers, a fault, a crash |
| `keyed_lock` | `OneHolder`, `MapHoldsTheLast`, `ImplementsMutex`, `EveryCallEnds` (part `lock`); `FanOutSound`, `EveryJobProcessed` (`notify`) | hold |
| `requests` | `NothingLost`, `UndisturbedSyncDelivers` (`file`, `batch`); `BatchReportsTruly` (`batch`); `KeyRunsOnce` (`keys`); `StoredGraphSound` (`route`) | hold |
| `scheduled_jobs` | `TokensBounded`, `AdminRemains` (`account`); `NoticesInOrder` (`container`, `server`); `SteadyNeverMarked`, `RunningAgentActive` (`agent`); `CompletedIsKept`, `InProgressEnds` (`dump`, `upload`); `ImageCatchesUp` (`versions`, `rolling`) | hold |
| `backups` | `FloorKept`, `RowsAndFiles`, `RotationFinal` (`passes`, `overlap`); `SchedulesOnTime` (`schedule`, `cron`) | hold |
| `plan_executed_once` | `ExecutedOnce`: "A plan can only be executed once." | violated: check and write are two calls |
| `plan_false_cycle` | `OnlyCyclesRefused` | violated: `recursionStack` keeps an unselected service |
| `server_stays_down` | `StaysDownAlerted` | violated: a failure is counted only when the status changes |
| `backup_floor` | `HardFloor`: `minFloor` is a hard floor | violated: each of two overlapping passes keeps the floor, both together do not |
| `token_scope` | `PlansInScope`: a token acts on the environments it was made for | violated: a plan deploys services of any environment |

The violated ones are described in `PROJECT.json` under `findings`, with the line
of the documentation or test they contradict. Several properties hold only with
a condition that is part of their statement (undisturbed syncs, requests one
after the other, checks and passes of rotation that do not overlap, one editor of
a file at a time); what happens without the condition is listed under
"Differences" below or shown by `backup_floor`.

In `backup_floor` the floor is 4. A pass over backups 1 to 5 decides to prune 3, which
no tier selects. Before it has, the sixth backup completes and begins a new day and a
new week, so that the tiers let go of 1 and 2; a second pass keeps {3, 4, 5, 6} and
prunes {1, 2}; both finish, and 4, 5 and 6 are left. Nothing keeps two passes apart:
`rotateDatabase` is called by the due check behind each backup it has started, by the
daily sweep and by two routes.

In `token_scope` a token made for `e1` creates a plan on the route of `e1` with a service
of `e2` in the body: `enforceTokenScope` sees the path, and `buildDeploymentPlan` loads
the services by id (`services/orchestration.ts:160`).

Deadlock is not checked: plans, requests and deliveries come to an end.

### Bounds, and why they are enough

 - Four services give every shape of graph that matters to the search: a shared
   dependency, a diamond, a cycle of three with a tail, an unselected dependency of
   two selected services. Two replicas of one service, none of another.
 - A plan of three steps on two managed hosts of one service, with a health check
   between the two deploys: rollback has an order, the tag is shared, and a failed
   check rolls back. Hosts without a compose file of ours are in the theorems only,
   which hold for all kinds.
 - One cancel and one manual rollback can each hit every await of the execution, and
   the manual rollback overlaps the automatic one. One failing call reaches every
   catch clause but the failure inside a catch block; the theorems hold for any
   number.
 - `StaleAge` 1 and `RetentionAge` 3: a row is fresh, stale and expired in turn, and
   a request can be caught in each. Three clients: an owner, one that takes over,
   one with another body.
 - Deliveries: as many attempts as events and as many workers as rows in a batch, so
   that attempts run out and a batch leaves rows behind. Only the subscription with
   two deliveries is ever deleted.
 - Lock: three calls on two keys, so that one chains onto another while a third
   meets the key as it is dropped. The theorems hold for any number.
 - Notifications: two jobs, two users, two webhooks, two overlapping drains, one
   change of rows, one refused message or one call that throws; two attempts per webhook.
 - Files: two, one of them with a base row and an override for one deployment; a
   sync, an editor with two edits and a secret that changes once. Batches: two over
   these files, one of them undone, and one edit; with a key: three requests, two of
   them equal, one crash, no edits.
 - Routes: five requests to add a dependency among four services. Accounts: two
   users, a service account, a token, two environments, two requests at a time, four
   in all; sessions do not work in environments, only the token's changes are recorded.
 - Alerts: threshold 2, cooldown 1, up to seven changes of the resource, one fault.
   Agents: interval, window, stale and offline at 1, 2, 5, 6, so that the throttle
   skips pushes and the threshold has room for one heartbeat lost (the defaults have
   room for two); one fault, two requests.
 - Backup runs: timeout, stuck and old at 1, 2, 4; one crash, one fault. Rotation:
   five backups over three days and two weeks, or four with a pin and a deletion, and
   one failing call or restart, with the two passes exchangeable (only invariants are
   checked there); in
   `backup_floor` six, because the second pass must see a new period that the first
   did not. Schedules: two databases, two periods and a half. Cron: 384 expressions
   over months of 2, 4 and 3 days and weeks of 4.
 - Images: two services; two pushes with at most one failed deploy, deploy by a user
   or cleanup, and one check by hand; three pushes of a rolling tag with two deploys
   by a user or cleanups, without failures and checks by hand. Two failures in a
   row, for example, do break `ImageCatchesUp` (see below).

### Fairness

 - `PlanExecution`: a running request takes its next step. Its SSH, Docker and
   database calls return or time out. No request has to be sent, and nothing is
   assumed of operators, faults or cancels (a cancel that never proceeds is
   allowed).
 - `IdempotencyKeys`: a client sends again, handlers return, and time passes until
   a row in progress is stale. Nothing is assumed of the cleanup or of expiry.
 - `WebhookDeliveries`: the scheduler calls `deliverPending` every few seconds, a
   sweep that has begun goes on (a POST has a timeout), and backoffs end. One weak
   fairness covers the begin and the end of sweeps, and one per delivery its attempts
   and its backoff, because of each pair only one is ever enabled. Emissions need not
   happen.
 - `KeyedLock`: the event loop runs every job that is ready, and the commands of the
   callers return or time out.
 - Notifications: a drain that has begun goes on, and the interval of 250 ms starts
   one when the queue is not empty. Nothing is assumed of shutdowns.
 - Scheduled jobs: intervals fire for ever, probes and remote commands come back,
   except uploads, which nothing bounds. The agent keeps pushing only as far as
   time passes; strong fairness of the clock says that time passes between
   the checks, however often these are made.
 - `requests` and `backups` check no liveness and assume no fairness.

## Proofs

Everything below holds for all values of the constants: any number of steps,
services, deployments, clients, requests, calls, keys, subscriptions, jobs, files,
batches and backups, any graph, policy, interval and threshold, and any number of
failures and crashes. The assumptions on the constants are the named `ASSUME`s of the
modules (types, that what is counted is finite, and the order of the thresholds: a
dump times out before it counts as stuck, an agent pushes more often than it takes to
be offline); TLC evaluates them on the instances of the runs. What a theorem assumes
beyond that, for example that runs of one job do not overlap, is in its statement.

**PlanExecution.** `TypeCorrect`, `OneTerminalEventHolds` and `AnnouncedOutcomeHolds`
hold with any number of executors. The other theorems assume `SoleExecutor`, that one
request executes the plan; `plan_executed_once` shows why this is an assumption and
not a fact. The inductive invariant `IInv` is the conjunction of `TypeOK` and

 - `Phases`: once a rollback has begun, or the plan is completed, failed or rolled
   back, no execution goes forward, and none can begin because the plan is not
   pending. None of the properties is inductive without this.
 - `Coverage`: what a rollback still has on its list, is working on, or has tried
   in vain contains every step that is still deployed.
 - `Gate`: the steps behind an execution succeeded.
 - `Restored`: how far a rollback has brought row, file and container back. With
   `Phases` nobody writes the target tag any more, so the stale comparison in
   `deployService` does no harm.
 - `Deployed`: how far the execution has come, in terms of the containers: behind it
   every managed host runs the target image, and the host it is at does so once its
   deploy is recorded.

`StepGateHolds`, `RollbackCoverageHolds`, `RollbackReversedHolds`,
`RolledBackRestoredHolds` and `CompletedMeansDeployedHolds` follow from it.
`AnnouncedOutcomeHolds` needs no sole executor. Its invariant `Notified` says that a
terminal status without its webhook is that of a catch block whose rollback is under
way, or was cut off by a second fault or a crash; this is why the property allows
one failing call and not two.

**PlanBuilder.** `LevelsCorrect` and `DependenciesFirstHolds`: the invariant
relates the in-degree of a service to the number of its dependencies not placed
yet, says that the queue holds exactly the unplaced services of degree 0, and
that the emitted services are closed downwards in the levels. Neither needs the
search for cycles to be right. `EveryDeploymentOnceHolds` adds `Listed`: what has
been emitted is complete and has no step twice. `CyclesRefusedHolds` ties search and
sort together with `SearchInv`:

 - `Calls`: the call stack of `detectCycle` is a path of dependencies, `visited` and
   `recursionStack` stand for finished and running calls;
 - `Descending`: a ranking of the selection (a number for each service, above those of
   its dependencies) falls along the call stack, so that a selection that can be
   ranked is not refused;
 - `Outcome`: what has been searched in full can be ranked, so that an accepted
   selection can be, and then Kahn's algorithm runs out of services only when all are
   placed: a least unplaced service would have no waiting dependency.

**DependencyRoute.** `StoredGraphStaysSound`, in the same module because both are
about rankings. It assumes `OneAtATime`: additions follow one another, while removals
and deletions of services may come between any two of their calls. The invariant
`RouteInv` says that the edge about to be inserted closes no cycle (`InsertIsSafe`),
then and since: nothing else adds edges, and what can be ranked can still be when edges
go. Two additions at a time do make a cycle (see below).

**IdempotencyKeys.** `OneHandlerHolds`, `ReplaySoundHolds` and the action property
`TimelyResponseKeptHolds`, from `KeyInvariance`: a row in progress is held by at
most one request that created it, its age is at least the time that request's
handler has run, ids held by requests are not given out again, and a stored
response is by a client that had a 2xx for the same body.

`LevelsCorrect` and `TypeCorrect` are stated about definitions that no run lists as
a property; the runs' properties that theorems state are named in `PROJECT.json`.

**KeyedLock.** `LockInvariant` is inductive (`TicketInv`, `PrevInv`, `StartedInv`,
`ChainInv`): tickets are different and below the counter; nobody unfinished lies
between a waiting call and the one it waits for, and nobody unfinished before one
that waits for nobody; a call has started only when all before it on its key are
done; a key in the map stands for the last call on it, an absent key for none that
is unfinished. `MutualExclusion` follows because of two calls of one key the later
cannot start before the earlier has finished. `MapIsExact` says that no key is
forgotten or kept. `Refinement` shows that every step of `KeyedLock` is a step of
`FifoMutex` or a stutter: the mapping keeps key and ticket and forgets promises
and map; the step that starts `fn` enters the mutex, and the invariant says that
nobody with a lower ticket is waiting.

**NotificationQueue.** `FanOutSoundHolds`, for any jobs, users, webhooks and drains,
any changes of rows and any calls that throw. `FanOutInv` puts the jobs in one line:
processed, at hand, taken by a drain, in the queue. Of each job it says who can have
been told so far, from where the drain is in the fan-out, so that nobody hears of a
job twice or before an earlier one; and of each target that no change has touched and
no exception left out, that it has been told or is on the list of a step still to
come, so that a job that is done has reached it. A write that fails for a missing row
has a recipient or webhook that was there when it was read, so that a change has
touched the job since (`Explained`).

**WebhookDeliveries.** `AcknowledgedOnceHolds` from `DeliveryInvariant`: a delivery
that is not enqueued yet has no row, so `createMany` cannot bring back an
acknowledged one (`Fresh`); rows are worked on by one sweep at a time, and delivered
rows by none (`OneSweep`); a row that may be sent again has no more acknowledgements
than faults and crashes have lost (`Accounted`).

**BackupRotation.** `RowsAndFilesHolds`, with any number of overlapping passes,
running backups, deletions by users, failing calls and restarts: what is to be deleted
is not in progress any more, and its file goes before its row (`Doomed`); what a failure or
a restart leaves between the two is in `broken`. `FloorKeptHolds`: the lemmas about
the policy say that floor and cap leave at least `MinFloor` of the candidates (or
all of them), and `Decided` carries this through the deletions: what a pass still
has to prune is completed, and enough is left without it. The first attempt, without
the condition that passes follow one another, failed at the start of a second pass;
the failure became the run `backup_floor`. `RotationFinalHolds`, from `FinalInv`: what
a pass decided to keep is a fixed point of the policy. Keeping the newest n, the newest of
each period, filling up to the floor and dropping down to the cap each give the same
set again when they are applied to their result; the bytes of a set are counted as
a cardinality, so that no induction over lists is needed.

**BackupSchedule.** `OncePerSlotHolds` assumes `OneCheck`, that calls of
`checkDueBackups` follow one another (two at a time do run a slot twice). `StillDue`
carries what a call read at its beginning to the turn of each schedule, `MadeBefore`
says that `lastRunAt` is never behind the backups made; as the row is written before
the backup is created, a crash in between loses a backup and never doubles one.

**ConfigFileSync and SyncBatch.** All four properties, among any number of edits,
syncs, re-syncs, batches and crashes.

 - `NothingLostHolds` assumes `SoleEditor`: two editors that read the same content do
   lose one (see below). The invariant says that what an editor is about to record is
   the content it replaces, that what a batch may put back is a content the file had
   (`Snapped`), and that recorded contents stay recorded (`Remembered`).
 - `SyncDeliversHolds`, about both specifications: of an undisturbed sync, the pairs
   still to be written, the one at hand and those written with the content it read
   make up all the pairs of its file. Nothing else has written to those hosts, or the
   sync would not count as undisturbed.
 - `BatchReportsTrulyHolds` is an action property. Its invariant describes a batch at
   each place of its handler: in the loop, behind it, in the undo. The step that marks
   an operation "rolled_back" has the old content in the row and an "ok" of
   a sync begun after that, and the invariant of the syncs does the rest.
 - `KeyRunsOnceHolds` rests on the unique index at the insert only, not on the
   lookup before it, which is stale by then.

**Accounts.** `TokensBoundedHolds`, with any number of requests at a time: owners
exist because tokens go with them and the insert fails without one; the scope of a
token is contained in the one it was made with, and only a token that was never made
before gets one, so that the route of a request authenticated with a token is still in
scope when its handler runs, and what the handler finds in the environment of the
route is, too. Of the services of a plan nothing is claimed. Roles need no invariant:
the effective role is computed from both rows when a request is authenticated.
`AdminRemainsHolds`, from `AdminInv`: as long as nothing has interfered (`interfered`
is history: a request beside another, a service account, a change of a role), one
request at most is handled and no service account exists, so the admin a handler works
for is still there when it deletes somebody else, and nobody is when the first user is
about to be registered.

**HealthAlerts.** `NoticesInOrderHolds` assumes `OneRun`: runs over one resource do
not overlap (and, in the model, nothing else calls its tracker), while checks by hand
may come anywhere and runs break off anywhere. Then what a run has read of the tracker
is still true when it writes (`ReadsHold`); the counter counts no failure that no run
noticed (`Counted`); `alertSentAt` is the time of the last alert (`SentAt`) and set
exactly as long as the last notice is an alert (`SentLast`). Without `SentLast`
neither the spacing nor the one recovery per alert is inductive.

**AgentStatus.** `SteadyNeverMarkedHolds` needs no hypothesis. The argument is a bound on
how old `lastAgentPushAt` can be while pushes are accepted on schedule. A stamp of the
throttle is that of a push that wrote the row or was rolled back (`Stamped`); a push that
skipped the row found a stamp younger than the window (`Skipping`, `Answered`). So the row
is at most `Beat = Window + Interval - 1` older than the push before it, and each
heartbeat rolled back in a row adds one `Beat`: with `lost` of them the age stays within
`(lost + 1) * Beat`. The property is stated with this bound because TLC finds a
counterexample for a smaller one. With the defaults (interval and window 30 s, stale
180 s) a beat is just under a minute, so the comment at `routes/metrics.ts:31`, that a
throttled heartbeat cannot make an agent look stale, stays true while no more than two
heartbeats in a row are rolled back.

**BackupRuns.** `CompletedIsKeptHolds` assumes that no phase but the upload outlives its
timeout. `RunsInv`: what is executed is not completed, so the guarded update of the
cleanup cannot undo a completion; of a backup kept on the server, an execution is younger
than the timeout of the dump, hence not yet stuck when the cleanup reads it (`Kept`), and
what the cleanup has on its list is old, or failed with its file gone (`Swept`).

Only model-checked: the liveness properties (`PlanSettles`, `KeyNotWedged`,
`DeliveriesSettle`, `EveryCallEnds`, `EveryJobProcessed`, `RunningAgentActive`,
`InProgressEnds`, `ImageCatchesUp`), because the prover does not handle fairness
(`FifoMutex` states none, so that `ImplementsMutex` is about steps); and the half of
`SchedulesOnTime` about cron expressions, which compares a search with its definition,
an induction over the iterations of the search.

## Differences between code and documentation or intent

Seen while modelling, without a run of their own. Paths are under `src/src`
unless they begin with `docs`.

Plans and keys:

 - A cancel is not seen by the running loop of `executePlan`, which goes on
   deploying.
 - The health check of a `health_before` dependency is created for the dependent,
   not for the service it depends on.
 - The takeover of a stale idempotency row deletes by id without a second look,
   also when the owner has stored its response meanwhile.
 - Two dependencies inserted at the same time can make a cycle
   (`routes/service-dependencies.ts:142`); no property prevents it, `CyclesRefused`
   only says that no plan is built over it.
 - The retention sweep deletes failed deliveries although a retry is ahead
   (`services/webhook-subscriptions.ts:582`, against the comment at 577: "Pending and
   still-retrying rows are never touched."). Pending rows are kept.

Configuration files and batches:

 - The status "synced" is written although an edit came after the read or another
   target of the same row failed (`services/config-file-auto-resync.ts:270`), and
   two re-syncs for a secret are not ordered, so the older may write last
   (`routes/secrets.ts:306`).
 - Of two editors that read the same content one is lost from the history
   (`routes/config-files.ts:466`).
 - A sync does not change the content in the database, so the undo of a batch pushes
   again what the operation had just pushed (`services/sync-batch.ts:474`;
   `docs/guides/config-files.md:371`: "The environment is back where it started."),
   a failure of the first operation is reported as `rolled_back`, not `failed`
   (`:538`), one key with two bodies can run both (`:241`), and the replay of a
   batch under way answers `pending` (`:121`).

Alerts and agents:

 - Overlapping runs can both alert within the cooldown
   (`services/bounce-tracker.ts:70`).
 - The throttle is stamped before the transaction (`routes/metrics.ts:408`, against
   the comment at 31): when the transaction fails after a pause of nearly the stale
   threshold, an agent that pushes again is marked stale.
 - A server that pushed before and is left `deploying` or `unknown` by a deploy that
   broke off never becomes offline (`lib/scheduler.ts:711`).

Backups:

 - A backup pinned after the candidates were read is deleted
   (`services/database-backup.ts:1639`); a row that cannot be deleted ends the pass
   (`:1662`); the floor counts backups and does not prefer recent ones (`:1484`).
 - When the row cannot be deleted after its file (`:1662`, and `:1026` for a user), when
   the process dies in between, or when the delete of the file takes effect and reports
   an error (`:939`, `:966`), a completed backup without a file is left. It counts for
   the floor and is offered for restore until a later pass or user deletes it.
 - The executor overwrites `failed` by `completed` (`:769`); deleting a backup in
   progress leaves a file without a log entry (`:1008`); an upload that outlives the
   cleanup is marked `completed` after its file was deleted; a row still `pending` at a
   crash is never cleaned up (`:1855`).
 - Overlapping checks run a slot twice (`:1154`), and rotation runs before the
   backup it follows is complete (`:1172`).

Notifications and accounts:

 - A user deleted between the read and `createMany` makes the whole job fail,
   webhooks and Slack included (`services/notifications.ts:531`); a webhook deleted
   during its POST drops the webhooks after it
   (`services/outgoing-webhooks.ts:302`).
 - A webhook whose secret cannot be decrypted (`services/outgoing-webhooks.ts:208`)
   throws out of `dispatchWebhook`, so that all the webhooks after it are skipped, in
   every job; so do a failing read of the settings (`:189`) and a failing update of the
   counters (`:303`), for one job.
 - Without in-app there is no email either, though `docs/guides/notifications.md`
   lists the channels separately. A flush that reaches its deadline drops what is in
   progress without a word.
 - An admin can change their own role (`routes/users.ts:224`), so the last admin can
   step down.
 - Other routes of an environment store ids of the body without comparing their
   environment, as references that change nothing there themselves: the server of a
   database (`services/database-backup.ts:152`), the registry of an image
   (`routes/container-images.ts:123`). Backups of such a database then run on that
   server.

Images: `deployedDigestId` is one per image ("source of truth",
`docs/guides/container-images.md:68`), though services are deployed one by one. A
service stays behind, with no update announced, when two deploys fail in a row
(`previousTag` is then already the new tag); when a user's deploy of an older
version fails after its compose command on the second service; when the digest of
the previous tag was cleaned up before a rollback; when the process dies or a call
fails between the record of the first service and the deploy of the second; when
executions overlap; and with rolling tags when a check falls between the pull
and the record, or after any failure, as a rollback to `latest` rolls nothing
back.

## Not modelled

`PROJECT.json` gives the reason for each part. In short:

 - Web interface, command line, client library, MCP server: clients of the HTTP
   API, half of the repository's lines, presentation and argument parsing with no
   state the others share. The Go agent is in `AgentStatus` by its pushes.
 - SSH, Docker and registry clients, object storage, email: remote I/O, present
   in the models as steps that succeed, fail or do not return.
 - Templates, drift detection, diagrams, metrics samples and monitoring queries:
   text and append-only rows, without interleavings that could go wrong.
 - CRUD of servers, services, secrets, variables and registries beyond the
   operations named above: single database calls.
 - In modelled parts: `deployServiceTemplate`, deploys outside of plans beside
   `PlanExecution`, dry runs, registry login, image pruning and tag filters,
   notifications to single users, several Slack channels, passwords and expiry.

The share of the source these models stand for is therefore small in lines. More
lines could be named only by writing actions for single database calls that no
property tells apart.

## Plan

Done: `PlanExecution`, `PlanBuilder`, `IdempotencyKeys`, `WebhookDeliveries`,
`KeyedLock` with its refinement, configuration files and batches, the dependency
route, accounts, alerts, agents, backups, notifications and image updates; proofs of
every safety property that a run checks, except for the cron half of `SchedulesOnTime`.

Next:

 1. Deploys outside of plans as an actor of `PlanExecution`, for the hazard of a
    `previousTag` that is stale when the plan runs.
 2. An abstract specification of a plan's life (pending, running, one terminal
    status) that `PlanExecution` with one executor and no cancel implements.
