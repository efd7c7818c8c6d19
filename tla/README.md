# Coroot in TLA+

Coroot collects metrics, logs, traces and profiles, builds a model of the
applications they come from, inspects it on every cycle and tells people about
what is wrong. Several replicas of the process may share one Postgres. This
directory models the parts of it that keep state across steps that others
interleave with: who may run the background jobs, what replicas that start at
once leave in the database, how the schema of ClickHouse follows the releases,
how spans and evaluated points are stored, how the watchers are told of them, how
alerts, incidents and deployments are opened and closed, and how notifications of
them leave the process.

All paths are relative to the repository.

| module | what it is |
| --- | --- |
| `PrimaryLock` | the primary lock of replicas that share a Postgres (`db/lock.go`) |
| `PrimaryLockProofs` | its safety, proved for every instance |
| `Alerts`, `MCAlerts` | opening, updating and resolving alerts (`watchers/alerts.go`, `db/alert.go`, requests of `api/api.go`) |
| `AlertNotifier`, `MCAlertNotifier` | the outbox of their notifications (`notifications/alerts.go`, `db/alert_notification.go`) |
| `Common` | the replicas of the program, and "nothing", for the modules below |
| `SchemaMigration` | `Migrate` under `WithLock` (`ch/migrations.go`, `db/lock.go`, `db/clickhouse_schema.go`) |
| `Collector` | the clients and `migrationDone` of a collector under changes of settings (`collector/collector.go`, `collector/migration.go`) |
| `Traces` | batches of spans, request counting, bodies (`collector/traces.go`, `collector/request_counting.go`) |
| `WorldEvaluator` | evaluation cycles and recording rules (`world/`) |
| `Mailbox` | abstract: what the dispatch of updates promises |
| `WatcherDispatch` | the dispatch (`world/run.go`, `watchers/watchers.go`), shown to implement `Mailbox` |
| `Incidents` | incidents, their outbox and their pages (`watchers/incidents.go`, `notifications/incidents.go`, `db/incident.go`) |
| `Deployments` | rollouts, their rows, snapshots and notifications (`watchers/deployments.go`, `db/deployments.go`) |
| `Startup` | what replicas write while they start (`main.go`, `config/bootstrap.go`, `db/settings.go`, `db/project.go`, `db/user.go`, `api/auth.go`) |
| `MCPipeline` | the instance of these eight components for TLC |
| `AlertsProofs`, `AlertNotifierProofs`, `SchemaMigrationProofs`, `WatcherDispatchProofs`, `StartupProofs` | the safety of these modules, proved for every instance |
| `CollectorProofs` | the same for `Collector` and `Traces` |
| `PipelineProofs` | the same for `Incidents` and `WorldEvaluator` |

`PROJECT.json` lists the components, the runs, which lines a definition models,
the hazards and the findings.

## 1. Inventory

### The parts and how they interact

| part | state | operations | hard about it | correct when |
| --- | --- | --- | --- | --- |
| Primary lock, `db/lock.go` | `primaryLockConn` of a process; advisory lock 1 of a Postgres session | `GetPrimaryLock`, `DB.Close`, `WithLock` | a session has two ends that fail apart; the answer is used after the lock may be gone; `sql.Conn.Close` ends no session | one live primary; no job starts on a stale belief; some replica becomes primary again |
| World evaluator, `world/run.go`, `world/evaluator.go` | the last evaluated timestamp of a project, an update channel of capacity one | `Run`, `EvaluateProject`, recording rules | one cycle may overlap another replica's; a marker written before or after its points | every cycle once, in order, none lost after a crash |
| Watcher dispatch, `watchers/watchers.go` | a worker and a pending update per project | `Start`, `handleProjectUpdate` | updates are coalesced; projects come and go | a project that changes is checked again, never by two workers |
| Alerts, `watchers/alerts.go`, `db/alert.go` | table `alert`, `pendingAlerts`, `initializedProjects` | `Check` for four rule sources; resolve, suppress, reopen; edit or delete a rule | statements of the check and of requests interleave; snapshots; in-memory timers against restarts; failing queries | opened after `For`, closed when cleared, quiet after a user's decision, announced at both ends |
| Alert notifications, `notifications/alerts.go`, `db/alert_notification.go` | table `alert_notification` as an outbox | `Enqueue`, `EnqueueResolvedAlerts`, `retry`, `sendAlerts` | sends that fail, time out or are not recorded; two senders; a retry window | sent once, in order, all of it in the end, pages closed |
| Incidents and their notifications, `watchers/incidents.go`, `db/incident.go`, `notifications/incidents.go` | tables `incident`, `incident_notification` | open, update, resolve; the same outbox with two keys for each incident | root cause analysis that comes late; applications that vanish | one open incident for each application, closed where it was opened |
| Deployments, `watchers/deployments.go` | table `application_deployment` | `discoverAndSaveDeployments`, `snapshotDeploymentMetrics`, `sendNotifications` | discovery from life spans of replica sets, which arrive late | each rollout saved, measured and announced once |
| ClickHouse schema, `ch/migrations.go`, `db/clickhouse_schema.go`, `collector/migration.go` | a version in Postgres, tables in ClickHouse | migrate under `WithLock` | two stores that change apart; a migration that stops half way; replicas of two versions | every migration applied in order, none skipped, writers wait for it |
| Collector, `collector/` | a ClickHouse client and batches for each project | ingest, flush | a cached client against a changed configuration; a full queue; a shutdown | a batch accepted is written or dropped with an error |
| Space manager, `clickhouse/space_manager.go` | none of its own | drop partitions of a disk that is almost full | which partition goes first, on several disks and shards | the newest partition stays |
| Constructor, auditor, model, time series, PromQL and ClickHouse clients | none that outlives a call | build, inspect and query | size | not modelled: pure functions of large inputs, or I/O |
| Configuration and bootstrap, `main.go`, `config/bootstrap.go`, `api/auth.go` | the default project, its builtin rules, the settings, the administrator, all in Postgres; the auth secret also in memory | `Migrate`, `Bootstrap`, `GetDeploymentUuid`, `AuthInit` | replicas that start at once read, then write; a start that ends half way; whole blobs saved again | what was begun is finished by some start; replicas agree; every replica comes to serve |
| API, views, RBAC, pricing, cloud, front end | in Postgres only | requests | the requests that change alerts race with the watcher | those requests are actions of `Alerts` and `AlertNotifier`; the rest is not modelled |

A cycle goes: the evaluator of the primary replica reads metrics and saves the
recording rules of a project, sends an update to the watchers, and the watchers
load the world and run `Alerts.Check`, the incidents and the deployments, again
if `GetPrimaryLock` says true. Alerts are written to Postgres, and their
notifications are put into the outbox and sent; what could not be sent is sent by
the retry of every minute. Users call any replica. Everything replicas share is
in Postgres and ClickHouse.

### The plan

The models of the plan are written, in this order: `PrimaryLock` (every other
background job rests on it), `Alerts`, `AlertNotifier`, `SchemaMigration`,
`Collector`, `Traces`, `WorldEvaluator`, `WatcherDispatch` with `Mailbox`,
`Incidents`, `Deployments`, `Startup`. Proofs followed the models, in this order:
`PrimaryLock`, `SchemaMigration`, `WatcherDispatch` (with the refinement of
`Mailbox`), `AlertNotifier`, `Startup`, `Collector`, `Incidents`, `WorldEvaluator`,
`Alerts`, `Traces`, and the pages of `AlertNotifier`. All safety properties of the
runs are proved but the two of `Deployments`, which rest on a fold over a history
(section 7). What is left is breadth: the requests that save settings and users,
several replicas in `Deployments` and in the checks of `Alerts`, and the batches of logs, metrics and profiles.

## 2. PrimaryLock

**State.** A Postgres session is a member of `Sessions`, with a server end (`open`,
and `holder` of advisory lock 1) and a client end (`client`). `primaryLockConn`
and the local `conn` are those of the code; `caller` and `pc` are the call of
`GetPrimaryLock` that holds the mutex. A client end that no one refers to is in
the pool of its process, and its session keeps the lock it has.

**Actions.** `Call`, then `PingOk`, `PingLost` or `PingError` for the `SELECT 1`,
`Connect` or `ConnectFails`, and `Acquire`, `NotAcquired`, `TryFails` (the session
was gone) or `TryErrs` (it lives, and the lock was taken or not) for
`pg_try_advisory_lock`: each branch and early return of `GetPrimaryLock`. The
shutdown is `CloseLockConn`, `CloseDB` (the two halves of `DB.Close`) and `Exit`;
`Crash`, `Start` and `SessionEnds` are the world's.

**Run `lock`.** Two replicas, two jobs each, three sessions, two faults
(`MaxFaults`), 208 979 states. Three sessions are enough for one of each replica
and one that is half dead; two faults let a second failure hit the recovery from
the first. `TypeOK` includes that `GetPrimaryLock` never uses a nil connection,
which `DB.Close` would leave it without the mutex. The run checks that a kept connection holds the lock while its session
lives (`LockConnHoldsLock`), that two live ones do not exist (`OneLivePrimary`),
that a cycle starts only in a step that sees the lock held by this very replica
(`StartsOnlyWithLock`), that the lock changes hands only with the end of its
session (`StablePrimary`) and, under fairness, that the jobs go on
(`JobsKeepRunning`).

*Fairness.* Calls and cycles end (weak); a job that asks gets its turn at the
mutex (strong: Go's mutex hands over to a starving waiter); a stopped pod is
started again; Postgres finds out that a client is gone (closed socket or TCP
keepalive).

*What `JobsKeepRunning` excepts, and why.* After an error of `SELECT 1` on a
session that lives on, or one of `pg_try_advisory_lock` that took the lock, `Close`
puts the session back to the pool with the lock in it. The next call may be given another session, and then no replica gets the
lock until the pool drops the first one. The property says that a session stranded
in a pool is the only way to stop.

**Proofs** (`PrimaryLockProofs`, all safety properties of the run, for all sets of
replicas, jobs and sessions, and any number of faults). They assume that `None` is
none of the others and that `MaxFaults` is a natural number.
`LockConnHoldsLock` alone is not inductive: `Acquire` could be asked with a
session another process refers to. The invariant `IInv` adds
`ClientEnds` (a process refers only to sessions whose client end it has, so two
processes never refer to one), `CallState` (what a call has at each `pc`: while it
connects there is no kept connection, so `Acquire` overwrites none) and
`HolderOpen` (a closed session holds no lock). `NextIInv` has one step for each
action. `OneLivePrimary` follows from the uniqueness of `holder` and `ClientEnds`;
the two action properties from `IInv` and the few actions that change `holder` or
`running`. `JobsKeepRunning` is liveness and only model-checked.

**What does not hold.** That only one replica runs a job. `GetPrimaryLock` is
asked once before a cycle (`world/run.go:148`, with the comment "two would write
every point twice"), and a session lost during the cycle lets another replica
start the same one. The repository knows it and plans a lease
(`docs/superpowers/plans/2026-10-20-multi-replica-followups.md`).

## 3. Alerts

**State.** `alerts` is table `alert` in the order of `opened_at`, `rules` table
`alerting_rule`; `pending` and `initialized` are the watcher's memory; `chk` and
`req` the local variables of the running check and request. `condition` and
`present` are the world. `opened` and `resolved` are the alerts whose opening or
end was enqueued. Times are ages in evaluation cycles that saturate at `MaxAge`,
so that behaviours are unbounded in time. `streak`, `quiet`, `reopened`, `unheard` and
`cleared` are history for the properties.

**Actions.** A step is one statement. `BeginCheck` loads the rules; `NextRule`
takes one; `ListRule` reads the rows of a log or events rule (with
`InitLogPattern` when the project has no alerts yet); the four `Evaluate...`
actions decide about one fingerprint as the four functions of
`watchers/alerts.go` do; `Write`, then `Enqueue`, carry it out; `EvaluationEnds`,
`ListNonMatching`, `ResolveNext` are the loops that resolve what is left over;
`EndCheck` is `cleanupPendingAlerts`. `StatementFails` and `Crash` may hit any
step; `WriteUnheard` is a write that took effect and is reported as failed, after
which nothing is announced or counted. A request is `ReadAlert` or `ReadRule`, `UpdateRows`,
`EnqueueResolvedAlerts`, `DeleteAlertingRule`, or one of the single statements
`ReopenAlerts` and `UpdateAlertingRule`; `RequestFails` stops it, or lets the deletion of a rule go on without the end of its
alerts.

| run | instance | shows |
| --- | --- | --- |
| `alerts` | any one of: a check rule or a PromQL rule, `For` 2, `KeepFiringFor` 1; a log rule with two similar patterns or an events rule with two reasons, a cap of 1. 3 changes of the world, 1 fault, 2 requests for the check rule and 1 for the others; 2.9 M states | `FiringAnnounced`, `EndAnnounced`, `CapRespected`, `ForRespected`, `QuietWhileItLasts`, `NotResolvedWhileFiring` |
| `alerts_live` | a built-in check or PromQL rule, 1 request, 1 fault; 432 k states | `ClearedIsResolved`, `LastingConditionFires` |
| `alerts_spike`, `alerts_events`, `alerts_orphan` | the least instance that shows it | three findings, see below |

*Bounds.* One rule at a time: rules share nothing but `pendingAlerts`, whose keys
contain the rule. Two fingerprints are what a cap of one and the comparison of
patterns need. Three changes of the world let a condition appear, clear and
reappear; two requests let a user take back what another did; one fault can hit
any statement. Ages above `For`, `KeepFiringFor` and the 30 minutes of
`cleanupPendingAlerts` are alike, so `MaxAge` of a rule is the least value above
those it uses.
Patterns and reasons are symmetric (not used for liveness).

*Fairness.* The evaluator starts a cycle every 15 seconds and a check follows it;
the steps of a check and of a request follow each other. Nothing is assumed of
users or the world. `alerts_live` has built-in rules because the deletion of any
other races with the check, which is the finding of `alerts_orphan`; a deletion that
goes on after the end of its alerts had failed is in neither run.

*Excepted.* `ForRespected` leaves out a condition in `cleared`: one that a check found
clear and suppressed, so that it ended the suppression and left `pendingAlerts` alone
(see the finding of `alerts_spike`). `EndAnnounced` leaves out the alerts of deleted
rules, and those of built-in rules while users try to delete these (the request
resolves them, then fails). `QuietWhileItLasts` leaves out the end of an alert that
a user had reopened, when a check runs at that moment: the check may have listed the
row, or decided, while it was not active. `CapRespected` counts the alerts that
`firingCountByApp` can know of: not the rows a user reopened, and not those whose
`INSERT` was done and reported as failed (`unheard`), which `watchers/alerts.go:389` and
`:859` do not count. A second primary that checks beside the first has its own count,
and is left out. Most of these were found when the invariant of the
proof below turned out not to be inductive, and TLC then showed the behaviour.

**Proofs** (`AlertsProofs`, for any rules and fingerprints of any mixture of the four
sources, any `For`, cap, requests and faults): type correctness and all properties
of the run `alerts`. Each has a layer of its own over `Types`, the part that says
which rule the rows, the running check and the write under way belong to.

* `Announced` and `EndsAnnounced` say for every row who is about to announce it: the
  check that has just written it (`enqueue`), one that has the write in hand, or the
  request between its two statements. The steps of requests interleave with all of
  these, so a row's place in this list is followed through every action.
* `CapRespected` is a sum that changes while it is being used. `Snapshot` says what
  the rows an evaluation has listed still tell of the table: a row may have ended
  since, but none of the rule became active, except a row that was reopened, or
  inserted by a statement that was reported as failed (`Uncounted`). So the evaluation
  counts at least what else fires (`Counting`: the listed ones plus those it made
  itself). `Overtaking` says that only the newest row of a fingerprint can fire, and
  none while another one is about to be inserted. The counting is done with
  cardinalities, not with a recursive sum.
* `Quieting`: of an occurrence a user ended, some row is left that is not resolved, so
  that every evaluation lists it; what an evaluation has still to look at was
  listed by it, and no insert in hand opens another.
* `Waiting` relates `pendingAlerts` to `streak`, the time a condition was really seen:
  an entry is never older than the streak, or the fingerprint is in `cleared`.
* `Sighted`: the loops that resolve (`ResolveNext`) have in hand no row of a fingerprint
  that this check saw, though both were read at different times.

TLC checked each layer on the instance of `alerts` before it was proved.

## 4. AlertNotifier

**State.** `outbox` is table `alert_notification` in the order of insertion.
`thread` has the local variables of each replica's watcher, retry and request
handler: what is left to put, and for a pass the rows and the integrations it
read at its start. `pages` is what is open at a pager. `alerts` is reduced to the
state and the severity that notifications see. `hist` counts deliveries and notes
what befell a row (`overlap`: two replicas held it at once; `not recorded`: a
timeout, a failed `UPDATE` or a crash after a send; `no client`; `no thread`).

**Actions.** `Check` opens, updates or resolves an alert and calls `Enqueue`;
`EndAlert` is a user's end of it with `EnqueueResolvedAlerts`; `Put` inserts the
row of one destination (`getOpenAlert` is `OpenKeys`); `Retry` is the tick with
`GetPrimaryLock`; `BeginPass` takes `sendLock` and reads; `Send` and `Mark` are the
two halves of the loop of `sendAlerts`, apart because a crash, another replica's
pass or an `INSERT` may come between. A row that may be reached next is one of
the least in the `ORDER BY`, as rows of one timestamp come in any order.
`LoseLock` takes the lock from a primary that goes on.

| run | instance | shows |
| --- | --- | --- |
| `notifier_safety` | two replicas, one alert, Slack or PagerDuty, three timestamps with a window of one, 1 request, 1 fault; 2.0 M states | `SentOnce`, `PassesApart`, `InOrder`, `NoneDropped`, `Threaded`, `ResolveClosesPage` |
| `notifier_live` | two timestamps, so that nothing expires; 1 request, 2 faults other than a lost lock; 606 k states | `EventuallySent` |
| `notifier_page` | no faults, 2 requests | the finding on pages, see below |

*Bounds.* Destinations share nothing but the pass, and properties are about one
destination each, so an instance routes an alert to one. An alert has up to three
notifications (opened, ended by a user, resolved). The window of one lets the
opening expire while the end does not. A lost lock makes two replicas work side
by side and most of the states, so `notifier_live` leaves it out and takes two of
the other faults instead.

*Fairness.* The steps of a thread follow each other, a retry starts every minute,
a replica is started again, and the lock finds a holder (`JobsKeepRunning`). The
clock has none: the promise is about the time before `retryWindow` is over. That
destinations fail a finite number of times is the fault bound.

*Excepted.* `SentOnce` excuses a row that could not be recorded or that two
replicas held: Coroot has no idempotence key for Slack, Teams or webhooks, so a
crash between a send and its record must repeat it. `PassesApart` says when two
replicas can overlap at all: only after a lock was lost at work. `NoneDropped`
lets rows of the same alert, destination and second stand for each other, because
`UpdateAlertNotification` finds them by these columns: the end of an alert within
the second of its opening may be marked sent without being sent. For the same reason
`ResolveClosesPage` asks for `OpeningApart`: if a user ends an alert in the second of
its opening, recording the end overwrites the key in the row of the opening, and after
an edit of the severity it is the wrong one for the watcher to find. This takes two
requests (the edit and the end) and a lost lock, more than the run has; with two
requests, two timestamps and the pager alone the property holds with the
exception (3.5 M states) and fails without it.

**Proofs** (`AlertNotifierProofs`, for any replicas, destinations, routes, alerts,
times, requests and faults): type correctness and `PassesApart`, `SentOnce`,
`NoneDropped`, `InOrder` and `Threaded`, all invariants of the run, and the action
property `ResolveClosesPage`. They assume what the instance gives: `None` is no replica,
a key of Slack is not the empty one, there is a time, and no rule has the severity
`OK` (the form offers warning and critical; an opening with it would be taken for an
end). None of the properties is inductive. A pass works on a copy of the rows,
made at its start, while others put rows, mark them and read them again; so the
invariant `IInv` says what a pass may rely on.

* `Control`: until a lock is lost only the primary's threads work (`PrimaryWorks`),
  and `sendLock` lets one thread of a process send (`OneSends`). `PassesApart` is
  both together.
* `Holds`: the rows in the hands of a pass are rows of the table, each once, and one
  that is being marked was delivered or has no client. `NoneDropped` needs no more.
* `Noted` and `Once`: two passes at once have noted everything they hold; a row
  that was told and has no such note is marked or about to be, and in no pass's
  list. `SentOnce` follows.
* `Ordered` and `Late`: a pass that has a row has the earlier ones of the same alert
  and destination too, unless they are settled; and an earlier row that is still
  to be sent after a later one was told carries a note. `Ordered` is where
  `failedDestinations` and the `ORDER BY` come in: without either, the step of `Send`
  does not preserve it.
* `KeyKept`: the key of a message in Slack is in its row, or in the hands of the pass
  that marks it. With `Ordered` this gives `Threaded`.

`NextIInv` has one lemma for each action, over lemmas on what marking, noting and
recording a row leave alone. TLC checked `IInv` on the instance of `notifier_safety`
first. `EventuallySent` is only model-checked.

`ResolveClosesPage` has a second invariant, `Paging`, beside `IInv`. An alert has one
opening (`OpenedOnce`; nothing is put for one that is not there, `Begun`), so all its
openings carry one severity and with it one key. The row of an opening has that key
as long as no other row shares its timestamp (`RowKeys`); the watcher's resolution is
put with the key it finds in such a row, and what a pass has in its hands is what
the row said (`HandKeys`). Pages are open only where an opening was delivered
(`PagesOpened`), so closing the one key closes all of them. A pass of a replica that
lost the lock may repeat an opening at any time before: it opens the same key.

## 5. From a span to a notification

`MCPipeline` instantiates the eight modules below for three runs. They share
`Replicas` and no variable: at start a behaviour picks the `part` that moves, the
others stay in one initial state. So `pipeline` explores the sum of eight state
spaces, and every property is checked over all behaviours of its own component.
Where a component needs a neighbour it has it as an environment, written down in
its module: the primary lock of `WorldEvaluator` is won and lost as `PrimaryLock`
allows, `Migrate` is one step of `Collector` that ends well or not, and the cycles
of `WatcherDispatch` are the ones `WorldEvaluator` stores.

| run | instance | shows |
| --- | --- | --- |
| `pipeline` | see the bounds of each module; 3 020 852 states in all | `RecordedIsApplied`, `TakeTurns`, `Follows`, `CountedAtMostOnce`, `CountedAtLeastOnce`, `BodyKept`, `EachStepOnce`, `LabelsFirst`, `RulesWhole`, `NoLostUpdate`, `PagesClose`, `RowsAreRollouts`, `HeardInOrder`, `StartsWhole` |
| `pipeline_live` | the collector, the dispatch and the start, with their fairness; 111 243 states | `EventuallyReady`, `IsMailbox`, `EventuallyServing` |
| `start_secret` | the start alone | a finding, see below |

Deadlock is not checked: all bounded components stop when their bounds are used up.

### SchemaMigration

**State.** `recorded` is table `clickhouse_schema`, `applied` the statements a
ClickHouse has the effect of, `lock` the migrator whose Postgres session holds
`ClickhouseMigrationLockId`, `stranded` a replica whose pool holds it, `mig` the
local variables of each `Migrate`, `release` what each replica runs. **Actions.**
`Call`, `Acquire`, `ReadVersion`, `LookForSentinel`, `Exec` (one statement),
`Record`, `Unlock` and `Return` are the code's statements in its order; `Fails` is
an error or a timeout at any of them, with or without its effect (of the lock:
`AcquireFails`, after which a pool holds it); `UnlockFails`, `PoolCloses` and `SessionEnds` are what can happen to a lock; `Restart` and `Wipe`
come from outside. **Bounds.** Two migrators of two replicas, one ClickHouse, two
migrations of two statements, two breaks, one wipe: enough for a migrator that
loses its session between any two statements, a second one that overtakes it, and
another failure on top.

`RecordedIsApplied`: a version recorded is a schema applied. It excepts a wiped
database, whose version Coroot cannot know to be wrong until it looks at the
sentinel, and two databases whose `<database>@<cluster>` is the same. `TakeTurns`:
two migrators are inside only if one lost its session; this includes the stranded
lock, which lets the very replica that stranded it in again and nobody else:
the others wait until the pool drops the session, and no liveness is promised here.

**Proofs** (`SchemaMigrationProofs`, for any replicas, migrators, databases, numbers
of migrations and statements, breaks and wipes). `TakeTurns` follows from
`InsideHolds`: a migrator inside `WithLock` that has not lost its session is the
`lock`'s holder. `RecordedIsApplied` needs what a migrator may rely on while others
overtake it: `CountsApplied` says that of a migrator past `ReadVersion` every
migration up to its `version`, and every statement before `at`, is applied, unless
its database was wiped or shares its name. It is stable under the steps of others
because nothing but a wipe takes a statement back (`Grows`); no lock is needed for
it, which is why a migrator that lost its session does no harm.

### Collector

**State.** Each replica's `projects`, `migrationDone` and `clickhouseClients`, as
far as they are about one project; `upd`, `listed`, `under` and `write` are the
local variables of `updateProjects`, `migrateProjects`, `migrateProject` and
`clickhouseDo`. **Actions.** A step is what a goroutine does under one lock or in
one statement. `MigrateClickhouseDatabase`, for a project that was just created,
is `UpdateClickhouseClient` without a client to close. **Bounds.** One collector;
other replicas only change the settings (`SaveElsewhere`). Two ClickHouses, one
move, one error.

`Follows` and `EventuallyReady` except a replica that is `behind`: when settings
change while a goroutine still works with the old ones, it may set `migrationDone`
for the new ClickHouse (`collector/migration.go:94`), or keep a client of the old
one (`collector.go:304`), and nothing corrects that until the settings change again
or, for the client, an insert fails. *Fairness:* the ticker ticks, the loop of
`migrateProjects` comes round after its backoff, and a started goroutine goes on;
nothing is assumed of users, batches or faults.

**Proofs** (`CollectorProofs`, for any replicas, ClickHouses, moves and errors).
`Follows` is about settled replicas, so the invariant says what holds in between: of
a replica that is not `behind`, every goroutine goes on with the settings it has
loaded (`Current`), and a client or a `migrationDone` of other settings is one that a
`setProjects` under way is about to drop (`ClientFollows`, `DoneFollows`). Steps of
one replica leave the others alone (`SameAt`), and tables are never lost.

### Traces

**State.** The batch of each replica, `known` (`serverSpanSources`), what it has
read (`loaded`), `bodies` and `bodiesWrittenAt`; in ClickHouse the status of each
span, `sources` (`trace_server_sources`), `bodyRow` (`trace_bodies`). A unit of time
is half an hour, the scale of `serverSpanMemory` and `bodyRewriteInterval`; what
takes seconds happens within one. **Actions.** `Add` and `SaveBatch` (the ticker
and `Close`), both with `save`'s hold and the whole of `write`; `ReadSources` and
`HoldExpires` of `keepReading`; `Forget`; the rest is the world. (`Close` has one
timer for its two waits, `collector/traces.go:339`: while neither read has ever
succeeded it waits at the second for longer than the `serverSpanSourcesMaxHold` of
its comment. The ticker, which it has not stopped yet, writes the batch; the
process ends when it is killed, a `TracesRestart`.) **Bounds.** One
request in each of three half hours, three spans each, two replicas, a limit of
two rows, held once, one mishap.

`CountedAtMostOnce` excuses a request only if a replica that wrote one of its
spans could not have read of the server's other span: no replica had stored one in
time, its hold was over, or its batch was full before it had read at all
(`maxHeldBatches`, `collector/traces.go:568`). `CountedAtLeastOnce` has one
excuse: within `serverSpanMemory` of a server's ceasing to record, its clients do
not count. `BodyKept` excuses bodies whose insert failed (the span is stored
without it) and the time after a move, which `bodiesWrittenAt` does not notice.

**Proofs** (`CollectorProofs`, for any replicas, requests, limits, intervals and
mishaps): the three properties. A span waits in one batch only (`Waits`). `BodyKept`
needs what a replica's memory is worth: what it remembers to have written is in the
table, or was before the move, and a batch goes without its body only if that was
lately (`BodyInv`). The counting needs both directions. A replica that has read knows
of every kind that all had time to read of (`Informed`), so of two rivals the later
one does not count (`Twice`, `CountedAtMostOnce` before all spans are stored); a span
that does not count yields to a span of the same request or to a server that ceased
to record (`Seconds`), which rests on what is recorded while a request is on its way
(`Recording`) and on nobody having seen a kind after it ceased (`Ceased`). That not all
of them yield to each other is the order of `Rivals`. The proof showed that the batch
that is full before the first read had been missing from the excuses; an instance
whose `MaxHeld` was two never got there, so the run now has one.

### WorldEvaluator

**State.** `points` (how often a series has a step), `labels`, `marker` in
ClickHouse; `seen` (`seriesCache`), `cycle` and `status` of each replica.
**Actions.** `Decide` is `Run`: the primary, and only it, goes through its projects
once in a period. A cycle is `Begin` (`lastPerQuery`, when the project's turn comes and
the replica may have lost the lock already), `Evaluate`, `WriteSeries`,
`WritePoints`, `ComputeRules`, `WriteRuleSeries`, `WriteRules`, and each has its
failure: before its end is known (`BeginFails`), after (`NamesFail`), with a part of
the rows stored (`WriteFails`, `WriteRulesFails`). `lastPerQuery` does not look further
back than the backfill and an hour (`Found`, `Margin`). `TimePasses` holds a running
cycle to the timeout of `runProject` (`Timeout`), and no other. **Bounds.** Two
replicas, two series of one query and one of the rules, a backfill, a lag, a lookahead
and a timeout of one, a margin of two, times 4 to 7, two troubles: a cycle, one that
is missed or fails in part, one that makes up for it, and an outage longer than the
backfill.

`EachStepOnce`: steps stored twice come from cycles that ran beside each other, and
steps missing from an insert of which a part was stored or from an `outage`: a cycle
that began when some series ended further back than it goes (by design, a hole);
nothing else produces either, however long the evaluator runs. `LabelsFirst` excepts the rules' labels, whose failed insert is counted as
written (`world/run.go:133` drops nothing). `RulesWhole` excepts the steps computed in
a cycle whose own query failed.

**Proofs** (`PipelineProofs`, for any replicas, queries, series and troubles, any
backfill, lag and lookahead, and runs of any length): `EachStepOnce`, `LabelsFirst` and
`RulesWhole`. They assume, as the module does, that `lastPerQuery` looks at least a lag
and a lookahead further back than the backfill (an hour, against some steps of 15
seconds) and that a cycle does not take longer than the backfill and one step (two
minutes, against a day). The invariant has three parts.

* Always: what has points has labels, and what a replica has in its `seen` has them
  or is about to (`HasLabels`).
* Unless two cycles overlapped (`Unshared`): one cycle runs, no step is stored twice,
  and the cycle knows the last stored step of all it is to write (`KnowsLast`), which
  is what keeps the next insert from repeating a step.
* Unless an insert was stored in part, or there was an `outage` (`Untorn`): series have no gap (`Gapless`), the
  series of a query are stored together (`Alike`), a cycle goes on where the series
  are and not after it (`GoesOn`), and comes to its rules with all of them stored or a
  query failed (`Complete`).

That `LastOf`, a maximum over stored steps, exists comes from well-founded order
of the numbers (`SmallestExists`, `LargestExists`). TLC checked the invariant before
it was proved, on times up to 8 with two troubles (1.9 M states) and on two queries.

### WatcherDispatch and Mailbox

**State.** The channel `updates`, the `hand` of the first goroutine, `pending`, the
`queue`, the `worker`; `stored` counts cycles, `noted` and `checked` what was told
and what was seen. **Actions** are the statements of the two goroutines of `Start`
and the end of `runProject`. **Bounds.** Two evaluated projects and a multi-cluster
one, a queue of one place (so that it is full), two cycles each. The queue has
1000 places in the code; nothing depends on how many.

`Mailbox` is what the rest of the program may rely on: a version told of is
delivered, itself or a later one. `IsMailbox` states that the dispatch implements
it with `told <- noted` and `settled <- checked`, liveness included. A full channel,
a full queue, a lost primary lock and a restart settle an update without a check;
the next cycle of the project tells of it again. `NoLostUpdate` is the safety side:
until a check reads the world, the project is in the channel, the hand, the queue,
or with the worker before its read. *Fairness:* weak for the goroutines, strong for
taking from the queue, as `select` chooses among ready cases at random.

**Proofs** (`WatcherDispatchProofs`, for any projects, any size of the queue and any
number of cycles). `NoLostUpdate` rests on what a mark means: updates are merged when
their project is marked, so `MarksAreWaiting` (the marked projects are those in the
queue, each once, and the one the worker has not unmarked) is part of the invariant;
that the worker may remove its mark rests on its project not being in the queue a
second time (`WorkerHas`). `DispatchIsMailbox` is the safety half of the refinement:
with `told <- noted` and `settled <- checked` the initial states are those of
`Mailbox`, and every step is a `Notify`, a `Deliver` or a stutter. The other half,
`Delivery`, is liveness, and `IsMailbox` checks both on the instance.

### Incidents

**State.** Tables `incident` and `incident_notification` (`ring`, with `sent` and
`tooOld`), the local variables of `Check` and `sendIncidents` of each replica, the
open `page`s at a pager. **Actions.** `GetLastOpenIncident`, `WriteIncident`,
`EnqueueIncident` and the pass are the code's statements; each may fail, before or
after its effect; `ResolveForMissingApps` ends a check. What users change meanwhile is
an input: `EnqueueDisabled` is `Enqueue` when the category, or a destination, does not
notify any more, `MarkUnsent` a row whose integration was removed or switched off,
which `sendIncidents` marks as sent without sending it. The burn rates are the
input `world`. **Bounds.** Two replicas, one application, one pager, two incidents,
two faults.

`PagesClose`: the page of an incident that is over is closed, or its closing is still
to be sent. Its comment lists the ways in which it may stay open for good: the closing
could not be recorded; the category or the destination did not notify any more; the
integration was removed or switched off; the closing was tried in vain for the retry
window; the application disappeared; an opening that was not recorded as sent was
repeated after the closing; two replicas worked side by side. That a project is
deleted with its incidents open is left out. The order
within a pass is what it is really about: without `failedDestinations` a closing
would overtake its opening.

**Proofs** (`PipelineProofs`, for any replicas, applications, destinations, incidents
and faults): `PagesClose`. The invariant: a page that is open was opened by a
delivered opening, and a closing is put only for what has one (`OpenedFirst`); a pass
comes to a closing only after its opening, or skips both (`InTurn`, the reason for
`failedDestinations`); closings that were given up, or count as sent without being
delivered, are `lapsed`. Unless replicas
worked `beside` each other: an incident that was opened at a pager is open, about to
be announced, answered by a closing, or `lapsed` (`Answered`), and a page open after
its closing was opened again by a repeated opening, which is `lapsed` too (`NotFirst`,
`OpenAgain`). TLC checked it with three faults (1.0 M states).

### Deployments

**State.** `alive` is the history of the replica sets, `saved` table
`application_deployment`, `look` the local variables of `Check`, `heard` what
messengers were told. **Actions.** `CheckDeployments` derives the rollouts of the
window (`CalcDeployments`, a fold over steps), `SaveNext` saves one,
`SnapshotMetrics`, `SendDeployment` follow. **Bounds.** All histories of two replica
sets over five steps, a window of three, one messenger, three faults.

`RowsAreRollouts` compares what is saved with a reference: the same derivation over
the whole history instead of the window. Rollouts that began before the first step
of the window with one replica set are excepted, as a window does not show what
they came from. `HeardInOrder`: no state twice and none after a later one, unless
it could not be saved what was told, or the send failed after it was heard (a timeout,
or Slack, where `SendDeployment` posts a message and then a reply, and the second may
fail). Then the next state it hears is the same, a later
one, or, if the snapshot could not be saved either, `Deployed` after the summary: three
faults in one check (the row of the next rollout, the snapshot, what was told). Two
replicas that check side by side, which may both tell a state, and life spans of
replica sets that arrive late are left out.

### Startup

**State.** `project` is the blob of settings of the default project's row, reduced
to its API keys and its ClickHouse; `builtin`, `admin` and `setting` are the other
rows a start writes; `start` has the place of each replica in `main` and what it has
read or made there; `memory` is `deploymentUuid` and `api.authSecret`. Random values
are numbers, each made once. **Actions.** One statement each, in the order of
`main.go`: `MigrateDatabase` (under the lock of migrations, hence one step),
`ReadDefault`, `InsertProject`, `SaveKeys`, `InitBuiltinAlertingRules`,
`SaveClickhouse`, `GetProjects`, `SaveProjects`, then `GetSetting`, `UpdateSetting`
and `InsertSetting` for each of the two settings, `SelectAdmin` and `AddAdmin`. A
conflict with the row of another replica makes the process exit; `Crash` ends it
anywhere, and `StartAgain` starts it. **Bounds.** Two replicas, an empty database,
two faults (one for liveness): a start that ends half way, and a second that ends
while it repairs the first. Projects of the configuration file and a user who
deletes the default project are left out. *Fairness:* a container that exits is
started again, and a statement ends. The one wait of a start for another's, of
`db.Migrate` in `WithLock`, is collapsed into the step `MigrateDatabase`, which is
always possible: that the lock of migrations becomes free is assumed here, and a
start that hangs there, because a session was left in a pool with the lock, is not
seen. (`SchemaMigration` has that case for the lock of the ClickHouse tables.)

`StartsWhole`: `SaveKeys` and `InitBuiltinAlertingRules` come after the row they
belong to, so a crash leaves a project without keys or rules, which the next
start finds and does not create. It is `SaveProjects` and `MigrateDatabase` that
finish it, whichever blob another start wrote in between. The one excuse is a failure
of `MigrateDatabase` to write the rules, which the code logs and ignores.
`EventuallyServing`: exits after conflicts come to an end, as what was in conflict
is found by the next start.

**Proofs** (`StartupProofs`, for any non-empty set of replicas and any number of
faults): `StartsWhole`. While something is missing in the database, some replica has
not passed the step that writes it: a project without a key has a replica before
the end of `SaveProjects` (`KeysToCome`), one without rules has a replica that is
creating it, or is down or before `MigrateDatabase` and will find it (`RulesToCome`).
Stale copies are the hard case: `SaveClickhouse` may write back a blob without keys
after another replica saved it with them. But whoever does so has `SaveProjects`
before it, and `SaveProjects` itself writes no blob without a key.

### Larger instances

Also checked, not as runs because of their size: the evaluator with a backfill of
two and times from 5 to 9 (1.8 M states); incidents with three faults, or with a
messenger beside the pager (1.0 M each); deployments of three replica sets over
five steps with a window of three and one fault (8.2 M); the dispatch with three projects
(124 k).

## 6. Findings

Each is a run that TLC must find violated.

* `alerts_spike`: a PromQL series that disappears leaves its entry in
  `pendingAlerts`, so that the next single spike opens an alert at once.
  A check rule can do the same: a condition that waits for `For` while a user
  suppresses its last alert, and that then clears, ends the suppression and leaves its
  entry (`watchers/alerts.go:154`). The configuration with `RuleSets <- OnlyCheck`,
  `MaxRequests <- OneRequest`, `MaxChanges = 7` and `Operations = {"suppress"}` shows
  that one.
* `alerts_events`: a failed query for Kubernetes events is taken for no events,
  and the alerts that fire are resolved.
* `alerts_orphan`: a rule is deleted while a check of it runs; an alert written
  after the resolution is active for ever.
* `notifier_page`: a user's Resolve closes the page `project:alert:severity` of the
  severity the alert has now. After an edit of the rule's severity this is not the
  page that was opened, which stays open. (The watcher looks the open key up.)
* `start_secret`: two replicas start on an empty database and both read no
  `auth_secret`. One inserts its own and serves; the `UPDATE` of the other
  (`db/settings.go:35`) then finds the row and replaces the secret. Both serve, and
  each refuses the session ids and cookies of the other until the first restarts.
  The plan of the repository expects a failing `INSERT` and one restart of this race.

Seen while modelling, without a run:

* A `For` above 30 minutes never fires: `cleanupPendingAlerts`
  (`watchers/alerts.go:990`) forgets the pending alert while its condition lasts.
* Suppress is not permanent: `evaluateCheckAlert` clears it with the condition
  (`watchers/alerts.go:154`), and `resolveNonMatchingAlerts` resolves suppressed
  rows (`docs/docs/alerting/alerts.md:183`).
* The first new log pattern of a project that never had an alert is recorded as
  resolved, however late it comes (`watchers/alerts.go:93`, `alerts.md:19`).
* Kubernetes events rules do not ask the selector (`watchers/alerts.go:697`,
  `alerts.md:40`): an alert outside it is opened and resolved by every check.
* A crash between `CreateAlert` and `Enqueue` leaves an alert unannounced
  (`watchers/alerts.go:205`, `alerts.md:28`); a user who ends the alert in this
  very window lets the end be sent before the opening.
* The deletion of a built-in rule resolves its alerts and then fails, and
  `ResolveAlertsByRule` reads and updates in two statements, so that an alert
  opened in between ends without an announcement.
* A check rule announces the end of an alert again that a user had resolved.
* A check that listed the rows before a user reopens an alert and ends it again may
  open a new one for the occurrence the user ended.
* A user's end in the second of the opening overwrites the external key of the
  opening (`db/alert_notification.go`, `UpdateAlertNotification`); see `OpeningApart`.
* A messenger may hear that a rollout is deployed after it heard its summary
  (`HeardInOrder`).
* `resolveIncidentsForMissingApps` (`watchers/incidents.go:133`) resolves incidents
  without any notification: a page stays open. So it does after a crash between
  `ResolveIncident` and `Enqueue`, and when an opening that was delivered and not
  recorded is sent again after the closing. And so it does when the category or the
  destination was switched off before the incident ended, or the integration before
  the closing was sent: that row is marked as sent (`notifications/incidents.go:104`).
  (`lapsed` of `Incidents`.)
* An alert whose `CreateAlert` took effect and was reported as failed is not counted by
  `firingCountByApp`: the next pattern of the same evaluation exceeds the cap of alerts
  per application (`watchers/alerts.go:389`). It is not announced either.
* Another check may tell a deployment's state again that Slack has shown already, when
  the reply to the message failed (`notifications/slack.go:121`).
* `UpdateIncidentNotification` (`db/incident.go:384`) records both rows that
  `IncidentNotifier.enqueue` may put for one destination and timestamp, and gives
  both the key of the last one.

Five promises of comments and documents are stated in the modules and do not
hold. To see a counterexample, put the name alone under `INVARIANTS` in
`Pipeline.cfg`.

* `NilMeansMigrated` (`SchemaMigration`): "a migration that fails half way runs
  again" and a database without `otel_traces` "is migrated from version 1 again"
  (`docs/schema-migrations.md`). A database at version 2 is wiped; the migration
  from the start fails after the statement that creates `otel_traces`. The next
  `Migrate` reads version 2, finds the sentinel and returns no error: the rest of
  version 1, and version 2, are missing for good.
* `ServedIsStored` (`WorldEvaluator`): "recentlyEvaluated is up to when this instance
  stored the results" (`world/client.go:101`), "a failed cycle does not take back what
  an earlier one stored" (`world/run.go:180`). `cycle` sets `res.To` before it reads or
  writes anything, so a failed write or a failed rule leaves a status that is ahead
  of what is stored, and `GetTo` serves it.
* `CancelledIsUnfinished` (`Deployments`): "cancelled" is told of a rollout that
  ended. `discoverAndSaveDeployments` saves the end of a known row and leaves the
  row in memory without it (`watchers/deployments.go:57`); if the next rollout has
  begun by the same check, the first one has no end and a successor.
* `BodyOutlivesSpan` (`Traces`, with `TTL = 3` and `MaxTime = 5`): "so it outlives its
  spans" (`ch/client.go:319`). A body is written again after `bodyRewriteInterval`
  only, and partitions go as a whole: the body written before midnight is dropped a
  day before the spans after midnight that refer to it.

* `ClickhouseKept` (`Startup`): "unique constraints keep them right"
  (`docs/superpowers/plans/2026-10-20-multi-replica-followups.md`, of the default
  project). A start that reads the projects before another adds ClickHouse saves them
  as they were. Both serve, and the default project has no ClickHouse until a
  replica starts again.

Also seen in these modules:

* Updates are dropped when the channel of one place is full (`world/run.go:186`), and
  sent for a cycle whose write failed; `Updates` says "after every cycle that stored
  points" (`world/run.go:52`).
* The clients of the evaluator are cached with the settings they were made with;
  only an error drops them (`world/run.go:65`), so a project that was moved goes on
  being evaluated into its old ClickHouse.
* An insert stored on some shards and reported as failed leaves holes for good:
  `lastPerQuery` asks for the last step of a query, whichever series it is of.
* A rollout longer than the hour of the window is never marked as finished.

## 7. What is proved, what is only checked

Proved for every value of the constants (the assumptions on these are the `ASSUME`s
of the modules, which TLC evaluates in the runs that extend them):

| module | theorems |
| --- | --- |
| `PrimaryLock` | `TypeOK`, `LockConnHoldsLock`, `OneLivePrimary`, `StartsOnlyWithLock`, `StablePrimary` |
| `Alerts` | `TypeOK`, `FiringAnnounced`, `EndAnnounced`, `CapRespected`, `ForRespected`, `QuietWhileItLasts`, `NotResolvedWhileFiring` |
| `AlertNotifier` | `TypeOK`, `PassesApart`, `SentOnce`, `NoneDropped`, `InOrder`, `Threaded`, `ResolveClosesPage` |
| `SchemaMigration` | its types, `TakeTurns`, `RecordedIsApplied` |
| `Collector` | its types, `Follows` |
| `Traces` | its types, `CountedAtMostOnce`, `CountedAtLeastOnce`, `BodyKept` |
| `WorldEvaluator` | `EachStepOnce`, `LabelsFirst`, `RulesWhole` |
| `WatcherDispatch` | its types, `NoLostUpdate`, `MarksAreWaiting`, the safety half of `Mailbox` |
| `Incidents` | `PagesClose` |
| `Startup` | its types, `StartsWhole` |

Every bound of a model (`MaxFaults`, `MaxTime`, `MaxIncidents` ...) is a constant in
these theorems: they hold whatever it is. Only model-checked, on the instances above:

* liveness (`JobsKeepRunning`, `ClearedIsResolved`, `LastingConditionFires`,
  `EventuallySent`, `EventuallyReady`, `EventuallyServing`, and the `Delivery` of
  `IsMailbox`): the prover has neither fairness nor `ENABLED`;
* `RowsAreRollouts` and `HeardInOrder` of `Deployments`: both compare what folds over
  two parts of a history compute (that a window finds the rollouts of the whole, under
  the same starts and names), which needs induction over data.

### Not modelled

By lines most of the repository is code without state of its own: the constructor,
the auditor and the views turn one large value into another; `model/` and
`timeseries/` are types and arithmetic; `clickhouse/` and `promql/` build queries and
scan answers; `api/` decodes and renders, apart from the requests modelled here; the
front end is a client. Almost none of it has an interleaving, a failure half way or
an order to get wrong, and at a size that means anything its inputs are out of reach
of enumeration. The exceptions left out are the requests of `api/` that save
settings and users, the project an MCP session has selected and the OAuth of MCP
(the signature of its session ids is in `Startup`), and the price cache of
`cloud-pricing/`. The space manager is stateless: one guard and one idempotent `DROP`
for each table. The batches of logs, metrics and profiles have the hold-free half of
the shape of `Traces`. See the components of `PROJECT.json`.

Texts, severities (but for the key of a page), the AI evaluators (nil in `main.go`),
the list and count queries and several projects at once are left out of the modules
above.

## 8. Running

In this directory: `tlc -config PrimaryLock.cfg PrimaryLock`,
`tlc -config Alerts_safety.cfg MCAlerts`, `tlc -config AlertNotifier_safety.cfg MCAlertNotifier`,
`tlc -config Pipeline.cfg MCPipeline` and so on (`PROJECT.json`, "runs"), and
`tlapm PrimaryLockProofs.tla`, likewise for each module whose name ends in `Proofs`
(the longest, `AlertsProofs`, `PipelineProofs` and `AlertNotifierProofs`, take a few
minutes each).
