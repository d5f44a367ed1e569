# A TLA+ model of Lazy Balancer v2

Lazy Balancer is a panel (Go, `internal/`, `cmd/server`) that keeps load-balancing
rules, certificates and WAF data in SQLite, renders them into a Caddy
configuration and, in a cluster, copies the master's data to slaves. This
directory holds a formal model of its concurrent core: TLA+ modules translated
from the source, TLC configurations that check small instances, and TLAPS proofs
that hold for all of them.

Everything that happens in the panel without a request happens through one
component, the **task engine** (`internal/taskengine/engine.go`): certificate
issuing, cluster synchronisation, rule-library updates, autoban, backups. It is
also where most of the concurrency is, so the model starts there. From the engine it
goes on to the three subsystems that the engine's tasks and the administrator fight
over: the certificate queue, the synchronisation of a cluster, and the import of a
configuration. The last part is the log that Caddy writes and the panel reads and
truncates, with no lock between the two processes.

## 1. Inventory

| Component | State | Operations | What is hard | What makes it correct |
|---|---|---|---|---|
| Task engine: daemons (`engine.go`) | per task `running`, `cancel`, `loopEnabled`, `pendingRestart`, `relaunchPending`, `abnormalRestarts`, `restartExhausted`; the role; `stopped` | `StartLoop`, `StopLoop`, `SetRole`, `Start`, `StopWithTimeout`, exit and relaunch | starts, stops, flips and timers interleave between unlocked reads | no daemon against its role, no stop lost, no daemon lost, stop is final |
| Task engine: runs (`engine.go`) | `running`, `runSeq`, `cancelHookRunning`, `lastCheck`, `inFlight`, `schedPaused` | `tick`, `RunAsyncResult`, `RunBootSyncTasks`, `Cancel`, `CancelInFlightRuns`, `WaitInFlightRuns`, `PauseScheduling` | admission in two critical sections, hooks outside locks, drain against admission | the import window is quiet, one run per task, the counter is exact, hooks hit their run |
| Scheduled slots (`engine.go`, `services/schedule.go`, `services/crsupdate.go`) | `nextScheduledTime`, `schedDoneSlot`, `schedFailStreak`, `schedRetryAfter`; the row `next_update`, `auto_update` | the Scheduled branch of `tick`, the tail of `executeRun`, `Cancel`, saves, `RearmSecurityLibrarySlots` | two owners of one schedule, unlocked reads, the clock | a slot runs once, never early, and the schedule never stalls |
| Engine wiring, business drivers (`services/taskengine_wire*.go`, `task_loop_prefs.go`, `task_trigger.go`) | loop preferences in the database | `reconcileTaskEngineRoleFor`, `SyncBusinessTaskDrivers`, `applyBusinessTaskLoop` | role read, then applied | engine role and loops follow the database |
| Configuration import (`handlers/config_import_coordinator.go`, `config_backup.go`) | the session: locks, transaction, file snapshots | begin, commit, abort, clean-up | every step may fail, the commit may be uncertain | all or nothing over rows, files and the running Caddy |
| Import hold and CA queue (`services/caqueue.go`, `cmd/server/runtime_lifecycle.go`) | hold depth and deferred starts; queues, reservations, blocks, retired queues | `Begin/EndConfigImportHold`, `PauseAndDrain`, `Resume`, `EnqueueIfActive`, `DispatchOnce`, `CancelJob` | deferred intents, three-section enqueue, executions that outlive their queue | no start inside an import, none lost after it; a job executes once |
| Certificate jobs (`services/certissuer.go`, `jobstate.go`, `certjob_retry.go`, `internal/acme`) | `cert_jobs.status` | guarded transitions | issuer, retry, delete and restart on one row | no stranded job, no transition backwards |
| DNS challenge claims (`internal/dnsprovider/challenge_claims.go`) | owned TXT records | claim, release, restart | crash between provider call and row | every record is cleaned up once |
| Cluster (`services/cluster*.go`) | role, master URL, token, applied version, section hashes | `Promote`, `BecomeSlave`, `Pull`, `DrainPulls`, `applySnapshot`, tickets | promotion against a pull in flight, markers for failed side effects | an old master's data never overwrites a new master |
| Caddy apply (`services/caddy.go`, `handlers/caddy.go`) | rendered, running and last known good configuration | apply, load, roll back | database and Caddy are not one transaction | the running configuration is the saved one, or the failure is visible |
| Security events (`services/securityevents.go`, `auditlog_rotation.go`; `caddygeoip/auditwriter.go`) | `audit.log` and its archive, the offset file, the delta marker, the rows; what the tailer remembers | tick, pass, rotation with gate, copy, tail rounds, truncation, retry | the writer is another process, lines are half written, every write may fail, the panel may die anywhere | no event is lost, every event arrives, the log shrinks |
| Watchdog, autoban, WAF files, backups | own files and rows | periodic tasks of the engine | files before rows; debounced reloads | see section 2 |
| HTTP API, authentication, MCP server, Caddy plugins, schema, web UI | – | – | – | not modelled, section 8 |

Components meet in four places: services call the engine (`StartLoop`, `RunSync`,
`Cancel`); the engine calls back into services (`Run` bodies, `CancelHook`,
`NextSlotFn`, `EnabledFn`); the cluster service tells the engine the role
(`SetRole`, under `ClusterService.roleMu`); and the import brings everything to a
halt (`PauseScheduling`, `CancelInFlightRuns`, `WaitInFlightRuns`, the import hold)
before it replaces the database.

The hazards found on the way, with their lines and the properties that would
notice them, are listed in `PROJECT.json` under `hazards`.

## 2. Plan

Written, in this order: `TaskDaemon`, `TaskRuns`, `TaskSlots` (the engine), `CAQueue` with
its abstract specification `IssueGate`, `ClusterSync`, `ConfigImport`, `AuditRotation`; each with an MC
module and a proof module. The first plan had the import hold, the certificate rows,
the application of a configuration to Caddy and the rule files as modules of their
own; they turned out to be meaningful only together with those who fight over them, so
the hold and the status of a row are part of `CAQueue`, and Caddy, the last known good
and the rule files are part of `ConfigImport`.

How they fit together: an import quiesces the engine (`TaskRuns`), holds and drains the
certificate queue (`CAQueue`), and only then opens the session of `ConfigImport`, which
therefore assumes to be alone. `TaskDaemon` justifies how `CAQueue` and `ClusterSync` use
their resident tasks: started again after an exit, cancelled at a stop. It does the same for
the polling loop of `AuditRotation`.

Still open, most useful first: the socket and spool by which Caddy ships events past the log,
autoban with its debounced reload, the claims on DNS records.

## 3. The modules and the code

In every module a step is one critical section (`e.mu`, `e.roleMu`, `r.mu`), one
unlocked read whose value is used later, or one call that happens outside of
locks. That is the granularity at which the goroutines of the program really
interleave. Names with an underscore (`MayStart_RoleNotRechecked`) are defective
variants of a definition, used to make sure that each property can fail.

Operations overlap in the models wherever the code lets them; no guard keeps them apart
that the code does not have. Where an overlap really breaks a promise, a history
variable records the step at which it does, nothing reads it but the properties, and a property
names it as its exception: `past`, `imp.late` and `rule.passed` in `CAQueue`, `past` and
`pull.behind` in `ClusterSync`, `told`, `logged` and `lost` in `ConfigImport`, `late`, `cut` and
`passed` in `AuditRotation`. The properties then say that there is no other way. Section 4 lists the
exceptions under observations.

### TaskDaemon (`MCTaskDaemon`, `TaskDaemonProofs`)

Daemons (`KindDaemon`): `cert-issuance` (master only), `cluster-sync` (either role,
restarted at each flip), `security-events-ingestion`. `pc[d]` is where the current
generation of a daemon is: claimed by `tryStartDaemon`, spawned, running, returned,
past the snapshot of its exit path. `tail[d]` counts what an exit leaves behind:
goroutines on the way to `scheduleDaemonRelaunch`, timers, relaunch attempts.
Callers are the threads inside `StartLoop` and `StopLoop`; `SetRole` and
`StopWithTimeout` are walks over the registrations, one step per registration.
A cancel function is a pair (task, generation): calling an old one does nothing,
as in the code.

### TaskRuns (`MCTaskRuns`, `TaskRunsProofs`)

Runs of Scheduled, Periodic and Oneshot tasks. The two sections of
`reserveRunInternal` are `Count` (flags and counter under `e.mu`) and `Reserve` (role,
single flight, hook, loop under `roleMu` and `r.mu`); `release` frees the slot and
only then drops the count (`Release`, `ReleaseCount`). The threads are the boot
thread, the scheduling goroutine, the clients (trigger, cancel, loop switches), the
reconciler in `SetRole`, an import and a stop. Whether a task is due is chosen at
random here; when it is due is the subject of the next module.

### TaskSlots (`MCTaskSlots`, `TaskSlotsProofs`)

One Scheduled task and its row. The tick is split where the code unlocks: it reads
the clock (`TickStart`), takes its snapshot, evaluates `NextSlotFn` and `EnabledFn`
without a lock, stores the slot if the cache still is the one it started from, and
reserves under the repeated checks. The run is split into reservation, baseline,
settlement in the database (`Settle`: success, failure, user and system
cancellation, lost role, and the database faults each of them has), return, record
and finish. `Cancel` is claim, hook, application. Saving the switch, and re-arming
after an import, are two steps each: the row, then the engine. The clock is a
counter; slots are the multiples of `Period`, and time 0 is Go's zero time.
`spent` is a history variable: the slots a run succeeded on, or a user gave up.

### CAQueue (`MCCAQueue`, `IssueGate`, `CAQueueProofs`)

The queue manager and everybody around it. `stage[q][j]` says what queue object `q` has
of job `j`: an item (`pending`), an execution that may still write (`running`), or one
that is about to leave the maps (`leaving`). Queue objects are looked up by provider
(`queueOf`), remembered after a drain that timed out (`retired`), and forgotten when they
are too old, at which moment their executions become `zombies`. The processes are

- callers of `EnqueueIfActive` (`Reserve`, `Transition`, `EnqueueAdmitted`, `Release`: its
  two critical sections, the row update between them, and the release);
- the Run of cert-issuance, which starts the lifecycle, dispatches, and stops it
  (`Launch` ... `StopWaited`), with `StartACME` (`Start...`) and the goroutine of
  `CAQueueManager.Stop` (`StopCompensation` ... `StopClear`);
- an import (`ImportSample` ... `ImportRequeue`) with the hold and the two deferred
  starts;
- requests that disable or delete a rule, any number at a time, and the compensation of a
  deletion that could not be carried out (`DisableRule` ... `CompensationRelease`): it drains,
  puts the row back to the status of the snapshot the request took (`Restored`), requeues what was
  not settled then and is not now, and repeats after a failure until a stop cancels it.

`row` is `cert_jobs.status` with the statuses between `queued` and `downloaded` merged
into `creating`. Executions may ignore their cancelled context for as long as they like.

The drain of `PauseAndDrain` takes the queues out of the map in one section and registers
those that still execute as retired in another. `Unseen` is what nobody can find in between.
`past.missed` collects the jobs for which a check was really answered wrongly because of it: a
reservation was granted, a compensation enqueued, or another drain passed while an execution
of the job was unseen. `imp.late` says that a start opened the queue behind an import's drain,
until the hold ends; `past.closed` that an import closed a queue it had seen closed, until
somebody opens it; `rule.passed` that a request's barrier was lifted by a stop, that the compensation
of another request enqueued behind its cancellation, or that its cancellation fell into a
drain.

`IssueGate` is what the rest of the program relies on: a job has at most one issuer, and
none while an import replaces the rows. The gate may lose a job (`Overlook`) or an import
(`Breach`, until `Mend`), by a step of its own before anything is issued that should not be.
`GateKept` says that `CAQueue` implements it, with "queue `q` executes `j`" as the issuer, the
import's window as the window, `past.missed` as what is lost and `imp.late` as the breach.

### ClusterSync (`MCClusterSync`, `ClusterSyncProofs`)

One slave and the version number its master publishes. `Pull` is split at its request, at
the check of the role, at the transaction and its commit, and at each of the effects that
follow the commit: branding file, bookkeeping (`book`), rule files, reload of Caddy. Two
callers pull, the loop and the administrator; `pullMu` is `Holding`, `pullWG` is `InFlight`.
A registration is a number that grows with every demotion (`row.reg`); rows remember the
registration they came from, which the code does not, so that a property can ask for it.
`last_sync_error` is both a message and the memory of what has to be repeated
(`Markers`); `Message` and `Record` are the read and the write of `recordSyncError`.
`Promote` and `BecomeSlave` close the admission, drain, commit, and open it again.
`RowsOf` says which rows a version has: two versions may differ in their rule files only, so
that rows and files are told apart. `Faults` chooses the failures a run may contain, `ref`
among them, the failure of the last write of the bookkeeping (`cluster_sections.go:545`) after
the sections were booked; the runs have all of them.

`past.erased` says that a marker was replaced, by an error that needs the administrator or by
a record of the loop that was decided before the marker was set, until the next reload;
`past.unbooked` that the bookkeeping of the last snapshot is missing; `past.unseen` that rows
were damaged while nothing was booked to compare them with; `pull.behind` that a pull was
admitted after the drain of a flip and before its commit.

### ConfigImport (`MCConfigImport`, `ConfigImportProofs`)

One import session at a time, against failing steps and the death of the process. The
four things that change are `rows` (with `tx`, the view of the open transaction), `disk`
(certificate, CRS tree with its `.sync-bak`, `ip2region.xdb` with its `.version`, threat
list), `caddy`, which is what Caddy has read of both, and `lkg`. Contents are numbers:
an import brings a new one. `Render` is the point of the model: a configuration names
files by path, so Caddy holds the *content of the files at the time of the load*, which is
why a load that is skipped because the JSON is the same (`SameConfig`) matters. `told`
collects what a banner, an audit entry, a warning or the answer admits, `logged` the parts of
which only a line in the log says that their repair failed, and `lost` that a session died with the
process; properties are excused for exactly those parts. What is told of a part stays told
(only the banner is taken down), so a property says nothing about that part any more;
`logged` ends with the next repair that works. `Crash` may happen before any step, and is
followed by the startup sequence (`SeedCRSRules`, `Leftovers`, `ReconcileCRSState`, `Boot`), whose
steps may fail and are then only logged. The constant `SameJson` admits imports that
render to the committed JSON: `import_same` shows what they break.

### AuditRotation (`MCAuditRotation`, `AuditRotationProofs`)

`auditlog_rotation.go` and the tailer of `securityevents.go`, against the writer in
`caddygeoip/auditwriter.go`. A line is two tokens, its head and its rest, because all that
matters of its bytes is whether it is whole: the code decodes, scans for a line start
forwards (`FindNextDocument`) or backwards (`Backscan`), and compares sizes. `stream` is
everything ever written; `base` is where the live file begins, `arch` which part `.1`
holds. So an event has one name, the position of its head, wherever its bytes are.

One poll is a chain of steps (`pc`): the tick (`TickStat` to `TickReturn`), then the rotation
(`RotateEntry` to `RotatedReturn`). Both read through the same pass (`PassDoc`, `PassBatch`,
`PassEnd`, `PassStall`, `PassSkip`, `PassFail`, `PassCancel`), which knows by its `kind` what it
reads and where it returns to. Every file operation is a step of its own, so that the
writer comes in between, the panel may die in between (`Crash`), and each may fail
(`Fault`). `late`, `cut` and `passed` record the three windows in which the code accepts a loss
or, as the observations say, suffers one. Assumed: one generation of the metrics library, a log
that is truncated but not replaced, a marker that can be parsed, and no stretch of 4 MB
without a line start.

## 4. What the runs check

| Run | Instance | Shows |
|---|---|---|
| `daemon_safety` | 2 daemons, 1 caller, 3 calls, 2 faults, budget 1, fairness | `NoForbiddenDaemon`, `StopLoopNotLost`, `BranchFollowsRole`, `NoLostDaemon`, `ExhaustedIsFinal`, `StopSpawnsNothing`, `EnabledDaemonRuns`, `StopSettles` |
| `runs_safety` | 1 scheduled task with a hook, 2 clients, 5 calls, 1 tick | `ImportWindowQuiet`, `InFlightExact`, `NoForbiddenRun`, `StopReachesRun`, `HookHitsItsRun` |
| `runs_beat` | a periodic and a boot task, 1 client, 2 ticks, fairness | `BootRunsAlone`, `BeatForgotten`, `StopDrains` |
| `slots_safety` | period 3, clock to 7, 2 calls, 1 flip, 1 fault | `SlotRunsOnce`, `NoSilentStall`, `CancelConsumesItsOwn` |
| `slots_boundary` | 2 calls, clock not waiting for the record of a run | `NoSilentStall` **fails** (finding 1) |
| `queue_safety` | 1 job, 1 provider, 2 queue objects, 1 caller, 2 starts, 1 import, 2 rule requests, any 2 of these calls, imports and requests beside the starts | `TypeOK`, `SingleExecution`, `ImportIsolated`, `IntentKept`, `StartedIsOpen`, `RuleDrained`, `GateKept` |
| `queue_create` | 2 providers, 3 queue objects, 2 calls, 1 start, creations, no import and no rule request | `SingleExecution` **fails** (finding 2) |
| `sync_safety` | 2 versions with the same rows and other files, 3 faults or events of every kind, fairness | `TypeOK`, `DivergenceMarked`, `AppliedFromCurrent`, `EffectsCurrent`, `AdmissionOpen`, `FilesAccounted`, `Converges` |
| `sync_unbooked` | the same | `FilesCompared`, which is `FilesAccounted` without its exception, **fails** (finding 3) |
| `import_safety` | 2 imports, 2 faults, 1 crash | `LkgCommitted`, `RecordsMatchFiles`, `ServesCommitted`, `CertsMatch` |
| `import_same` | an import that renders to the committed JSON | `ServesCommitted` **fails** (finding 4) |
| `audit_safety` | 4 lines, 1 fault, threshold 3 tokens, backlog 4, 1 stall, fairness | `NothingLost`, `DrainedUnlessSame`, `Shrinks` |

The type invariants are proved for every instance (section 5); a run repeats one only where
it carries a bound of the code (`CAQueue`, `ClusterSync`).

Why the bounds are enough: each property relates two or three actors, and each
instance has the budget for the longest of the scenarios the hazards describe (flip,
start and exit; trigger, cancel and trigger again; pause, count, walk and register).
Most of the invariants are also proved without any bound. One job is enough for the queue,
because jobs meet only in the limit of concurrent executions; two queue objects are a current
and a retired one of a provider, the third of `queue_create` belongs to another provider, which a
creation needs; two starts and two other operations are enough for every exception of the queue to be
recorded, and for every property to fail there without its exceptions (TLC finds traces of 12 to 37
steps; that an execution which was overlooked earlier also escapes the drain of a deletion,
the part `past.missed` of `RuleDrained`, needs more of them and is covered by the proof only). The
same properties were checked with four operations of which up to two are starts, with two calls, with
retries, and with one rule request and no joint bound (up to 13 million states). Three faults or events let a marker survive a second failure, a flip fall into a pull, and
a start into the flip; the safety half was also checked with four, with three versions, and with
versions that differ in their rows. Two imports with one crash let a second import find what the
first left behind. The retry limits of `ClusterSync` are 1 and 2 instead of 5 and 10, and
the restart budget of a daemon is 1 instead of the three delays of `engine.go:278`, so that they
are used up within the bound. Four lines are enough for a rotation, a second file that reaches the
old offset, and a line cut by either; one fault is a torn line, a failed write or a death (with seven
tokens and two faults the same properties hold). The threshold, the backlog and the stall limit
are smaller than the log of a run, so that each is passed. The clock passes two slots, so that a consumed slot meets its successor.
Clients, queue objects and providers are interchangeable, hence the symmetry in the runs
without liveness. `CHECK_DEADLOCK FALSE` is set where a stopped engine or used-up bounds
are legal ends; `ConfigImport` and `AuditRotation` are checked for deadlock, because the
administrator can always reload and the daemon always polls.

### Fairness

`FairSpec` of `TaskDaemon` and `TaskRuns` asks for weak fairness of the engine's own
goroutines only: a started goroutine continues, a timer fires, a walk over the
registrations continues. Bodies are fair only in returning once their context is
cancelled, which `docs/task-engine-standard.md` demands of every task. `FairSpec` of
`ClusterSync` asks it of pulls in flight (every request has a time-out), of the loop,
which wakes up by a timer, of the task's start and stop and of a flip in progress. `Spec` of
`AuditRotation` asks it of the poll as a whole: the daemon loop runs it every two seconds and
the engine restarts a loop that ends (`TaskDaemon`). The writer owes nothing, not even the
rest of a line it began. Calls,
role flips, faults, publications and bodies that were not cancelled are never forced.

### Findings

1. `slots_boundary`: a manual success settles just before the slot, so the row is
   not moved; it is recorded just after the slot, so the engine consumes it. The
   watermark then hides the row's slot for good. The same stall is reached by a failed
   update whose slot write failed as well, and which the user cancels before
   `runTerminalStatus` is set (`engine.go:856`, `crsupdate.go:513`); no property covers that
   one. `NoSilentStall` is stated for behaviours without faults and flips, and for these
   `slots_safety` shows that a clock moving on before the record is the only way.
2. `queue_create`: `CreateOrRequeueCertJobWithChange` passes job id 0 to
   `EnqueueIfActive` (`certificates.go:2171`), so the in-flight check, on which
   `caqueue.go:929-933` says it relies, asks about job 0. Updating or enabling a rule
   while its job is deploying puts the same row into another provider's queue, and two
   queues execute it.
3. `sync_unbooked`: `applied_waf_ref_hash` is written after the commit of a snapshot
   (`cluster_apply.go:303`, `375`). A stop, a crash or a closed manual request in between
   leaves the comparison of the rule files without the reference of the new snapshot;
   it answers "no difference", the next rounds are clean 304 answers, and the files stay
   old until the master publishes again. A write of the bookkeeping that fails has the same
   effect if the files fail too. The comment at `cluster_sync.go:1072` gives
   preventing just this as its reason.
4. `import_same`: an import that changes only files (rule set, renewed certificate)
   renders to the JSON that is committed already. If it fails after Caddy took it, the
   files come back, but `RestoreRuntimeToCommittedInLock` (`caddy.go:5149`) applies without
   force, finds the same JSON, and loads nothing: Caddy goes on with the files of the
   import that failed. `config_import_coordinator.go:656` calls this step a forced apply.

### Observations

Seen while modelling. The exceptions of the properties come first: each is something the code
does, and TLC finds a trace for it when it is taken out of its property. Where a comment of
the code says otherwise it is quoted.

- Queue, `past.missed`: between its two sections `PauseAndDrain` (`caqueue.go:439-504`) leaves
  executions that are known neither as current nor as retired. A queue that is opened
  meanwhile, by the end of an import or by a start, takes the same job again; an import that
  drains meanwhile finds nothing to wait for; the compensation of a deletion, which checks and
  reserves in two sections (`caqueue.go:1200`), does not see who took the job in between.
- Queue, `imp.late`: a start that saw no hold (`caqueue.go:596`, `taskengine_wire.go:83`) opens
  the queue after the import has drained it, and jobs execute while rows are replaced.
- Queue, `past.closed`: an import looks whether the queue is open, then raises the hold, then
  closes the queue. One that is opened in between is closed and not opened again.
- Queue, `rule.passed`: a stop lifts the barriers of all rule requests
  (`releaseAllRuleBlocks`, `caqueue.go:1290`), those of a deletion that still waits among them. A
  deletion that is tried again while the compensation of the first runs is not protected from
  it: `compensationAdmissionLocked` (`caqueue.go:1235`) is content with any barrier of the rule,
  and enqueues after the second deletion has drained. And a cancellation misses what a drain
  waits for.
- Queue: a stop of the lifecycle during an import is forgotten at its end; the
  import opens the queue again (`config_backup.go:902`) and no Run dispatches from it.
- Sync, `past.erased`: `recordSyncError` reads and writes in two statements. The loop's record
  of a state it could not load, which holds no lock of the pulls, can overwrite a marker that a
  manual pull sets in between. The comment at `cluster_sync.go:1752-1753` says of the rule that
  is bypassed here "标记是全量重拉补偿的唯一触发器，覆盖后下一周期 304 将跳过补偿". Errors that need the
  administrator replace a marker on purpose.
- Sync, `pull.behind`: a start of the service sets `pullsStopped` to false while a flip drains
  (`cluster_sync.go:621-624`), and a pull let in between drain and commit carries out its
  effects after the flip. The comment at `cluster.go:803-806` gives "可能在升主提交后继续把从节点数据写回库"
  as what the drain prevents; for the rows the second look at the role inside the transaction
  does (`cluster_apply.go:219`, `AppliedFromCurrent`), for files and reload nothing does.
- Sync, `past.unbooked`: finding 3.
- Sync: the handler of a demotion resumes a halted loop even when the task is switched
  off (`handlers/cluster_mode.go:116`), against the condition in `cluster.go:743`.
- Import, `logged`: a `.sync-bak` left by an earlier failure is put back at the entry of the
  next installation (`waffiles_sync.go:1270-1299`); if that one
  then fails, the rows keep the version of the tree before, although the warning of `config_backup_lbbak.go:512` says "记录与文件须同批". The
  repairs at startup (`crsseed.go:423-445`, `waf_file_crash_reconcile.go:155-165`) only log their
  failures and leave rows and files apart until the next start.
- Import: a commit whose error hides that it landed leaves the last known good at the
  configuration before it.
- Engine: the exit path of a demoted daemon reads the role before it takes `r.mu`
  (`engine.go:1179`); a promotion in between plants an intent that the clean-up clears.
  `CancelInFlightRuns` (`engine.go:873`) does not cancel a run that was counted before the
  pause and registers behind the walk; the import then waits and gives up. A user's
  cancel that passed its role check before a demotion consumes the slot of the run the
  demotion aborted (`engine.go:822`).
- Audit log, the three sets `NothingLost` excepts. `late`: lines appended between the last stat and
  the truncation (`auditlog_rotation.go:434`, `461`), which the code accepts. `cut`: the tail
  rounds of a rotation start from the size of the copy (`auditlog_rotation.go:386`), not from what
  was ingested, so that a line half written at the copy that does not grow before the last
  stat counts as reached and is cut in two. The comment at `auditlog_rotation.go:426-429` says
  the opposite, "尾部已无未摄取内容 ... 才截断", and gives the loss of half a transaction ("半条在途事务被截断抹除
  ... 事件永久丢失") as the reason for the criterion. `passed`: if the offset is not reset after
  a truncation, the comment at `auditlog_rotation.go:467` relies on the comparison of sizes
  ("size 比对仍兜底"); a log that has regrown to the old offset by the next poll passes it, and
  the events below the offset are skipped. In both the code contradicts its comment.
- Audit log: an offset that was not reset may point into a line. The rest of that line ends no
  document, the gate of the next rotation never catches up, and the log is not truncated
  until more is written; hence the exception in `Shrinks`.
- Audit log: the tick compares the size with that of the tick before (`securityevents.go:2331`) and
  takes an equal one for "no new bytes". After a rotation in between it may be another
  file of the same size; its events wait until one more byte is written. `audit_safety` shows
  that this is the only way to wait for ever.

## 5. What is proved

The proof modules hold for every set of tasks, callers, jobs, providers and queues and
every value of the bounds. The assumptions are the ASSUMEs of the modules: the constants
have their types, `Tasks` and `Clients` are finite (the counter adds up cardinalities), boot
tasks are Oneshot tasks of either role, `Period` and `StopLimit` are positive, a log is not
rotated for less than one line. Where a
theorem needs more, it says so in its own ASSUME, and it is always a switch of the
module whose other position a violating run reports: `ByName` for the queue (nobody passes job id
0 to the in-flight check, `queue_create`), `~SlowTail` for the slots (the clock does not move while a
finished run is recorded, `slots_boundary`), `~SameJson` for one theorem of the import
(`import_same`). The synchronisation needs none. Each theorem is
`Spec => []Inv` (or an action property, or a refinement) from three facts: the initial
states satisfy an inductive invariant, every action keeps it, and it implies the
property.

| Theorem | States | Inductive invariant |
|---|---|---|
| `TaskDaemonProofs!TypeCorrect` | `TypeOK`: types, restart counter within its budget | itself |
| `RoleGate` | `NoForbiddenDaemon` | itself, with `TypeOK`: the part about the walk of `SetRole` (a daemon is still to be visited, or its cancel is in hand) is in the property |
| `StopLoopReaches` | `StopLoopNotLost` | itself, with `TypeOK` |
| `StopIsFinal` | `StopSpawnsNothing` (action property) | `TypeOK` |
| `BranchCurrent` | `BranchFollowsRole` | `BranchInv`: a generation on the old role's branch is cancelled, or the walk that renews it has not passed, and an idle `SetRole` has nothing left to do |
| `ExhaustedStaysOff` | `ExhaustedIsFinal` | itself, with `TypeOK` |
| `DaemonNeverLost` | `NoLostDaemon` | `LostInv` and `Attended`, with `ExhaustedIsFinal`: whoever cancels an enabled daemon has left an intent or is about to, and one that is not up has a tail or a StartLoop |
| `TaskRunsProofs!RunTypes` | `TypeOK`, hence `inFlight >= 0` | `StateOK`, `ExactInv` |
| `CounterExact` | `InFlightExact` | `ExactInv`: exactness with the finiteness of `Leaving` |
| `WindowQuiet` | `ImportWindowQuiet` | `StateOK`, `BootInv`, `ExactInv`, `WindowEmpty` |
| `BootAlone` | `BootRunsAlone` | `BootInv`: the property and `PauseHeld` |
| `DemotionReaches`, `StopReaches`, `HookOwnsItsRun`, `BeatsForgotten` | `NoForbiddenRun`, `StopReachesRun`, `HookHitsItsRun`, `BeatForgotten` | themselves, with `StateOK` |
| `TaskSlotsProofs!SlotTypes` | `TypeOK`: types, fail streak below its limit | itself |
| `WatermarkIsPast` | `FutureNeverConsumed` | itself, with `TypeOK` |
| `CancelIsOwn` | `CancelConsumesItsOwn` (action property) | `TypeOK` |
| `SlotOnce` | `SlotRunsOnce` | `OnceInv` |
| `NeverSilentlyStalled` | `NoSilentStall`, `~SlowTail` | `StallInv`, with `OnceInv` and `FutureNeverConsumed` |
| `CAQueueProofs!QueueTypeCorrect` | `TypeOK`, hence a hold of depth at most one | `LifeInv` |
| `IntentsAreKept` | `IntentKept` | `LifeInv`: `HoldInv`, `OpsInv`, `IntentInv`, `TakenInv`, `RunInv` |
| `StartedRunsAreOpen` | `StartedIsOpen` | `LifeInv`: the same with `WorkerInv`, `OwedInv` |
| `JobsExecuteOnce` | `SingleExecution`, `ByName` | `JobsInv`: `CallInv`, `PlaceInv`, `UniqueInv`, `ReserveInv`, `FreeInv` |
| `ImportsAreIsolated` | `ImportIsolated`, `ByName` | `JobsInv`: `DrainInv`, `CloseInv`, `WindowInv` |
| `RulesAreDrained` | `RuleDrained`, `ByName` | `JobsInv`: `BarrierInv`, `RuleDrainInv` |
| `QueueImplementsGate` | `GateKept`: refinement of `IssueGate`, `ByName` | `LifeInv`, `JobsInv` |
| `ClusterSyncProofs!SyncTypeCorrect` | `TypeOK` | `RegInv`: registrations are bounded by the flips so far |
| `LoopsAreAdmitted` | `AdmissionOpen` | `AdmissionInv` |
| `AppliedIsCurrent` | `AppliedFromCurrent` | `OriginInv` |
| `EffectsStayCurrent` | `EffectsCurrent` | `MutexInv`, `TopologyInv` |
| `DivergenceIsMarked` | `DivergenceMarked` | the same with `BookInv` and `MarkInv`: `RecordsInv`, `LoadsInv`, `FilesInv` |
| `FilesAreAccounted` | `FilesAccounted` | the same |
| `ConfigImportProofs!ImportTypeCorrect` | `TypeOK` | with `Snapped`: a snapshot is whole or not taken |
| `LastKnownGoodCommitted` | `LkgCommitted` | `LkgInv` |
| `RecordsAreOfFiles` | `RecordsMatchFiles` | `CrsInv`, `XdbInv`, `ThreatInv` |
| `CertificatesMatch` | `CertsMatch` | `CertInv` |
| `CommittedIsServed` | `ServesCommitted`, `~SameJson` | `CertInv`, `ServesInv` |
| `AuditRotationProofs!AuditTypeCorrect` | `TypeOK` | `IInv` |
| `EventsAreKept` | `NothingLost` | `IInv`: `FileInv`, `RotInv`, `InfoInv`, `ReadInv` |

Some of the arguments are worth following.

**The counter and the import window.** `inFlight` is the sum of five numbers: clients
between the two sections of a reservation, the tick and the boot thread when they are
there, the runs that hold their slot, and the runs in `Leaving`, which freed their
slot and have not dropped the count. Each action moves one unit from one summand to
the next, or in or out together with the counter. From exactness the window follows
in two steps. When the drain sees zero, all five summands are empty, so there is no
run and nobody about to admit one. It stays zero because the first section of
`reserveRunInternal` refuses everything while `schedPaused` is set, except startup
runs, and `PauseHeld` says that an import begins after the boot and holds the pause
as long as it lasts. `RunTypes` needs exactness too: that the counter never becomes
negative is not visible from the types alone.

**A slot runs once.** The engine decides on a cached slot, outside of locks, while
another run may consume it. `OnceInv` follows what each copy of the slot can be:
`SpentCovered` says that a slot of the history `spent` lies in the past and, wherever
a copy of it is left (row, cache, tick, finishing run), is covered by the watermark;
`CacheOfRun` ties the
cached slot to the run in flight; `TickApart` says that a tick past its snapshot and
an automatic run exclude each other; `MovedOn` that a run that settled has moved
the row; `SwitchOff` that a row without automatic updates has no slot. The
strengthening was model-checked with two faults before it was proved.

**A task does not stall silently.** The watermark suppresses a slot for ever unless the row
moves past it. Two parties consume: the end of a run and a cancellation. `StallInv` says
that, without faults and flips, an automatic or successful run that has settled left its
slot ahead of the clock (`SettledAhead`), so its end consumes nothing; and that where the
watermark has reached the slot of the row, an automatic run is still to settle and will
move it (`Movable`), so a cancellation consumes only what is about to be moved. The first
half is where `~SlowTail` enters: between settlement and record the clock could otherwise
reach the slot just computed, and the record would consume it.

**A hook and its flag.** `HookHitsItsRun` is inductive because it names the holder of
`cancelHookRunning`: a set flag belongs to a client inside the hook. Without that
part, a flag nobody holds could not be excluded, and neither could two hooks at once.

**A job executes once.** A queue that times out in a drain keeps its executions while a
new queue for the same provider starts. `PlaceInv` says that somebody always knows a
queue that still has a job: the map of queues, the list of retired ones, a drain in
progress, or the zombies. The check in the first section of `EnqueueIfActive` looks everywhere
but in a drain in progress; if it is there that the job is, the step enters it into
`past.missed`, and the invariant has nothing more to say about it. For all others `UniqueInv`
says that a job is in one queue only, and `FreeInv` carries the answer of the check over the
row update to the second section: a reserved job is in no queue until its holder has put it
there. For this `ReserveInv` must know that a reservation has one holder, a call or a
compensation; it is the part that fails for a creation, whose reservation is for job 0, hence
`ByName`. The same two invariants carry the imports (`CloseInv`, `WindowInv`: what the drain waited
for is all there was, and nobody has opened the queue since) and the deletions (`BarrierInv`,
`RuleDrainInv`: the barrier stands from the cancellation to the deletion, so that what the
cancellation waited for is all there is). The refinement follows: a dispatch finds the job
free by `UniqueInv`, and outside of a window because `CloseInv` leaves nothing to dispatch
inside one.

**No start is lost.** A start that meets an import leaves an intent and looks again; the end
of the import takes the intents and carries them out; a stop voids them. `IntentInv` says
that an intent always has a holder: an import that has not ended, or the starter who is
about to look again. `TakenInv` says what the end has taken it carries out in its next step,
and `RunInv` that a Run which was not refused has its worker or somebody who is to start it.
That the queue is open needs more: `Owed` says that it is open, or an intent, an import's end
or its memory that the queue was active will open it, or an import closed what it had seen
closed (`past.closed`). `OwedInv` says that a worker implies `Owed`, and `WorkerInv` that a worker and
a stop exclude each other, so that whoever closes the queue of a worker is an import.

**The rows of a slave have one origin.** That a pull never writes an old master's rows
does not rest on the drain of the flip. `OriginInv` says that an open transaction belongs to
the registration of the row: it looks again inside the transaction, and the flip cannot
commit while it is open. So the theorem needs no exception; what the drain protects is only
what follows the commit.

**A slave does not diverge silently.** `TopologyInv` is about time: from the answer of the
master to the last effect, a pull belongs to the present registration, or a flip has overtaken
it (`Crossed`), which takes an admission behind the drain and leaves a row without an
applied version, so that everything is pulled again. `MarkInv` is about debts. `Sound` says
that Caddy runs the rows or a comparison will see that it does not, and that the reference of
the rule files is the one of the snapshot. At rest a slave is sound or carries a marker. `LoadsInv`
says that a pull on its way has a reason to reload (`why`) unless Caddy runs its rows already,
and `RecordsInv` that no record on its way to the column takes a marker away from a slave that is
not sound: what a pull writes it decided while it had the mutex, and what the loop writes it
decided from the marker it saw. Where that is not so, the step sets `past.erased`.

**An import is all or nothing.** The invariants say for each step which of the two
versions every part has: until the commit the rows are the old ones and the snapshot
holds the old files, after it both are new. An uncertain commit leaves two cases open at
once, and `CertInv` shows that the abort then decides by the rows it finds, for the
certificates, while `told` excuses the rule files. `CrsInv` does not need the backup tree to be
the recorded one: where a left-over is put back, the step either agrees with the rows or says
so in `logged`. `ServesInv` needs that during an abort a
configuration that Caddy took is recognisable by its JSON (`Foreign`); that is just what
`SameJson` breaks.

**An event is somewhere.** `NothingLost` speaks of whole lines, but a line can be passed over
before it is whole; `IInv` therefore speaks of `Opens`, the lines that are whole or may still
become so. `FileInv` says what the files promise between polls: below the offset all was
ingested, and what is no longer in the live file was ingested or lies in the window of the
marker. `ReadInv` says what a pass owes, by its kind: `CoverInv` that it skipped nothing up to
its position (the scan stops at the first line start, and every open line ahead is one),
`EndInv` that an archive pass that returns without an error has read its window to the end.
`RotInv` follows the rotation: once it goes on from the retry nothing is owed to the old
archive (`SettledInv`), so `.1` may be replaced; everything below the start of the delta was
ingested (`StartInv`); and beyond the archive everything was ingested as far as was reached
(`TailInv`), because the scan back from the end of the copy passes the line the copy cut.
At the truncation these meet: a line below the start was ingested, one inside the archive is in the
window of the marker, one behind it was read by a tail round, came after the last stat, or
is the one in flight.

## 6. What is only model-checked

- Liveness (`EnabledDaemonRuns`, `StopSettles`, `StopDrains`, `Converges`, `DrainedUnlessSame`,
  `Shrinks`): it depends on fairness, which the prover does not handle.
- The four properties that fail, where TLC's counterexample is the result.
- That each exception of a property is needed, and that the history variables are set at no other
  time than the text says: read from the definitions and seen in TLC's traces.

Proved and not repeated by a run: `FutureNeverConsumed` (theorem `WatermarkIsPast`) and the
type invariants of the modules other than `CAQueue` and `ClusterSync`.

## 7. Defective variants

Each property of a passing run is paired in `PROJECT.json` (`mutants`) with a defective
variant of a definition, written next to it: a check that is not repeated under the
lock (`MayStart_RoleNotRechecked`, `StillDue_NotRechecked`), a count that is kept on a
rejected reservation (`Reserve_CountKeptOnReject`), a walk that skips the cancel
(`StopVisit_Skips`). With the variant in place TLC finds the property violated.

## 8. What is not modelled

- Metadata, history, progress and log files of the engine: data only.
- `RearmLoop` of a daemon, and of `TaskSlots` all but the one Scheduled task.
- `SyncBusinessTaskDrivers` and the persisted loop preferences of the wiring.
- Of the certificate queue the rate gate (it only delays) and the calendar of renewals;
  of a rule change everything but its effect on certificate jobs. Whether a rule is enabled is
  read off its row (`disabled`), so a disabled rule with a failed row counts as enabled; the block
  that `UpdateRule` raises (`rules.go:3368`) is not modelled.
- Of the cluster the master's side (a counter of versions), the halt on a newer schema,
  the separate retry of crawler data, the repeated confirmation of a registration
  (`retryPendingRegistrationConfirm`, `cluster_sync.go:1990`, which may clear the token of a
  registration the master refuses to confirm; in the model a token goes only with a flip),
  tickets and authentication.
- Of an import the parsing and validation of a backup, and the projections of IP lists.
- Rendering and loading of a configuration outside of imports, reloads and startup.
- Of the security events the merging of the transactions of one request, the socket and
  spool delivery, queries and retention, the generation guard, a log that disappears and
  the quarantine of an unreadable marker.
- Autoban, the configuration watchdog, automatic backups, DNS claims: own rows and files,
  one periodic task of the engine each.
- Caddy, ACME servers, DNS providers and the file system: external. Their answers
  appear as the outcomes of a step.
- HTTP handlers, authentication, MFA and OIDC, the MCP server, the Caddy plugins, the
  schema and its migrations, the web interface: request handling over single
  transactions, parsing, or presentation. They are the greater part of the code base,
  and the reason why the share of lines the models cover is small.

`PROJECT.json` lists each component with its status.

## 9. Running it

    tlc -workers 2 -config DaemonSafety.cfg MCTaskDaemon
    tlc -workers 2 -config RunsSafety.cfg MCTaskRuns
    tlc -workers 2 -config SlotsSafety.cfg MCTaskSlots
    tlc -workers 2 -config QueueSafety.cfg MCCAQueue
    tlc -workers 2 -config SyncSafety.cfg MCClusterSync
    tlc -workers 2 -config ImportSafety.cfg MCConfigImport
    tlc -workers 2 -config AuditSafety.cfg MCAuditRotation
    tlapm TaskDaemonProofs.tla
    tlapm TaskRunsProofs.tla
    tlapm TaskSlotsProofs.tla
    tlapm CAQueueProofs.tla
    tlapm ClusterSyncProofs.tla
    tlapm ConfigImportProofs.tla
    tlapm AuditRotationProofs.tla

The other runs and their modules are in `PROJECT.json`.
