# ThreatOne: specification and verification

TLA+ models of ThreatOne's core (C++, `src/src/`), checked with TLC, and theorems about
them checked with TLAPS. The models are translated from the code; where a comment or a
document promises something else, the disagreement is a finding (below).
Paths in this file are relative to `src/src/` unless they say otherwise.

Contents: the system · the modules and how they correspond to the code · runs ·
proofs · findings and observations · what is not modelled · plan.

## 1. The system

ThreatOne is one process. A main program builds singletons in order (logger,
configuration, event bus, services, plugins), then an `AppController` builds some twenty
engines, which are objects with one mutex each. Apart from main, the threads are: the scan
scheduler's workers, the event bus's worker, one monitor thread per platform driver, and
whatever threads call the engines, which lock for that purpose.
SQLite files, the quarantine directory and loaded shared libraries survive a step or a
crash; everything else is memory.

| component | state | operations | interacts with | hard because |
|---|---|---|---|---|
| `database/ConnectionManager` | pool, counters, open leases, transaction flags | initialize, shutdown, getConnection (with deadline), ~ScopedConnection, begin, commit, rollback | repositories, Migration | condition variable with deadline, shutdown and re-initialisation under open leases, SQLite ending transactions by itself |
| `database/Migration` | `_migrations` rows, schema, each runner's loop | runPending, migrateTo, rollback, rollbackAll | a connection | several runners on one file, crashes, failing statements, builds of different age |
| `scanner/ScanScheduler` | queue, running/stopping flags, workers | start, stop, submit, submitBatch, cancelPending, worker loop | ScanEngine | flags outside the mutex, joins, lost wakeups |
| `scanner/ScanEngine` | active scans, status, progress, findings | startScan, stopScan, pauseScan, processFile | scheduler, event bus | one scheduler shared by all scans, polling, status written without a lock, throwing subscribers |
| `scanner/QuarantineManager`, `security/SecurityEngine` | files outside, kept files, metadata, threats | quarantine, restore, permanentDelete | file system | no lock, several files per operation, crash or I/O error between any two steps |
| `core/Application`, `app/main` | state, subsystems up | initialize, console loop, shutdown, requestShutdown | all of core, signals | signal handler and several threads store into one atomic |
| `core/EventBus` | subscriptions, worker thread | subscribe, unsubscribe, clear, publish, start/stop async | everything | handlers run outside the lock, may publish, throw, unsubscribe |
| `core/PluginLoader` | table of plugins, library handles | load, unload, initializeAll, shutdownAll | the dynamic loader, plugins | dependency order, duplicate loads, failing initialisations |
| `fleet/DeploymentManager` | deployments, stages, endpoint versions | create, start, pause, resume, advance, rollback, setEndpointVersion | endpoints | integer division of stages, several rollouts on shared endpoints |
| `fleet/FleetManager`, `RemoteManager`, `PolicyEngine` | endpoints and groups; commands and their queues; policies and their history | register, heartbeat, add to group, ...; queue, complete, cancel; create, update, delete, distribute | agents | membership kept twice; results that come late; ids created again |
| `plugin/PluginManager`, `DependencyResolver`, `PluginVersionManager` | registry, manifests, hooks; version histories | load, unload, reload, enable, disable, register; migrate, rollback | marketplace | hooks found by name only, versions installed twice |
| `updates/UpdateManager` | status of updates, running and previous version, rollouts, signatures | add, download, install, rollback, cancel, stage | - | long sequences of calls |
| `xdr/ResponseOrchestrator` | priority queue, approvals, executed actions | queue, process, approve, deny, roll back | - | an approval names an action, not an entry |
| `api/WebhookManager` | subscriptions, deliveries | trigger, retry by queue and by hand | an injected sender | retry policy |
| `sandbox/MalwareDetonation` | jobs, queue, counters | enqueue, dequeue, start, complete, fail, cancel, time out | - | queue and status changed by different calls |
| `identity/AuditLogger` | chained entries, retention policy | log, enforce retention, verify | the clock | retention cuts the chain |
| `telemetry/TelemetryTransport` | two queues, batches, statistics | enqueue, createBatch, flush, clear | - | batches limited by number and bytes, limits that change |
| `cloud/CloudPolicyManager`, `BackupManager` | policies and versions; backups, schedules | distribute, activate, acknowledge; create, retain, remove | endpoints | marks of versions; ids ordered as text |
| `edr/AlertManager` | bounded alerts, index against repetition | generate, acknowledge, resolve, set window and capacity | the clock | an index beside a list that evicts |
| `network/IntrusionDetector` | rules, attempts by source and target, bounded alerts | evaluate, detectPortScan, detectSYNFlood, detectBruteForce | the clock | windows chosen by each caller |
| `threat_intel/IOCManager`, `IOCMatcher`, `ThreatIntelEngine` | numbered table of indicators, maps and trie of the matcher | add, remove, update, clear; ingestFeed, loadIOCs, matchAll | threads that ingest | two locks, and what is new is told by a size read earlier |
| `firewall/*` | ordered rules, default action, statistics | add, remove, enable, block, allow, filterPacket | threads that filter | precedence, rule changes between decision and count |
| `platform/*Driver` | watches, monitor thread | start/stopFileMonitoring, monitor loop | the kernel | maps shared without a lock |

What makes each of the modelled ones correct is in section 3, property by property. The other
modules (hids, monitor, siem, soc, the rest of threat_intel, vulnerability, ai, analytics, compliance,
reporting, licensing, utils, and the rest of the directories above) compute over data under one
lock each, or do input and output. `PROJECT.json` lists every one of them with the reason it is not modelled.

## 2. How the modules are built

| module | models | role |
|---|---|---|
| `LeasePool` | what a connection pool promises | abstract |
| `ConnectionPool` | `database/src/ConnectionManager.cpp` | implements `LeasePool` |
| `JobPool` | what a pool of workers promises | abstract; `ScanEngine` is built on it |
| `ScanScheduler` | `scanner/src/ScanScheduler.cpp` | implements `JobPool` |
| `ScanEngine` | `scanner/src/ScanEngine.cpp`, `ScanProgress.cpp` | composes scans with a `JobPool` |
| `AsyncWorker` | the worker thread of `core/src/EventBus.cpp` | component of `Application` |
| `Application` | `core/src/Application.cpp`, `app/src/main.cpp` | composes main, signal, other threads, `AsyncWorker` |
| `SchemaHistory` | what schema migration promises | abstract |
| `Migration` | `database/src/Migration.cpp` | implements `SchemaHistory` |
| `Positions` | what the algorithms of C++ do to a sequence: insert, erase, find, remove what passes no test | operators |
| `TopologicalSort` | `PluginLoader::topologicalSort`, `DependencyResolver::resolve`, `PluginManager::resolveDependencies`, with reference definitions | algorithm |
| `PluginLoader` | `core/src/PluginLoader.cpp` | uses `TopologicalSort` |
| `Quarantine` | `scanner/src/QuarantineManager.cpp`, `SecurityEngine::quarantine` | component |
| `Deployment` | `fleet/src/DeploymentManager.cpp` | component |
| `FleetManager`, `RemoteManager`, `PolicyEngine` | `fleet/src/` files of these names | components of `Fleet` |
| `Fleet` | the four managers of `fleet/` | composes `Deployment` and the three above |
| `PluginManager`, `PluginVersionManager` | `plugin/src/` files of these names | components of `Services` |
| `EventBus` | subscriptions and `publish` of `core/EventBus` (h and cpp) | component of `Services` |
| `UpdateManager` | `updates/src/UpdateManager.cpp` | component of `Services` |
| `ResponseOrchestrator` | `xdr/src/ResponseOrchestrator.cpp` | component of `Services` |
| `WebhookManager` | `api/src/WebhookManager.cpp` | component of `Services` |
| `MalwareDetonation` | `sandbox/src/MalwareDetonation.cpp` | component of `Services` |
| `AuditLogger` | `identity/src/AuditLogger.cpp` | component of `Services` |
| `TelemetryTransport` | `telemetry/src/TelemetryTransport.cpp` | component of `Services` |
| `CloudPolicyManager` | `cloud/src/CloudPolicyManager.cpp` | component of `Services` |
| `AlertManager` | `edr/src/AlertManager.cpp` | component of `Services` |
| `IntrusionDetector` | `network/src/IntrusionDetector.cpp` | component of `Services` |
| `Firewall` | `firewall/src/RuleEngine.cpp`, `PacketFilter.cpp`, `FirewallManager.cpp` | component of `Services` |
| `ThreatIntel` | `threat_intel/src/IOCManager.cpp`, `IOCMatcher.cpp`, `ingestFeed` and `processFeedData` | component of `Services` |
| `Services` | nothing of its own | one specification of the fifteen services that do not call each other |
| `CloudBackups` | `cloud/src/BackupManager.cpp` | component |
| `MC...` | constants and symmetry for TLC | |
| `...Proofs` | theorems about the module of that name (`FleetProofs`, `ServicesProofs`: about the components of these) | |

`Positions` is small on purpose. What `remove_if` keeps is told by the positions it keeps, not by a recursive filter, so that it can be
reasoned about, and the fifteen instances of the components in `Services` do not bring fifteen copies of a large library into every
obligation of the prover.

`Fleet` and `Services` put side by side what shares no state and makes no calls to one another.
A variable `awake`, chosen at the start and kept, says which component acts; the others stay as they
were made. Since no component reads another's variables, every reachable state of
one is reachable this way, and TLC checks the sum of the state spaces instead of their product. The
theorems about these modules are theorems about each component's own actions.

Operators marked `slip` in a module are plausible mistakes in the definition that follows
them. No action uses them; each property of each run is shown to fail when its slip replaces
that definition (`PROJECT.json`, "mutants"), so no property holds merely by the shape of
the model. Variables commented "history" are not the program's; they only
record what a property needs to refer to.

## 3. The models, their properties and their runs

### ConnectionPool (run `connection_pool`)

One action is one critical section of `mutex_`, or one call on a connection by its holder.
`getConnection` is split where it sleeps: `StartWaiting`; then `Wake...`; then, with the mutex
again, `ReturnTimeout`, `ResumeAndTake` or `WaitAgain`. A woken thread competes with
newcomers (`GetAtOnce`), a deadline wins over a notification as in
`wait_until`, and waking for no reason is allowed. `Release` is `releaseConnection`: it rolls
back if `inTransaction_` says so, ignores the result, and pushes whatever the state of the
manager. `flagTx` is the C++ flag, `dbTx` what SQLite thinks; `AutoRollback` separates them.

* `ExclusiveOwnership`: a connection is pooled once or held by one thread.
* `PooledConnectionsClean`: nobody gets a connection with a transaction left open.
* `CountersAgree`: `totalCreated_` = pooled + `activeCount_` modulo the width of `size_t`,
  which is where a return after a shutdown makes the count wrap.
* `NoLostWakeup`: unless a wakeup was consumed by an expired thread or `initialize` filled the
  pool silently, there are never idle connections, a sleeper, and too few threads on their way.
* `EveryCallReturns` (liveness), `ImplementsLeasePool` (refinement).

Bounds: 3 threads (two compete for what the third returns), pool of 2, 3
connection objects (one more than the pool, so re-initialisation under leases happens), and
`CountMod` 8 for 2^64, small enough that the counters wrap in the run.
Fairness: a deadline passes, an expired sleeper is woken, and a woken thread gets the mutex.
Nobody is assumed to return a connection.

### ScanScheduler (runs `scan_scheduler`, `scan_scheduler_stop`)

The mutex is the predicate `MutexFree`: a worker holds it from finding its wait predicate
false (`checked`) until it sleeps (`waiting`). `stop` is three steps without the mutex
(`StopFlag`, `StopNotify`, `StopJoined`), and `submit` is three as well (`Submit` tests
`running_`, `Push` needs the mutex, `Notify` comes after it).

* `JobsConserved`: every job is in exactly one place and runs at most once.
* `StoppedMeansQuiet`: after `stop` no handler executes.
* `StopDrains`: what a stop leaves behind was pushed after `stopping_` was set.
* `QueuedJobsTaken` (liveness): pushes are never missed.
* `ImplementsJobPool`: FIFO order, and each job starts or is cancelled, never both.

`scan_scheduler_stop` shows the hang of `stop()` with one worker, one client and one job.
Bounds of the other: 2 workers, 2 clients, 2 jobs; the races are between one client, one
worker and the thread that stops, and the second of each kind shows that work is neither
duplicated nor stolen. Fairness: weak for every thread that can run; strong where threads
compete for the mutex, which presumes a mutex that starves no one for ever.
A handler is assumed to return. Nobody has to submit, start or stop.

### ScanEngine (runs `scan_engine`, `scan_engine_polling`)

`caller[s]` is where `startScan` is for scan `s`: on the inline path (up to
`SmallLimit` files, 100 in the code) or polling while workers of a `JobPool` process its files.
A job is `PickJob`, then `SkipJob` or `EnterJob` (where the status is read), then `RunJob` or
`JobThrows`. The end of `startScan` is three steps, because the status is tested and
written without a lock (`TestStatus`, `WriteCompleted`, `PublishCompleted`).

* `CompletedMeansScanned`: files counted, queued and being read never exceed the total, and a scan
  reported Completed has counted every file and found every infected one.
* `UndisturbedScanReturns` (liveness): a scan whose files nobody dropped ends, also when
  paused or cancelled.

Bounds: two scans (the interaction that matters is one scan's stop on another), two workers,
up to two files, of which more than one goes to the workers. Fairness: callers inside
`startScan` and workers go on; nobody has to start or stop a scan.

### Application and AsyncWorker (runs `application`, `application_logger`)

`mainPc` follows `main` and `initialize`; `caller[c]` is each thread inside `shutdown`; the
signal handler is `SignalArrives`, `RequestTest`, `RequestStore`, since `requestShutdown` tests
and stores in two steps. `up` is the set of subsystems alive; leaving main runs the
destructors of the singletons. `AsyncWorker` is the bus's worker with its queue left out,
because `enqueueAsync` calls the handler itself and never fills it.

* `OrderlyTeardown`: no subsystem is closed twice, however many threads and signals meet, and what
  `shutdown` closes, it closes after what was built on it.
* `SignalSeenEndsLoop` (liveness): a signal that finds the state Running ends main's loop.

Bounds: main and two more threads (the compare-and-swap has two losers), one signal (a second
one ends the process by the default action). Deadlock checking is off: the process ends.
Fairness: threads that can run do.

### Migration (run `migration`)

A runner's call is `Begin...`, which fixes what its loop will treat from what it reads now, then
for each version `Change` (the first write takes SQLite's write lock), `Record` and `Commit`,
and `Finish`; `Abort` is a failing statement or a crash at any point, with rollback. Builds of
different age know `1..k` for different `k`. Upward calls run concurrently; taking back is
modelled with nobody else at work.

* `RecordsTellEffects`: a migration's changes are in the schema exactly once if it has a row, else not at all.
* `GoalReached`: a call that ends well has reached its goal. It is an action property and needs no fairness.
* `ImplementsSchemaHistory`: every commit is one step of the abstract history; that the recorded
  versions are `1..k` (`AppliedInOrder`) follows from this and is proved besides.

Bounds: 2 runners, 3 versions: a stale first read needs two, and a step back to a middle
version needs three.

### Quarantine (run `quarantine`)

No lock exists, so every file system call is a step: a rename, or across file systems a copy that passes through
a partial file, the removal, the opening and filling of the metadata file, the undo. Every step
can fail the way the code handles or ignores it, and `Crash` can come between any two. One
`quarantine` call and one operator's call (`restore`, `permanentDelete`) run at the same time.

* `NothingLost`: no file disappears except by `permanentDelete` or by being overwritten by a
  restore to its path.
* `EntriesWhole`: an entry no call works on and no crash or ignored error touched has its file
  exactly if its metadata says where it came from.
* `Isolated`: in absence of such accidents, what is kept is nowhere else.

Bounds: two of everything (files, paths, entries, threats): one object treated and
one that interferes. Simplification: a call does not begin on the outside path or entry the
other one is in the middle of copying (`Undisturbed`); permissions are left out.

### Fleet: Deployment, FleetManager, RemoteManager, PolicyEngine (run `deployment`)

Each method of the four managers is one action, since each takes its `mutex_` for its whole length.
The agents on the endpoints are not part of the program: what they send (heartbeats with their own
timestamps, results of commands, compliance reports) is any of a small set, at any time.

* `StatusTellsStages`: `buildStages` puts each target in exactly one stage, in order, with no empty
  stage, for all numbers of targets up to 8 and of stages from -1 to 9; and which stages are done
  and which failed follows from a rollout's status.
* `RollbackRestores`: a rollback restores all versions if the targets had one known version when the
  deployment was created, whatever reports and other rollouts have made of them since.
* `MembershipAgrees`: an endpoint's `groupId` and the groups' lists agree, except for endpoints
  that registered again while in a group: `registerEndpoint` overwrites the entry and leaves the id
  in the old list.
* `CommandsEndOnce`: a command that was completed or cancelled keeps its status and result although the
  agent may report later, and is in no pending queue again.
* `HistoryTellsPolicy`: the history of a policy ends with its present content, and its last
  entries are the versions 1, 2, ... since it was last created, whatever was under the id before.

Bounds: two deployments (they may share endpoints, or have none), two versions, stage counts
0 and 2, a threshold of 50 % with outcomes below, at and above it; two endpoints and two groups (a
move needs both); three commands; one policy with at most four recorded versions, enough for
create, update, delete and create again. The two versions of the software are
interchangeable, which is the symmetry used.

### Services (run `services`)

Fifteen components, of which one acts in each behaviour (section 2). Except for
`PluginLoader`, `EventBus`, `Firewall` and `ThreatIntel`, every operation is one section of the component's mutex;
one that is refused changes nothing and is a stuttering step, so it has no action. A property is about the service that
acts (the proved ones are about all of them); the rest are as they began. Deadlock
checking is off, because ids, jobs and clocks are bounded and used up in the end.

**PluginLoader, TopologicalSort.** The table, the state of each plugin, and `dlopen`'s reference count
of each library. The loops of `initializeAll` and `shutdownAll`, which hold the mutex, are
unfolded where a plugin's own code runs (`Initialize`, `InitializeFails`, `StopNext`). The order in
which an unordered map iterates is any sequence.

* `OrderUnlessCycle`: the sort fails exactly when the dependency graph has a cycle, else every plugin
  comes after what it needs; the same for `PluginManager::resolveDependencies` and
  `DependencyResolver::resolve`, in which names may lack a manifest.
* `OrderRespected`: what is initialised comes after what it depends on, shutdown goes the other way.
* `PluginsAccounted`: one open handle per entry, no code of a closed library is called, and no initialised plugin is
  destroyed without its `shutdown`; and in `PluginManager` a hook is registered as often as active plugins
  contribute it, unless an operation named in `irregular` (loading over an enabled plugin, unloading one of
  two that share a hook, a manifest exchanged under an active plugin) came in between.

Bounds: three plugins with any dependencies on each other, one graph of each class up to a renaming
of the plugins (`UpToRenaming`: nothing else tells the plugins apart, and the file of a plugin is named
like it); `MaxHandles` 2 caps `dlopen`'s count; in the manager two plugins, and one hook, because a
hook's copies depend on no other hook; in the resolver three names, of which some may be absent.

**PluginVersionManager.** `ActiveIsCurrent`: a plugin's active entries are exactly of its current version, and a rollback right after an
installation leads to what that replaced; likewise for the versions of a policy in **CloudPolicyManager**, unless the last activation was of a
version that does not exist (`misled`). Bounds: three plugin versions in five installations, so that
a version comes twice; a policy has up to four versions, numbered from 1 or from 7.

**EventBus.** A dispatch is an entry of its thread's stack: `Publish` copies the matching
subscriptions under the shared lock, `CallHandler` takes the next one, and a handler may
subscribe, unsubscribe, clear, publish again, stop the propagation, return, or throw.

* `EventsDelivered`: when `publish` returns, every subscriber that was there all the time has been
  called once, unless the propagation was stopped; handlers are called from the highest threshold down, and none
  that subscribed after the publication began.

Bounds: two threads, three subscriptions (base class, one type, one with a threshold), two priorities,
two dispatches at a time, which is one nested or two concurrent.

**UpdateManager.** `UpdatesRevert`: the running version and the one a rollback leads to are installed (or the first
one), and the latter is what the running one replaced. Bounds: three versions, of which one may be the
first one offered again; rollouts and signatures, which no other state depends on, of one.

**ResponseOrchestrator.** `ProcessedInTurn`: what leaves the queue for execution has the highest priority and the longest wait of
all that need no approval, and if it needed one, a request for its action was approved
after it was queued. Bounds: three entries of two actions and two priorities, one approval request; a
second request adds nothing to an approval that frees all entries of its action.

**WebhookManager.** `RetriesBounded`: a delivery is not sent again after a success, what waits for a retry has attempts left, and
nothing is sent more often than its policy says, not counting retries by hand. Bounds: two hooks (the default policy
of three retries, and none), three deliveries, two retries by hand of each.

**MalwareDetonation.** `JobsAccounted`: the queue, the statuses and the three counters agree: a job is queued once, or was
taken out or cancelled; high priority comes first; what is counted as processed was started; completed and
failed ones are counted once, plus once more where a job timed out and then failed, and cancelled ones not at all. Bounds: three jobs of both priorities.

**AuditLogger.** `ChainTellsHoles`: `verifyChainIntegrity` accepts a log from which nothing is missing, and notices any
hole unless the clock was set back. Bounds: five events, three clock values, a retention by age, by number, to nothing, and none.

**TelemetryTransport.** `BatchesKeepItems`: each accepted item is in exactly one of queue, batch, flushed, cleared; batches are consecutive
and within the limits of their time; the statistics count what was flushed. Bounds: four items, two batches,
sizes 1 and 2 against 2 bytes, and a configuration without room, which makes empty batches.

**AlertManager, IntrusionDetector.** `WindowsRespected`: a report is suppressed exactly when an alert of its key, younger than the window, is still in the list,
whatever was evicted; a port scan is judged by all attempts of its source within the window, whatever was pruned
when; a flood by no more attempts than there were, and by all in the window unless a call for the target had a
shorter one; the lists keep the latest alerts without a gap.
Bounds: two alert keys, four alerts, windows 0 to 2 of a clock to 4, capacities 0, 1 and 3; two
sources with one port or two at once, three calls within three seconds, a window in the future among the spans.

**Firewall.** `filterPacket` is two actions, since the decision is taken under the engine's lock and counted under
the filter's. `NothingOverlooked`, first part: a packet gets the action of an enabled matching rule that no other one
precedes by priority, and the default exactly if there is none; an id names one rule; the statistics of the
actions add up to the packets that were decided on and are not in flight. Bounds: three rules (one of the callers' for a network, one for a range of ports,
and `blockIP`/`allowIP`), addresses of two bits, so that a prefix of 1, of 2, and of 0 differ.

**ThreatIntel.** `ingestFeed` reads the size of the table, adds the feed's IOCs one by one, copies the active ones and
enters into the matcher those whose number is above that size; each of these takes one of two locks, so each is an action
(`IngestFeed`, `AddNext`, `CopyNew`, `EnterIOC`, `IngestReturns`), and other threads ingest, load, add under given numbers, remove,
replace and clear in between. A value is a sequence of characters; `SearchTrie` walks as far as the inserted keys go, and a URL is
entered under its domain, too. `NothingOverlooked`, second part (`IngestedFound`): once `ingestFeed` has returned, every IOC it added that
nobody removed, replaced or cleared away is in the matcher with its content, and `matchAll` gives it for exactly the values it covers:
itself, a longer address, a domain or URL below it. Bounds: two threads, two calls, numbers up to 2 of which one may be given by
hand, a feed with an empty value and a URL with a port, one with the first part of an address, nine values looked up.

Nothing here is live: no thread of these components waits for another, so no fairness is assumed.

### CloudBackups (run `cloud_backups`)

`createBackup`, the retention, restore, removal and the schedules of `BackupManager`. The map's keys are ids, `"BKP-"`
and a number, compared as text (`Before`). The run shows the finding below with ten backups, the first number of two digits.

## 4. What is proved

TLAPS checks the theorems for every value of the constants, under the named
assumptions of the modules (for example `JobsAssumption`: the set of jobs is finite).

**ConnectionPoolProofs** - `TypeCorrect`, `ExclusiveOwnershipHolds`, `PooledConnectionsCleanHolds`,
`CountersAgreeHolds`, `NoLostWakeupHolds`, `ImplementationHolds` (implements `LeasePool`). Exclusive ownership is not inductive alone:
taking the head is safe because a thread that takes holds nothing, which the
strengthening (a thread holds a connection exactly while its place is "using") provides.
Cleanness needs that SQLite never has a transaction the flag does not know of.
`CountersAgree` compares sums modulo the width of `size_t`: `Balanced` says the same without a remainder (the sums
differ by a multiple of `CountMod`), every step keeps it whether a counter wraps or not (`MovedOut`), and remainders are
unique (`RemainderUnique`). `NoLostWakeup` is inductive beside the types, but each step has to count who sleeps and who is awake
before and after it (`WokenAdded`, `WokenRemoved`).

**ScanSchedulerProofs** - `TypeCorrect`, `StoppedMeansQuietHolds`, `StopDrainsHolds`, `JobsConservedHolds`,
`ImplementationHolds` (implements `JobPool`). The strengthening ties `running_` and the workers to how far
`start` and `stop` have got (`ControlInv`), and says that once a worker has exited, the queue holds late
jobs only (`DrainInv`). `JobsConserved` counts, which no step can be shown to keep; `PlaceInv` says why the
counts agree: the six places of a job share nothing (`Apart`), and a job stands at one position of the queue or of one batch, or
with one worker. Then a count is the size of a set (`PlacesImply`), and each action moves jobs from one place to another.

**ScanEngineProofs** - `TypeCorrect`, `CompletedMeansScannedHolds`. A scan counts its files, so what must be known is which
files the counter stands for: `Counted` says that some set of its files has that size, has no job left in the queue or with a worker
(`JobInv`: a job is in one place), and has its infected ones in the findings. When the counter has reached the total,
that set is all the files (`AllCounted`); that progress never passes 100 % is `SumBounded`: what is counted, queued and
being read is never more than there is. `TypeOK` is proved with it, because the bound of the counter depends on it.

**ApplicationProofs** - `TypeCorrect`, `OrderlyTeardownHolds`, for any number of threads that may call `shutdown()`. `Life`
ties the state to how far `main` is and says that a signal handler writes only after it has found Running; `OneCaller`, that the exchange
of the state lets one thread in; `Teardown` lists, place by place in `shutdown()`, what is still to be closed and what is down for good.

**MigrationProofs** - `TypeCorrect`, `RecordsTellEffectsHolds`, `AppliedInOrderHolds`,
`ImplementationHolds` (implements `SchemaHistory`), `GoalReachedHolds`. The invariant describes what the open
transaction sees (`TxView`), and why a loop whose version is stale is harmless:
climbing, what is left to do together with what is committed has no gap (`ClimbInv`);
descending, it is the top of what is committed (`DescendInv`). That a call reaches its goal is one invariant more (`GoalInv`): what
is left to do and what is recorded make up the goal, climbing at least and descending exactly. It rests on `NewestAbove`: since the
records have no gap, the newest `n` are those above the current version less `n`, so a difference of versions is a number of rows.

**QuarantineProofs** - `TypeCorrect`, `NothingLostHolds`, `EntriesWholeHolds`, `IsolatedHolds`. `Phases` says what
the two calls may rely on (they never work on one entry, and a copy only replaces its own
beginning); `Somewhere` strengthens `NothingLost` by not counting the kept file that a restore is
about to remove; `Whole` says what the disk holds for the entry a call is working on,
phase by phase, and `EntriesWhole` for the others. `Single` is what isolation rests on: a file is in one
place, outside or in an entry, but for the two copies that are about to be removed.

**FleetProofs** - `MembershipAgreesHolds`, `CommandsEndOnceHolds`, `HistoryTellsPolicyHolds`, `RollbackRestoresHolds`,
`RolloutStatusHolds` (`StatusTellsStages` as a whole). For the
registry the invariant says both directions apart (`Listed`: a member is in its group's list;
`ListsTrue`: a list has members only, and endpoints that registered again), because a move
between groups needs the second to know that no third list has the endpoint. For the commands types suffice: every
operation tests the status before it writes. For policies (`PolicyInv`, `Told`) the history is proved
entry by entry; `RecordTold` is the lemma that appending keeps it, for a next version and for a first one.
For the rollouts (`RolloutInv`) `Telling` says that there is an outcome for each stage and what each status tells of the outcomes;
`Remembering`, that a version once known stays known and that each deployment remembers its first target's.
`StagesOfTargets` is about `buildStages` for any list of targets and any number of stages: where one stage ends the next begins
(`PartsMeet`), none is empty, and the concatenation of the first `k` is the beginning of the targets (`FlattenedSoFar`).

**ServicesProofs** - one invariant for each component whose property is proved.

- `UpdatesRevertHolds`: `UpdateInv` adds that the previous version is not the running one, unless it is the first: else a
  rollback would mark as rolled back what it goes back to.
- `ActiveIsCurrentHolds`: `VersionInv` adds that every `previous` is the version of an entry, so that a rollback finds one to
  mark, and `PolicyInv` that the numbers of a policy's versions have no gap, so that a new one is not the active one.
- `RetriesBoundedHolds`: `WebhookInv` bounds every delivery of the sequence.
- `EventsDeliveredHolds`: `BusInv` says of each frame of each stack how due, called, present and stayed subscriptions belong
  together; the lemmas say that this survives the removal of subscribers anywhere and any change of the topmost frame.
- `ProcessedInTurnHolds`: `ResponseInv` says that the queue is in the order of processing at every moment, so that the first entry
  that does not wait is the right one; that an entry waits exactly while the last approval of its action is older than the entry; and
  that numbers and approvals grow. `ElementInserted` and `ElementRemoved` say what inserting and removing do to a sequence.
- `NothingOverlookedHolds`, the firewall: `FilterInv` adds that the rules are sorted by priority and that the packets in flight
  are finitely many. What `SortRules` gives (a permutation that is sorted) is a definition of the model, not an algorithm, so its result can be
  used; `DecidingRule` is what the loop over the sorted rules finds.
- `NothingOverlookedHolds`, the indicators: `IntelInv` rests on the numbers. Every one in the table is below `nextIOCId`, so the
  table's size, read first, is below every number given out later (`SizeBelowNumber`). For a call that adds, its IOCs are
  in the table and above that size; for one that enters, each is in its copy or found already; and nothing in a copy or in the matcher
  differs from the table unless it was disturbed. `MatchedAsCovered` then computes `MatchAll`, the walk through the trie included.
- `OrderUnlessCycleHolds`, Kahn's algorithm: `Turned` says what holds between two turns of its loop - which nodes are ready, what
  is left of each node's number of dependencies, and that a node is in the result only after all it depends on. After as many turns as
  there are nodes it either has all or has stopped at some that wait for one another (`SortedInOrder`), so the length of the result tells
  a cycle. For `DependencyResolver::resolve` the nodes are what a search from one plugin finds: after `k` rounds
  it is closed or has more than `k` nodes (`SearchRound`), so as many rounds as there are plugins are enough (`SearchedNodes`).
- `OrderRespectedHolds` and the first part of `PluginsAccountedHolds`: `LoaderInv`. `Ordering` says that what the loops of
  `initializeAll` and `shutdownAll` have still to treat is in the order of the dependencies, as far as nobody has loaded or unloaded
  it since (`settled`), and holds all that is still to be treated; so a step that takes the next plugin leaves none behind that it needs (`StepsInOrder`).
  `HandlesKept` says that `dlopen` counts at least the table's entries of a library. `PluginsAccountedHolds` has a
  hypothesis, `NamedLikeFiles`: the name a plugin answers with is the stem of its file. The code keys the table by the one in one
  place and by the other in another, and for a plugin with two names the property is false (section 5); the run, too, names them alike.
- `HooksFollowPluginsHolds`, the second part of `PluginsAccounted`: `ManagerInv` is that part and the types. A count of registrations
  follows the set of a hook's contributors (`ContributorsOf`), to which a step of one plugin adds or from which it removes
  that plugin at most (`LoadedHooks`, `ReplacedHooks`, `SwitchedHooks`, `ManifestHooks`).
- `JobsAccountedHolds`: `JobsInv` says which jobs each counter counts (`CountersTold`: those that ever started, those completed, those
  that failed without being cancelled, and those that timed out) and what the queue holds (`QueueTold`). A cancellation removes a job's entries
  from the queue; what that keeps, and how often, are `KeptInOrder` and `KeptCounted`.
- `ChainTellsHolesHolds`: `AuditInv` says that the entries left are in the order of their ids, each chained to the last one that was there
  (`Chained`), and, unless the clock was set back, that they are all since some id (`Unbroken`): then the old ones come first, and a
  retention leaves an end of the log (`YoungOnes`, `RetainedChain`).
- `WindowsRespectedHolds`: `AlertInv` ties the index to the alerts in the list (`Indexed`: each key at the time of its latest alert, and
  no key without one); `IntrusionInv` ties the trackers to the history: the attempts known of a source lie between those in the window
  and all there were (`ScansTold`), and so do the counts of each second for a target (`FloodsTold`).
- `BatchesKeepItemsHolds`: `TransportInv` says that queue and batches are in one line by the items' numbers (`InLine`), that what was ever
  accepted is held or has ended, never both, and what the statistics add up to. A sum is proved as a count: `SumCounted` says that a
  sum of sizes is the number of pairs of an item and one of its units, whence sums over disjoint sets add (`SumUnion`, `SumMore`).
- `TypeOKHolds`, the types of all fifteen: most are parts of the invariants above; `TypesInv` holds the rest, above all that what a guard caps
  stays within its cap.

Inductions over numbers are done by the least counterexample (`LeastOfNumbers`: a set of numbers that is not empty has a least element),
since the library's induction theorems cannot be used; what would be a recursive definition is a set, a fold by positions, or a
recursive function whose value is defined for every argument (`TurnsExist`, `SearchExists`).

The theorems assume what the modules' named assumptions say of the constants (`ServiceConstants` in `Services`,
`FleetConstants` in `Fleet`): that a "none" value is not one of the others; that sets of plugins,
hooks and subscriptions, and of the names the resolver is asked for, are finite; that priorities, sizes, windows, capacities and limits are numbers, as the
types in the code are; and that the bounds of the model (`MaxHandles`, `MaxEvents`, `MaxItems`, ...) are numbers. `ScanWindow <= CleanupWindow` is so in the
code: `detectPortScan` looks back 60 seconds and `cleanupOldEntries` forgets after 300.

Only model-checked, and why:

- everything under fairness: `EveryCallReturns`, `QueuedJobsTaken`, `UndisturbedScanReturns` and `SignalSeenEndsLoop`
  (liveness is out of the prover's reach);
- `CloudBackups`, which states one property, and the code violates that one (finding 4).

## 5. Findings and observations

Findings, each with a run whose counterexample shows it:

1. `ScanScheduler::stop()` may hang: flag and notification are outside the mutex, so a worker
   between the test of its predicate and its sleep misses both (`StopReturns`).
2. `ScanEngine::stopScan(id)` cancels the queued files of every scan; another scan then never
   reaches its total and its `startScan` polls for ever (`PollingEnds`).
3. After `requestShutdown()` the compare-and-swap of `Application::shutdown()` fails, nothing is
   torn down in order, and main closes the logger first (`LoggerLast`).
4. `BackupManager.cpp:158` says "Remove oldest (first in ordered map)", but ids are ordered as text: of ten
   backups the retention removes `BKP-1` and then `BKP-10`, the newest (`OldestRemoved`).

Observations that no document of the repository contradicts, so that no run claims them:

* Pool: `initialize()` notifies nobody; a waiter that slept through it times out although there are
  connections. A return after `shutdown()` makes `activeCount_` wrap below zero. An `initialize()` that fails
  half-way (`ConnectionManager.cpp:379`) keeps the connections it has made, and the next call adds to them.
* `stopScan()` between the test and the write of the status (`ScanEngine.cpp:116`) is overwritten with
  Completed.
* A signal between the installation of the handlers and Running is lost (`Application.cpp:73`). A
  subscriber of the Stopping event that throws (`Application.cpp:119`) leaves `shutdown()` with everything up. The
  bus's worker has the same missed notification as finding 1 (`EventBus.cpp:46`), so process exit can
  hang in a join.
* `EventBus::publish` with a reference to the base class `Event` calls the subscribers of the base class
  twice. An exception of a handler ends the dispatch for the rest.
* `migrateTo()` downwards counts steps as a difference of versions: with gaps in the numbering it takes
  back too much (`Migration.cpp:190`). Concurrent rollbacks are not protected from each other
  (`Migration.cpp:85`): the list of what to take back is read before the transactions.
* `PluginLoader`: the table's key is the stem at first and `name()` later; a duplicate is closed
  before it is destroyed; plugins are called with the mutex held (`PluginLoader.cpp:320`), so that one that
  asks the loader back deadlocks; `unload` ignores dependents.
* `PluginManager`: hooks are found by event and name, so that unloading one plugin removes equal hooks of others, and
  loading over an enabled plugin enters its hooks twice; `enablePlugin` asks for no dependency.
* `QuarantineManager`: write errors of the metadata go unnoticed (`QuarantineManager.cpp:204`); the undo only
  renames; a restore overwrites what is at the path and does not give permissions back; a threat's
  flag survives its restore (`SecurityEngine.cpp:184`).
* `LinuxDriver.cpp:65`: `watches_` is changed by start and stop while the monitor loop searches it,
  without a lock: undefined behaviour, of which no state after it can be told.
* `DeploymentManager`: a rollback gives every target the first one's version; a deployment without
  targets starts and never ends (`DeploymentManager.cpp:202`); with a threshold of 0 a stage without failures
  fails; the automatic rollback on failure changes no version.
* `FleetManager`: an endpoint that registers again leaves its id in its old group's list, and deleting that group
  then takes the endpoint out of its present one. A heartbeat that comes late sets the time back.
* `ResponseOrchestrator`: a denial removes the first entry of the action, even an approved one, and leaves
  further ones in the queue.
* `TelemetryTransport`: with `maxBatchSize` 0 it makes empty batches without end; no batch ever fails, so that
  `retryBatch()` does nothing.
* `CloudPolicyManager.cpp:136`: activating an unknown version takes the mark from the active one; the content
  shown stays that of the first version, and acknowledgements survive an activation.
* `SandboxEngine`: the verdict of a sample never analysed is Clean. `MalwareDetonation`: a job that timed out may fail once more and is counted twice.
* `AlertManager`, `CorrelationEngine`, `AlertEngine` and `LogCollector` publish or call back with their mutex
  held; `AlertManager::dedupWindow_` is written without it.
* `IntrusionDetector`: a call with a short window forgets for good what callers with a longer one would count.
* Firewall: `blockIP` and `allowIP` do nothing when a rule with a given id has the next number; a negative priority
  and an earlier rule of equal priority beat the "Highest priority" of 0; a prefix of 0 means one address;
  `RulePersistence` does not store priorities, source ports, ranges, prefixes or applications.
* `ThreatIntelEngine::ingestFeed` compares numbers with a size (`ThreatIntelEngine.cpp:107`): after removals, and when two threads ingest,
  IOCs that are in the matcher already are entered again, although the comment in line 103 says "only newly ingested"; `matchAll` hides
  it, `matchIP` and `matchExact` list them twice (`matchIP` also where its walk ends early at the end of a prefix). A removed or replaced IOC stays in
  the matcher, and one added by hand enters only with the next feed, if its number is above the size.
* `FileIntegrityMonitor::getLatestBaseline` takes ids as text, too: "FIM-BL-9" is later than "FIM-BL-10".

## 6. Not modelled

`PROJECT.json` gives the reason for every component. In short: arithmetic in floating
point (ai, analytics, scores), text (parsers, reports, SQL builders, the configuration), hashing and pattern
matching of file contents, and tables behind one lock whose operations do not interact (a map, a setter, a
query). Most of the repository's lines are of these kinds, and the map covers about seven percent of
them. Of what is modelled, these are abstracted: file contents (a model value per
file), texts of events, alerts and logs, permissions, target selection and cryptography (a hash is the identity of
what it covers). Timestamps are kept where the code compares them.

Partly modelled: `core/Application` (the Qt path of main and the arguments are left out), `plugin/PluginManager` (no table of permissions) and
`DependencyResolver` (`resolve` only), `ThreatIntelEngine` and `ThreatFeedManager` (the table of feeds, `initialize` and scores are left out), quarantine (what makes a file a threat, and file permissions).

## 7. Plan

Modelled, in this order: pool, scheduler, scan engine, application, migrations, quarantine, rollouts; then
the rest of `fleet/`; plugins, events, updates, responses, webhooks, detonation, audit, telemetry,
policies of the cloud, backups; alerts, intrusions, firewall, indicators. Left, in order:

1. The Linux driver's loop against start and stop with the data race on `watches_` as a nondeterministic choice,
   and events before a watch is entered.
2. `ConnectionTracker`, `SandboxEngine`, the sessions of `AuthenticationManager`, and the rest of `updates/`
   (`RollbackManager`, `ChannelManager`, `UpdateScheduler`).
3. The status machines of `soc/` (cases, incidents, playbooks) beside `ResponseOrchestrator`.
4. A composition of `EventBus` with `ScanEngine` (a subscriber that throws) and with `LogCollector`, which
   publishes under its own mutex.
5. Proofs about what these add. Of the present models every safety property that a run checks is proved.
