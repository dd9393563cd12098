# Sentinello in TLA+

Sentinello watches source trees for vulnerable dependencies. A worker process
discovers projects, keeps local caches of advisory databases, scans every
project against them on a schedule or on request, keeps the findings in SQLite
and notifies; a portal, a second process on the same database, shows findings
and changes settings; a command-line scanner does one scan without a database.

This directory holds TLA+ models of the parts in which order, failure and
concurrency decide correctness, the TLC configurations that check them and the
proofs TLAPS checks. `tlc -config X.cfg MCModule` runs a configuration,
`tlapm ModuleProofs.tla` checks a proof.

## 1. Inventory

| Component | Code | State it keeps | Operations | What is hard | What makes it correct |
|---|---|---|---|---|---|
| Scan request queue and poller | `packages/db/src/queries/scan-requests.ts`, `apps/worker/src/scan-request-poller.ts` | `scan_requests` rows, tasks in flight | enqueue, claim, heartbeat, settle, reset | portal and worker write the same table; ticks overlap; updates have no status guard | running rows are exactly the live worker's tasks; a verdict is final; every request is answered |
| Worker lifecycle | `apps/worker/src/worker.ts`, `runtime.ts` | lockfile, in-flight set, abort signal | boot, drain, release, exit | crash, restart, grace period running out | one serving worker; boot resets only orphans |
| OSV cache | `apps/worker/src/osv-sync.ts`, `packages/db/src/queries/osv.ts` | advisories, ETag, cursor, seed flag, normalizer version | seed from the export, incremental pass | upstream moves during a pass, crash inside a seed, several handles | a usable cache is one complete state and misses nothing for good |
| Gemnasium cache | `apps/worker/src/gemnasium-sync.ts`, `packages/db/src/queries/gemnasium.ts` | advisories by file, head commit, seed flag | compare and apply, stream and purge | a rebuild over live rows that purges and stamps in several writes, renames, overlapping syncs | no live advisory without a row; rows and commit agree, but for what an unfinished rebuild did |
| Source runtimes | `apps/worker/src/osv-runtime.ts`, `gemnasium-runtime.ts` | handle, running syncs, cron | start and stop with the cell switches, request re-scans | syncs outlive their runtime, stale verdicts of projects scanned too early, exceptions on the way to a re-scan, sweeps that are claimed and lost | a verdict given while a cache was down is replaced, but for the named exceptions |
| Project scan | `apps/worker/src/runner.ts` | one scan in memory | inventory, resolve, run each source, corroborate, settle, notify | partial failure, abort, overlap with another scan of the project | see findings |
| Findings lifecycle | `packages/db/src/queries/findings.ts`, `packages/scanners/src/engine/reconcile.ts` | `findings` rows: episodes, copies, grade, corroborations, fix | merge per source, corroborate, settle | rows shared by sources, unreadable manifests, switches changed mid-scan | after a complete scan what is visible is the truth, once; verdicts match their evidence |
| Sources and cells | `packages/db/src/queries/sources.ts`, `apps/web/lib/actions/settings.ts` | one switch per source and ecosystem | switch, list active and runnable cells | read at several moments of a scan | a switched-off source's findings come back intact |
| Feed scanners, npm-audit, resolvers | `packages/scanners/src` | none | match, audit, parse | timeouts and retries of an external tool | verdicts ok, unauditable, error mean what they say |
| Discovery | `apps/worker/src/discovery.ts`, `packages/scanners/src/discovery.ts`, `packages/db/src/queries/projects.ts` | roots, projects with their manifests and tags | walk a root, reconcile, re-read one project, add and remove roots | incomplete walks, missing mounts, roots inside roots, portal and disk change under a pass | only what is gone is deleted; a scan re-reads what a pass would; the database settles on the disk |
| Watcher, scheduler | `apps/worker/src/watcher.ts`, `scheduler.ts` | watch set, timers | debounce, enqueue, sweep | overlap with other triggers | a change is scanned |
| Notifications | `apps/worker/src/notifier.ts`, `packages/db/src/queries/notification-*.ts` | events, deliveries | record, select, attempt, retry | crash around a send, overlapping passes, targets edited in mid pass, filters read from the event | what stays owed is told; nothing is marked told that was not; a pair is told once by each pass that held it at the same time, and again only by a fault |
| Capability baseline | `apps/worker/src/capability-baseline.ts` | baselines, summary deliveries | claim, count, send, give up | overlapping sweeps, caches not yet downloaded, edits during a send | old findings are not told one by one; one summary per target; the baseline ends |
| Mutes | `apps/worker/src/mute-expiry.ts`, `packages/db/src/queries/mutes.ts` | mutes, lift journal | mute, expire | expiry against dispatch | a muted finding is not sent, a lifted one is |
| Retention | `apps/worker/src/scan-retention.ts` | scans | delete in batches | abort midway | the newest scans survive |
| Fix settlement | `packages/fixes/src/settle.ts`, `remediation.ts`, `closure.ts` | walks shared by the questions of one scan | settle, paths, reach, way out | cycles, peer variants, missing packages, walks stopped and resumed | every claim is so by the registry, silence has a cause |
| Registry clients | `packages/fixes/src/registry-client.ts`, `go-registry.ts`, `packages/feeds/src/registry` | registry rows, requests under way, limiter | look up, check a version, record | shared requests, a full limiter, outages taken for absences | answers are what the registry held, the limit holds, a settlement ends |
| Versions, normalisation, HTTP | `packages/versions/src`, `packages/feeds/src` | none | compare, parse, fetch | grammar corners, retries | comparators are orders |
| Command-line scanner | `apps/cli/src` | cache files, meta file, registry cache, lock | plan, sync, read, report, save | runs overlap, die anywhere, differ in version | what is stamped is there and current, answers rest on rows that were read |
| Portal | `apps/web` | none of its own | pages, actions, MCP tools | second writer of the database | requests and switches take effect |

How they interact: the portal and the worker share one SQLite file (requests,
signals, settings, findings). The worker is one JavaScript event loop; SQLite
calls are synchronous, so code between two awaits is atomic with respect to
other tasks of the worker but not with respect to the portal or to the death of
the process. Sources write caches in separate database files that scans read.

The hazards found in this survey are listed with their lines in `PROJECT.json`.

## 2. Modules

| Module | Models | Composition |
|---|---|---|
| `ScanQueue` | queue, poller, worker life, portal's and watcher's enqueues, hold during rebuilds | portal, worker incarnations and lock in one state machine |
| `LockProofs` | theorems about `ScanQueue` and `CliCache` | extends both |
| `AdvisorySnapshot` | abstract: a cache is hidden or one upstream state, moving forward | abstract specification |
| `OsvSync` | OSV seed and incremental pass with upstream, handles, crashes | implements `AdvisorySnapshot` |
| `OsvSyncProofs` | theorems about `OsvSync`, the refinement among them | extends it |
| `GemnasiumSync` | head check, compare, rebuild, purge | |
| `FindingLifecycle` | one project's scans: inventory to settlement, with switches, feeds and lockfiles changing | runner, merge, reconciliation and settlement in one state machine |
| `FindingLifecycleProofs` | theorems about `FindingLifecycle` | extends it |
| `Notifier` | event and delivery ledgers, one pass per scanned project, targets, scopes, mutes | scans, event loop and portal in one state machine |
| `NotifierProofs` | theorems about `Notifier` | extends it |
| `CapabilityBaseline` | the silent baseline: stamps, claim, summaries | sweeps, dispatcher, cache and portal in one state machine |
| `RescanPipeline` | from a cache that lands to the re-scan of what was scanned without it | portal, signals, poller, runtimes, sync loops, batches in one state machine |
| `LandingProofs` | theorems about `RescanPipeline` and `GemnasiumSync` | extends both |
| `CliCache` | the advisory cache several command-line runs share | runs, upstream and operator in one state machine |
| `RegistryClient` | registry lookups of settlements: store, shared requests, limiter, version checks | settlements over one client |
| `RegistryClientProofs` | theorems about `RegistryClient` | extends it |
| `ClosureWalk` | what installing a release brings in, shared by all questions | used by `WayOut` |
| `WayOut` | paths to a vulnerable package, verdict per path, replacements | extends `ClosureWalk` |
| `WayOutProofs` | theorems about both | extends `WayOut` |
| `Discovery` | walk of the roots, reconciliation, re-reading at scan start | passes, batches, portal and disk in one state machine |
| `SweepProofs` | theorems about `Discovery` and `CapabilityBaseline` | extends both |
| `MC*` | constants for TLC | one per component |

Definitions carry the names of the functions they model where TLA+ allows it;
`PROJECT.json` maps each to its lines. Operators commented "Mutant" are changed
forms of the definition that follows them: each stands for a plausible bug and
shows that the properties would see it. They are used by no specification.
Operators that state something false of the code are marked so and listed in
section 4. `TypeOK` of each module holds in the instances below and is left out
of the configurations.

### ScanQueue

Rows (`status`, `scope`, `at`), worker incarnations `1..MaxBoots` with a
`phase`, the `lock`, the claimed `tasks`, the rebuild hold. `Poll` is one tick
of the poller (claim in order of request time, sweeps held during a rebuild),
`Settle` the end of a request, `Boot`, `Shutdown`, `Release`, `Exit` the steps of
`main` and of the shutdown handler, `PortalCheck` and `PortalInsert` the two
statements of the portal's action. A heartbeat may lapse at any time.

- `ScanQueue_queue` (2 requests, 2 incarnations, 1 rebuild): ownership
  (`RunningIsOwned`), `StatusOnlyAdvances`, `ResetOnlyOrphans`, and
  `EveryRequestSettles`. Two requests give a claim with a
  covering sweep queued behind it, two incarnations one crash or drain with a
  successor; the safety properties are proved for any number of each. Fairness:
  timers fire, scanners have timeouts, a supervisor restarts the worker, an
  abandoned lock goes stale, a rebuild ends. It may stop: the last incarnation has
  exited and all requests are used.

### AdvisorySnapshot and OsvSync

Upstream's `history` gives every document's revision at each time; a row in the
cache is named by its revision. A sync is `asking`, in an incremental `pass`
(documents re-read one by one, staged, then published in one transaction) or in
a `seed` that empties the cache and streams the export in batches. `Handle`s are
database handles: a sync belongs to the handle it started on and survives a
switch-off.

- `OsvSync_cache` (2 advisories, 3 times, 2 builds of the normalizer, limits of 1
  and 2 changed documents, 1 handle, 2 faults): `NothingMissed`, with upstream
  moving during a pass and crashes anywhere, between the writes that stamp a
  seed included; `SnapshotsOnly`, that the cache implements `AdvisorySnapshot`,
  the mapping showing a usable cache as its rows at its cursor, except while a
  pass has published documents that moved under it (`mixed`) or the last stamp did
  not get as far as the cursor (`torn`): a crash cut it short, or the export came
  without a Last-Modified header (`FinishUndated`), and the cursor of the seed before
  is left. So no reader sees a cache that is being filled; `CatchesUp`.
  Fairness: cron, answers or timeouts, exports are cut again; faults are finite.

Two advisories suffice for a change split over two states, three times for a
seed, a pass and a change during it, two faults for a failure in the repair of a
failure, two builds for a cache whose normalizer is outdated.

### GemnasiumSync

Commits fix the content of every advisory file. A sync reads its metadata, asks
for the head, then applies a compare or streams the archive over the rows and
purges. `Slots` are syncs that may run together.

A rebuild streams batches (`StreamBatch`), purges in a transaction (`Purge`), then
writes the seed flag, the normalizer version and the commit (`StampSeed`,
`StampVersion`, `StampHead`), each a statement of its own. No other sync runs
between these, as nothing is awaited, but each may throw (`RebuildFails`) and the
process may die (`Restart`) between any two. A rebuild that does not come to record
its commit leaves what it streamed and purged under the commit before, and a rename
leaves the old place in the table: `strays` are the rows this has happened to since
a commit was last recorded, `torn` the purged ones among them.

- `GemnasiumSync_catchup` (2 files with 2 revisions, 3 commits, 2 faults, one sync
  at a time): `RowsMatchSha`, that outside `strays` the rows equal the recorded commit
  between syncs; `LiveAdvisoriesHaveRows`, that an advisory live at that commit lacks
  a row only if it is `torn`, and then some commit upstream has reached lacks it, also
  after broken rebuilds and renames and in the middle of a rebuild; `CatchesUp`, that
  the cache reaches the head. Three commits let one pass while a sync
  runs and one after it; two faults tear a stamp and break the repair. Fairness:
  cron, answers or timeouts; faults are finite.

### FindingLifecycle

The world is `disk` (what each manifest is: gone, unreadable, readable and empty,
or readable with the affected packages), `knows` (what each feed lists) and
`enabled` (the switches). `episodes` is the findings table, per source and
advisory a sequence of rows, oldest first: an index is a row id, and the order of
a sequence is the order of `pickOldestRow`. `scan[k]` is a running scan.

| Action | Code |
|---|---|
| `Begin` | start of `runProjectScanners`: runnable cells and inventory |
| `resolveManifest` | `resolveManifests`, one await per file |
| `SkipSource`, `NoGraph`, `SourceFails`, `SourceAnswers` | one iteration of the source loop, `runOneScanner` with its merge |
| `recordCorroborations` | `recordCorroborations`, `applyFindingCorroborations` |
| `verifyFixes`, `SettlementFails` | settlement after the registry answered |
| `Interrupted` | abort, throwing transaction, end of the process |
| `DiskChanges`, `FeedChanges`, `writeSourceCell` | the operator, the syncs, the portal |

Feed sources match without I/O, so once a scan's manifests are read its sources
and corroborations run without another scan in between (`Turn`); the portal's
switch and the end of the process still come between any two of them. Rows of
older releases (`Legacy`) may be duplicated and name no copies. A scan of an
ecosystem without manifests and open rows, which the code skips, changes nothing
and is not told apart. An unreadable directory counts as unreadable manifests.

- `FindingLifecycle_safety` (1 scan at a time, 2 manifests, 2 sources of
  different grades, 2 changes, 1 fault, any initial world, legacy rows). Two
  changes open, close and reopen an episode; two manifests give a copy behind an
  unreadable one. `TruthAfterScan` is the promise of the component: if every
  enabled source answered and the world held still, what the portal shows is
  exactly what is installed and reported, once, with all its copies and at the
  worst grade, whatever earlier scans left half done.
- `FindingLifecycle_liveness` (2 overlapping scans, a switch mid-scan, a fault):
  `PortalConverges`. Fairness: cron starts scans, the event loop ends them. No
  lockfile is empty here; that case is a finding.

### Notifier

A lane is a scan under way with the pass that follows it. Lanes share the
worker's `thread` and give it up at each await: a pass records and selects
without a pause (`Notify`), then posts group by group, yielding during each
send. The portal's writes come between any two of these steps, one write at a
time.

| State, action | Code |
|---|---|
| `event`, `delivery`, `older` | `notification_events`, `notification_deliveries`, the order of `first_seen_at` and the target's `created_at` |
| `target`, `writes` | `notification_targets` with its two scope tables, and the writes an action has yet to make |
| `StartScan`, `FailScan` | `runProjectScanners` as far as the notifier sees it |
| `Notify`, `Finish` | `notifyForCompletedScan` |
| `NextGroup`, `NextFailure` | `dispatchGroup` up to the send: match events to findings, build the message, record the attempt |
| `Succeed`, `Fail`, `Taken` | `postAndRecord`; the channel may take a message and the answer still be lost |
| `CreateTarget`, `UpdateTarget`, `WriteScope`, `ToggleTarget`, `DeleteTarget`, `Backfill`, `ChangeMute` | the portal's actions |
| `EndBaseline`, `ChangeFinding`, `Crash` | claim of the silent baseline, the world, the operating system |

`Dispatchable` is the selection's SQL, `Eligible` the filters it shares with the
backfill. Not told apart: the prod/dev and cell filters, which act on an event as
the severity filter does; an expired mute and a lifted one, since an expired one
stops matching at once.

- `Notifier_dispatch` (1 finding and its project's failures, 1 target, 2 lanes, 1
  fault, 2 edits): `OnlyToldIsDone`, `FewDuplicates`, `NoBackflood`, and
  `EveryEventIsTold`. `FewDuplicates` counts: `crowd` is the most passes that ever held
  a pair at one time, selected and not yet come to its end; each of them may tell it
  once, and once more per fault. So a pair that no two passes held is told once
  unless a fault repeats it, and two passes that overlap may tell it twice without
  any fault, against the comment in `postAndRecord`: a row of section 4. Two lanes
  give both races between passes, two edits a target
  created and changed, or a grade raised after the first recording. The one target
  may be deleted in mid pass; what that costs the targets after it in the pass takes
  two. Also run by
  hand: 2 targets with 1 lane, 1 fault and 2 edits; 1 target with 1 lane, 2 faults
  and 3 edits; the invariants with 2 targets, 2 lanes, 1 fault and 1 edit.
  Fairness: sweeps keep scanning every project, and since a project's scan may
  find every lane busy again and again this is strong, as is that of a pass, which
  other passes keep from the thread; an action of the portal that began finishes.

### CapabilityBaseline

One capability, hence one baseline. A policy is the set of findings a target's
scope and filters let through; one cache stands for those the capability's scans
read. `sweep[s]` runs from the start of a full sweep to the end of the dispatch
that follows it; `queue` is the chain of promises that lets one dispatch run at a
time. A finding's event is `stamped` or, without a stamp, `single` and told one
by one.

| Action | Code |
|---|---|
| `StartSweep`, `SweepProject`, `RescanProject` | `sweepProjects`, `runBatch`; a single scan |
| `CompleteSweep` | `onCompletedSweep`, `scansWaitingOnACache`, `claimCompletedBaselines` |
| `StartDispatch`, `Pass`, `Attempt`, `SendSucceeds`, `SendFails`, `SendThrows`, `EndDispatch` | `dispatchCapabilitySummaries`, one row per turn |
| `CacheLands`, `SyncSettles` | a download, and what its end says of it |
| `EditTarget`, `AddTarget`, `DeleteTarget`, `ChangeMute` | the portal |

- `CapabilityBaseline_summary` (1 finding, 1 project, 2 targets, 2 overlapping
  sweeps, 2 attempts, 1 fault, 1 edit): `OldNewsIsSilent`, `OneSummary`
  (no target gets two summaries, none is on its way to a row that is settled, and a
  settled row stays as it is), `BaselineEnds`. Two sweeps give a claim
  under another sweep and two dispatches in line, two attempts a retry and a
  surrender. Also run by hand: 2 findings in 2 projects with 1 target, 1 sweep, 1
  fault and 2 edits; 1 target with 2 sweeps, 1 fault and 2 edits. Fairness: sweeps
  start and get through their projects, a dispatch through its rows, a sync
  settles. A channel may fail for ever, a cache may never come.

### RescanPipeline

A cell is a source for an ecosystem, a cache one OSV export or the gemnasium
archive. One project stands for all, since projects share only the sweeps:
`verdict` is what its latest scan said of each cell, `newest` each source's
latest scan. `flight[h][e]` is the sync of one export on one database handle,
shared by whoever needs it; `walk[w]` a sync loop or a batch, both of which visit
ecosystems one by one.

| Action | Code |
|---|---|
| `Switch`, `Signal`, `AskForScan` | the writes of `writeSourceCell` and `turnOnSourceForEcosystemAction` |
| `Boot`, `Shutdown`, `Exit`, `Crash` | `main`, the signal handler, the operating system |
| `EmptyTick`, `Drain`, `Refresh`, `Claim` | one tick of the poller: signals, then a claim |
| `SyncToConfig` | both controllers' function of that name: start (which may throw), stop |
| `CronSync`, `Visit`, `EndWalk`, `WalkThrows` | `runSync` and `refreshWithdrawalEvidence` with the re-scan at their end, or an exception |
| `Discard`, `Land`, `Fail`, `Throw` | `syncEcosystem` and `syncOnce` |
| `GemnasiumSettles`, `GemnasiumThrows` | the gemnasium runtime's sync, which may throw in its `finally` |
| `Scan`, `OtherScan` | a batch over the runnable cells, claimed or not; it may throw after a part of them |
| `Gone` | what dies with the process: a sweep that was claimed is not queued again |

- `RescanPipeline_landing` (2 ecosystems, 1 handle, 1 loop, 1 batch, 1 fault, 1
  trigger, 1 switch, four initial sets of cells): `StaleIsReplaced`: once all is
  quiet no cell that could be answered still says that its cache is not there;
  `TurnedOnIsScanned`, and `ComesToRest`, that no hold is for ever, no loop waits for
  a sync that is gone, and the runtimes end up as the switches say, but for one whose
  last start threw (`threw`): it stays down until the next signal or boot. The two
  invariants make the following excuses and no others, all shown in section 4; a later
  scan or switch of the cell takes them back. All but the one of the silent switch
  require that no sweep waits at that moment. `Forgets` makes both kinds, when a walk or a sync throws that had a re-scan to
  queue (an OSV sync, a loop at its end, gemnasium's sync once its cache has landed) or
  a batch throws, claimed or not: whatever is stale then is `excused`, whatever was
  turned on and can be read is `outrun`. Also `excused`: a cell switched on without a
  scan being asked for, and a verdict that a runtime finds, when it starts, hidden by
  another ecosystem's newer one. Also `outrun`: a cell that a starting runtime makes
  readable. Its sweep was claimed before its signal was drained, or after a start that
  threw, or ended with the process: a crash or a shutdown by itself excuses nothing,
  only the boot after it does, if no sweep waits and the cell is readable at once.
  Two ecosystems give a loop cut
  short between them, one loop and one batch a sync they share, one fault every
  single failure or exception at every point. Also run by hand: 2 switches without a fault.
  Fairness: the portal finishes, a supervisor restarts, the poller ticks, syncs
  and batches end. Nothing is assumed of the cron, whose interval may be days.

### CliCache

`file` and `meta` are the rows on disk and what the meta file says of them, both
reduced to the normalizer that wrote them and the upstream version they are
complete up to; `registry` the registry cache; `cacheLock` the lock file and its age;
`run[r]` a run from its plan to its end.

| Action | Code |
|---|---|
| `Start`, `Decline` | `planSync` and the consent |
| `Acquire`, `Reclaim`, `ReleaseLock`, `Retry` | the lock (`tryAcquireLock`), the second attempt of what failed |
| `Request`, `Commit`, `ItemDone`, `ItemFails`, `StampMeta` | one item of `runSync`, and the merge of the stamps |
| `ReadMeta`, `Load`, `Report`, `Save` | `loadEcosystemCache`, the report, the registry cache |
| `Publish`, `Upgrade`, `LockAges`, `Kill`, `DeleteCache` | upstream, the operator, Ctrl-C at any point |

- `CliCache_shared` (2 runs, 1 OSV export and 2 ecosystems of the archive, 2
  trees, 2 versions, 2 upstream states, 2 starts, 2 registry answers, 1 fault):
  `StampsAreTrue`, `AnswersAreRead` (an answer rests on rows that were read, and
  after a sync that succeeded they are current), `RegistryKeepsNewest`.
  What the code does not promise is named: two holders of the lock at once
  (`doubled`), a cache deleted under a run (`deleted`), two versions at work
  together (`crossed`); a behaviour is followed no further once one of them has
  happened, and section 4 says what each costs. Two runs and one fault give a
  kill or a failure between any two steps of the other. It may stop: every run
  has ended.

### RegistryClient

`held[n][t]` is what the registry held of a package at a time, `store` the rows
of `registry_packages`, `flight[c]`, `queue[c]` and `slots[c]` the requests of a
client and its limiter, `scan[s]` a settlement. `Lookup` and `Look` are the lookup
of a settlement's packages, `Arrive`, `Unreachable`, `Checked` and `Serve` the end
of a request and what the limiter starts next, `Record` the write of the version
checks, `Settle` the end. `Tick`, `Release` and `Push` are time and the registry.
The limiter's hand-over runs in microtasks: `Quiet` says none is due.

- `RegistryClient_lookups` (2 settlements, 1 client, a package and a Go module
  with 2 unlisted versions, 2 slots, 1 check, 2 ticks, 1 release or push):
  `AnswersAreTrue` (an answer is what the registry held when it says, an outage is
  never an absence), `LimitHolds`, `StoreGoesForward`, `EverySettlementEnds`. Two
  slots and four things to ask fill the limiter; two ticks make a row fresh, then
  stale, with a request under way across the change. Fairness: a request ends, at
  the latest by its timeout. It may stop: time and lookups are used up.

### ClosureWalk and WayOut

`world` is what one scan sees: registry, lockfile, roots, advisories. A walk
expands one set of declared edges level by level (`expandLevel`) until a question
has its answer (`reaches`), and the next question takes it up. `WayOut` takes one
finding after the other: `FindChains`, `StartPaths`, `Extend`, `Visit`, `EndWalk`
read the paths best first from one stack per length and count the rest; `Direct`,
`NoData`, `Ask`, `StillReaches`, `Unproven`, `Escapes`, `NoEscape` climb each path
shown and ask release after release of each package on it; `moduleOption` looks at
replacements. Nothing else runs in
between. `StoreFails` is the client's store throwing, on which the scan keeps its
settlements and says that there is no guidance.

- `WayOut_guidance` (4 packages, 3 versions, 4 nodes, 2 findings, 2 paths shown):
  every subset of eight edges of the lockfile with three sets of roots over a
  plain registry, and some 800 registries with missing packages, deprecated
  releases, unresolvable ranges and a replacement that has gone, over one
  lockfile. `ReachIsTrue`, `GuidanceIsTrue` and `PathsAreRight` compare verdicts,
  guidance and paths with their plain definitions (all closed sets of releases,
  the least install, all simple paths); `EveryRequestEnds`. Four nodes hold a
  cycle, a peer variant and a path longer than those shown. `MaxExpansions` is out
  of reach here, as the code's 100,000 is for lockfiles it expects: section 4.

### Discovery

A directory holds manifests and lockfiles (`files`), has permissions (`mode`) and
may be excluded (`ignores`) or lie in a `mount`; `row[r, d]` is the project recorded
at `d` under root `r`. `Seen` is what the worker can list and stat, `Whole` what is
there; one walk serves both. `pass` is a pass under way, `batch` the copies of
projects that wait for their scan. A pass has no await, so it shares the worker with
nothing, but the portal and the disk change between any two of its calls; one
root's walk reads the tree as it is at one moment.

| Action | Code |
|---|---|
| `runFullSweep`, `runRootSweep`, `runSingleProject` | the sweep of the scheduler or of a request, the scan of one project |
| `CheckRoot`, `WalkRoot` | the loop of `discoverProjects` over the roots; `walk`, `claimDirectory`, `detectManifestsInSync`, `withUnreadManifests` |
| `upsertProject`, `deleteProject`, `ListProjects` | what it writes and deletes, and the batch made from it |
| `refreshProjectInventory` | the start of a project's scan |
| `upsertRootAction`, `deleteRootAction`, `setProjectTagsAction` | the portal; a root's label decides its place in the table |
| `Restart` | boot: `discoverDockerRoots`, `pruneDockerRoots` |
| `EditFiles`, `Chmod`, `Ignore`, `Mount` | the disk |

- `Discovery_reconcile` (4 directories, one of them in `MANIFEST_SKIP`, 2 roots, one
  inside the other and the outer one a Docker mount, 3 trees, 2 changes of any
  kind): `OnDiskIsKept`: a row goes only if its root was removed, nothing anchored
  the project when its root was walked, or the pass found it under another root, a
  manifest only if it was not there, and tags only at the operator's hand;
  `RefreshAgrees`; `RosterConverges`: once the disk is readable and nothing changes
  any more, the database holds the projects on disk with their manifests, and no
  others. Two changes give a directory that becomes unreadable and is edited behind
  that, a mount that drops under a pass, a root removed or moved in the table while
  it is walked; the three trees give an npm project with what it owns, npm projects
  nested in another, a workspace. `Steady`, `Overlap`, `Modes` and `MountStates`
  leave out what section 4 lists: `Calm` says so, and the run assumes it. Fairness:
  the worker takes its steps until it is idle (written `[]<>idle \/
  []<><<Worker>>_vars`, which is `WF_vars(Worker)`), and sweeps keep starting.

With one root inside the other, a project is found twice and recorded under the
root that comes last; a request for the other root records it a second time until
the next full sweep deletes one of the two with its history.

## 3. Proofs

TLAPS proves, for any constants satisfying the named assumptions:

- `LockProofs`, of `ScanQueue`: `TypeCorrect`; `QueueInvariant` and `RunningOwned`: the
  inductive invariant says that a serving worker holds the lock, that its tasks
  are exactly the running rows, and that no other incarnation works on them.
  The last two parts are what makes it inductive: a worker that released the
  lock must not share a row with its successor. `BootResetsOnlyOrphans` and
  `StatusAdvances` add that no task outlives the release of the lock, and assume
  that work fits in the grace period (`~MayExceedGrace`).
- `LockProofs`, of `CliCache`, whose specification is `CliSpec` and whose other
  names are kept apart from those of `ScanQueue`, so that one module can extend both:
  `StampsAlwaysTrue` and `AnswersAlwaysRead`, that is `StampsAreTrue` and
  `AnswersAreRead`, when all three excuses are made and an export is as new as the
  list of changes (`~ExportLags`; section 4 has what each costs). Neither property is
  inductive: a stamp is true because the run that wrote it held true stamps before.
  `CacheInv` says while nothing is excused that the lock's holder is alone
  (`HolderInv`), that no row is of a newer normalizer than the runs at work, that what
  a syncing run will stamp is backed by rows and new only where it is its own
  (`StampInv`), that a pass has put in place what it no longer has before it
  (`PassInv`), and that an item planned for a refresh before the lock was taken still
  is one (`PlanInv`): without it a refresh could mix rows of two normalizers. A step
  of one run is then gentle on the others (`Gentle`, `RunKept`): rows only get newer,
  and stamps change only to their own. `RegistryNeverGoesBack`, that is
  `RegistryKeepsNewest`, needs none of this and no assumption: each half carries
  the number of its fetch.
- `OsvSyncProofs`, for one handle on the file (`OneHandle`, since two break it:
  section 4): `TypeCorrect`; `NothingIsMissed`, that is `NothingMissed`;
  `OnlySnapshotsAreShown`, that is the refinement of `AdvisorySnapshot`. What the
  cursor claims is about upstream's past, so the invariant says of the upstream
  history that a document which did not change between two times is the same at
  both (`HistoryInv`), and of a pass under way what each of its steps has made
  sure of: ids listed, documents read again, rows streamed (`FlightInv`). With
  them a usable cache is clean up to now, and of one time unless a pass mixed times
  (`WholeInv`).
- `LandingProofs`, of `RescanPipeline`, for any ecosystems, cells, handles, loops,
  batches, faults and edits: `TypeCorrect`; `StaleIsAlwaysMadeUp`, that is
  `StaleIsReplaced`; `TurnedOnIsSwept`, that is `TurnedOnIsScanned`. Both speak of
  the moment all is quiet, and only an account of who still owes what reaches it: a
  stale verdict that is not excused is owed a sweep that waits, a report by a walk
  under way, a batch's scan or the portal's request (`StaleOwed`), a cell turned on
  and readable the same but for the last (`AskedOwed`). Each exception in the code
  settles by `Forgets` what it leaves owed to nobody (`ForgetsKeeps`); every excuse is
  made by such a step, and `Gone` makes none. The debt passes from hand to
  hand as loops, batches and the poller take their steps, so the rest of the
  invariant says who can hold it: only a walk under way awaits a sync or has
  something to report (`WalkOk`), a sync's owner awaits it (`FlightOk`), nothing is
  readable without its runtime (`DownOk`).
- `LandingProofs`, of `GemnasiumSync`, whose specification is `GemSpec`, for one
  sync at a time (`OneSlot`): `GemTypeCorrect`, `NoLiveAdvisoryIsLost`, that is
  `LiveAdvisoriesHaveRows`, and `RowsAreTheCommits`, that is `RowsMatchSha`. The
  invariant follows a sync from the commit it compares with to the purge: the list
  of changes covers every difference but the old place of a renamed file
  (`ListingCovers`), and the rows a rebuild has marked as seen are those of its
  archive. Both theorems hold in the states between the purge and each stamp, and
  after a failure or a crash there; the exceptions they make, `torn` and `strays`, are
  rows of rebuilds that did not come to record their commit (and old places of
  renamed files), and of what is `torn` some commit already upstream is without it
  (`TornInv`).
- `FindingLifecycleProofs`: `FindingTypes`; `SingleEpisodes`: scans, however
  they overlap, fail or are cut short, never give an identity a second open row;
  `UnreadStays`: a copy is given up only by a scan that read its manifest;
  `DisabledKept`: if nothing is switched during a scan (`~MidScan`), the rows of
  a source that is off are left alone. One inductive invariant carries them:
  types, and for each identity one open row or the two an older release left, of
  which the second has no copies. Types and rows need each other: the oldest
  open row exists because there are at most two. That the second legacy row has
  no copies is what `UnreadStays` needs, since the merge resolves duplicates
  without looking at what they knew. `DisabledKept` adds that a running scan's
  own copy of the switches is the current one, false once `MidScan` holds: the
  first `MidScan` row of section 4. While scans of a project do not overlap (`OneScan`:
  with two, section 4 has a run that breaks both), `TruthTold`, that is
  `TruthAfterScan`, and `EvidenceKept`, that is `SettledOnItsEvidence`. Neither is
  inductive. `LoneInv` follows the scan from what it takes from the world to what
  the table shows. A finding in memory stands for the only open row of its identity,
  as the merge and then the corroboration left it (`HoldsItsRow`); while nothing
  changed since it began, what the scan holds of switches and manifests is what is
  there (`SeesTheWorld`), and its findings are exactly the installed advisories the
  sources that answered know of, with no other open row of such a source once every
  manifest was read (`FindsWhatIsKnown`). A second scan breaks the first of these: it
  rewrites rows that the other still takes for its own.
- `SweepProofs`, of `Discovery`, whose specification is `DiscoverySpec`, for any
  finite set of roots in any tree of directories (`TreeAssumption`: every set of
  them has a topmost one). `Above` and `Claims`, defined from parent to child, are
  shown to be well defined, and what holds of a directory when it holds of its
  parent holds of all (`TreeInduction`). `RefreshAlwaysAgrees`, that is
  `RefreshAgrees`: a walk that begins where another found a project decides as the
  other did on every directory below, since what is brought down to a project's
  start makes no difference there (`SubWalk`). `OnDiskIsAlwaysKept`, that is
  `OnDiskIsKept`, in `Calm` weather: each of its conditions is a row of section 4
  that breaks the property. Where the worker can see, its walk and that of the whole
  disk agree (`SameClaims`), and where no error lies on the way it sees
  (`SeesDown`); so what is recorded and on disk is found again or kept for the error
  that hides it (`KeepsWhatIsThere`), and a walk without errors misses no project
  (`FindsAll`). `KeptInv` carries this from the walk to the writes: everything found
  holds what is on disk of what was recorded (`FoundOk`), a root walked to its end
  has nothing that was not found (`AllFound`), rows are still as recorded unless the
  pass or the portal changed them (`RowsAsRecorded`), and a batch's copies are what
  the rows say (`CopiesHold`).
- `SweepProofs`, of `CapabilityBaseline`: `OldNewsStaysSilent`, that is `OldNewsIsSilent`. That
  no old finding is told by itself is not inductive: a claim must already know
  every old finding stamped. `SilenceInv` says so of each sweep under way: while
  the baseline is pending, the old findings are stamped but for those of projects
  the sweep has yet to scan, could not scan or scanned without a cache
  (`AnsweredIsStamped`). A sweep that may claim has nothing left of the first kind,
  and the rest is excused (`ClaimedIsComplete`); stamps are never withdrawn
  (`StampsAreFinal`). `SummariesAreSingle`, that is `OneSummary`: the dispatch that runs
  is first in the queue (`QueueInv`), so no other has anything in hand, and what it
  has ahead of it was never sent: its row is open, or went with a target that does
  not come back (`Waits`). Rows are opened once, by the claim, before which there is
  nothing to dispatch.
- `NotifierProofs`, for finitely many overlapping passes (`FewLanes`): `DoneIsTold`,
  `DuplicatesAreFew` and `HistoryIsAskedFor`, that is `OnlyToldIsDone`,
  `FewDuplicates` and `NoBackflood`. No pass knows of the others, so the invariant
  counts for each pair of event and target, with `crowd` the most passes that held it
  at one time: messages taken, plus passes that still
  have it before them, are at most the crowd times one more than the faults; and a
  live pair that is not done was taken at most crowd times faults often
  (`PairOk`). The second part pays for the passes that may read the pair again
  after a fault. That more passes than ever can only hold it right after a selection
  (`Grown`) is why the crowd need be counted only there. `HistoryOk` and `SentOk` tie what is on its way to its row, which
  an edit or a deletion of the target may take away.
- `RegistryClientProofs`: `LimitIsKept`, that is `LimitHolds`, and `NoIdleSlot`: what
  does not run waits in the queue, and only while every slot is taken. A client's
  limiter is a function of its requests, queue and count (`Limiter`), which each
  submission and each end preserves (`SubmitKeepsLimiter`, `FinishKeepsLimiter`); that the
  queue holds each waiting request once and is empty while a slot is free makes it
  inductive. `StoreNeverGoesBack`, that is `StoreGoesForward`, for one client
  (`OneClient`: two fetch apart, see section 4): a request under way began from the
  row there is, and an answer it holds is no older than that row (`Current`).
  `AnswersTrue`, that is `AnswersAreTrue`, for any number of clients: `AnswerInv` says
  of every row, request, reply, answer and check what it claims of the registry and
  of when. A reply the clock has overtaken is of the tick before, and only of that
  one, since a request is given one tick; and what a registry held at a time, or a
  version's push, is the same later (`Later`), so each claim needs checking only where
  it is made.
- `WayOutProofs`: `NoIsAlwaysProven`, `YesIsAlwaysWitnessed`, together
  `ReachIsAlwaysTrue`, that is `ReachIsTrue`: for any registry and any order of
  questions. The invariant is `WalkIsSound` of each walk: every dependency met is
  answered among the nodes, lost, or still in the frontier, and an install of the
  release holds all nodes; the verdicts kept were true of the walk when given and
  stay so, since a walk that grows keeps its nodes and the world is fixed. From a
  walk without frontier or losses its nodes are the install a no needs.
  `GuidanceIsAlwaysTrue`, that is `GuidanceIsTrue`, for any finite registry and any
  lockfile, roots and replacements a scan may be handed (`ScanInput`): the least
  install of a release, `Install`, is closed, because its levels grow and must
  settle in as many steps as there are releases (`InstallIsClosed`), so a verdict
  on a release is one on its least install (`VerdictOnInstall`). Its invariant
  `GuideInv` adds to the walks that what waits on the stacks or is shown is a path
  of the lockfile, and what a climb knows at its level (`ClimbIsTrue`): each newer
  release tried there holds the package, and either no level left has an escape or
  the one below has one that the installed release here does not admit. Each step of
  a climb keeps it or ends in a verdict that follows from it; an unknown comes of a
  package without an answer, an unresolved range or an edge that the registry does
  not declare.

Only model-checked: everything under fairness (the prover treats neither
fairness nor `ENABLED`), and of `WayOut` `PathsAreRight`, whose reference counts paths
with a recursion over the lockfile and which a walk cut at its limits does not have.

## 4. Where code and text disagree

Each of these is seen by changing the constants of a run as below. They are the
preconditions that the passing runs make explicit, and no claim above holds
without them.

| Start from | Change | Violated | What happens |
|---|---|---|---|
| `ScanQueue_queue` | `MayExceedGrace = TRUE` | `ResetOnlyOrphans` | a drain that outlasts its grace releases the lock under running tasks; the next boot fails their rows (`worker.ts:276` against the comment at 69) |
| `ScanQueue_queue` | invariant `OneRequestAtATime` | it | the poller's interval starts a second request while one runs (`poller.ts:54` against `osv-runtime.ts:433`) |
| `OsvSync_cache` | invariant `PassesAreWhole` | it | documents changed during a pass are published beside older ones (`osv-sync.ts:214` against 195) |
| `OsvSync_cache` | invariant `StampIsWhole` | it | a crash between the writes that stamp a seed leaves the old ETag and cursor on an older export (`osv-sync.ts:132`), an export without a date the old cursor (`osv-sync.ts:134`) |
| `OsvSync_cache` | `Handles = {h1, h2}` | `SnapshotsOnly` | off and on again: two syncs on one file, one stamps while the other streams (`osv-runtime.ts:457` against `osv-sync.ts:97`) |
| `GemnasiumSync_catchup` | invariant `NoStrays` | it | a broken rebuild leaves newer rows under the older commit (`gemnasium-sync.ts:175` against 187); a renamed file's old place keeps its row, as only `new_path` is read (`feed.ts:151` against `gemnasium-sync.ts:127`) |
| `GemnasiumSync_catchup` | invariant `NothingIsTorn` | it | a rebuild purges for its own commit and records it several statements later: a crash or a failing write in between leaves an advisory that is live at the recorded commit without a row, while the cache stays usable (`gemnasium-sync.ts:180` against 191); if upstream adds the file again, unchanged, before the next sync, the compare does not list it and it stays without one until the next rebuild or change of it |
| `GemnasiumSync_catchup` | `Slots = {1, 2}` | `LiveAdvisoriesHaveRows`, `RowsMatchSha` | the first of two rebuilds purges what only the second has streamed (`gemnasium-runtime.ts:228`) |
| `FindingLifecycle_safety` | `MidScan = TRUE` | `DisabledKeepsFindings` | a source switched off during a scan answers for an empty project, which resolves all its findings (`osv.ts:85`, `runner.ts:148` against `sources.ts:65`) |
| `FindingLifecycle_safety` | `Slots = {k1, k2}` | `TruthAfterScan`, `SettledOnItsEvidence` | an older scan merges and settles over the rows a newer one rewrote (`findings.ts:636` against 137) |
| `FindingLifecycle_safety` | action property `FailureLeavesAgreement` | it | a source that fails loses its agreement on other sources' rows (`runner.ts:375` against 535) |
| `FindingLifecycle_safety` | invariant `RemovedDisappears` | it | findings of the last removed package stay open: a lockfile that became empty gives no graph to match (`resolver/index.ts:143`), hence a scan without an answer (`osv.ts:65`) |
| `FindingLifecycle_safety` | invariant `NoLockfileMeansNone` | it | a lockfile with no packages is called no lockfile (`coverage.ts:12` against 6) |
| `Notifier_dispatch` | invariant `OnlyFaultsRepeat` | it | the passes of two overlapping scans of a project select a pair before either has recorded its success, and each sends it: a duplicate without any crash (`notifier.ts:119` against 279, "at most one duplicate per target") |
| `Notifier_dispatch` | `Findings = {f2}`, `Silent = {}`, `Projects = {p1, p2}`, `Roots = {rootA, rootB}`, `Scopes <- MCScoped`, `Lanes = {l1}`, `MaxFaults = 0`, invariant `ScopeNeverHalfApplied` | it | between the writes that create or edit a target it has no scope rows, which means everything, and is told of any project (`settings.ts:251` against `notification-target-roots.ts:41`) |
| `RescanPipeline_landing` | invariant `StaleIsAlwaysReplaced` | it | a sync that throws ends its loop before the re-scan (`osv-runtime.ts:381`); gemnasium's status write in the `finally` throws once the cache has landed and the re-scan after it is never queued (`gemnasium-runtime.ts:233`); a claimed sweep whose batch throws is marked failed and not queued again (`scan-request-poller.ts:102`); a cell switched on from the settings asks for no scan; and when a runtime starts another ecosystem's newer row hides a stale one (`scans.ts:77`) |
| `RescanPipeline_landing` | `MaxEdits = 2`, `MaxFaults = 0`, invariant `TurnedOnIsAlwaysScanned` | it | the waiting sweep is claimed before the signal that turns the language on is drained (`settings.ts:440`) |
| `RescanPipeline_landing` | `MaxFaults = 2`, invariant `TurnedOnIsAlwaysScanned` | it | a runtime's start throws and its sweep runs without it; once it is up the cache is readable already, or becomes so by a sync that throws, and no other sweep is asked for (`osv-runtime.ts:381`) |
| `RescanPipeline_landing` | invariant `TurnedOnIsAlwaysScanned` | it | the sweep that was asked for is claimed and then lost: its batch throws (`scan-request-poller.ts:102`), or the worker dies or gets SIGTERM and the next boot sweeps only if one is overdue (`worker.ts:180`) |
| `RescanPipeline_landing` | invariant `RuntimesAlwaysFollow` | it | a runtime whose start throws stays down, its source on, until the next signal or boot (`gemnasium-runtime.ts:64`, `osv-runtime.ts:105`) |
| `CliCache_shared` | `"doubled"` left out of `Excused` | `StampsAreTrue`, `AnswersAreRead` | two runs hold the lock, one of them old or reclaimed twice, and stamp each other's rows |
| `CliCache_shared` | `"deleted"` or `"crossed"` left out | also `AnswersAreRead` | a run stamps a file that was deleted under it, or that another version replaced |
| `CliCache_shared` | `ExportLags = TRUE` | `StampsAreTrue` | the cursor is taken from the list of changes, the rows from an export cut before |
| `RegistryClient_lookups` | `Clients = {c1, c2}`, `ClientOf <- MCTwoClients` | `StoreGoesForward` | two batches have a client each: requests for one package are not shared and a slow answer lands over a newer one |
| `RegistryClient_lookups` | property `PublicationsAreKept` | it | a check known to one settlement is lost when another's list replaces the row (against `go-registry.ts:18`) |
| `WayOut_guidance` | invariant `BlockedAdmitsNone` | it | a newer release of the blocking package may admit the escape and still reach the package another way (against `core/src/remediation.ts:47`) |
| `WayOut_guidance` | `MaxExpansions = 4` | `PathsAreRight` | a walk cut at the limit is not the shortest paths: the code's cap of 100,000 expansions |
| `Discovery_reconcile` | `Steady = FALSE` | `OnDiskIsKept` | a mount that drops between the two `existsSync` walks as empty without an error and all its projects are deleted (`packages/scanners/src/discovery.ts:126` against `apps/worker/src/discovery.ts:39`); tags set during a pass are overwritten by it (`apps/worker/src/discovery.ts:108` against 103) |
| `Discovery_reconcile` | `"bare"` in `MountStates` | `OnDiskIsKept` | an empty mount point is a root that was walked: everything is deleted (against `apps/worker/src/discovery.ts:122`) |
| `Discovery_reconcile` | `{"read"}` in `Modes` | `OnDiskIsKept` | a directory that lists but cannot be entered hides its own manifests without an error (`resolver/index.ts:176` against `packages/scanners/src/discovery.ts:220`) |
| `Discovery_reconcile` | `Mounts = {top, app}` | `OnDiskIsKept` | a mount below a root that goes away takes what was in it along, as an absent directory is no error |
| `Discovery_reconcile` | `Overlap = TRUE`, `MaxChanges = 3`, one root | `OnDiskIsKept` | a batch's older copy rewrites the manifests another pass recorded behind a directory that is now unreadable (`apps/worker/src/discovery.ts:142`) |
| `CapabilityBaseline_summary` | invariant `AttemptsWithinBudget` | it | an attempt whose outcome a crash or a throwing transport lost is followed by another, past the budget (`capability-baseline.ts:113` against 102) |

## 5. Not modelled, and what is assumed

- npm-audit's own audit: an external tool and its report; to the findings it is
  a source with the outcomes of one.
- The rule that some cell stays on: a check of the settings form. The models
  allow every set of switches.
- Of discovery: names, branches and Node versions, `ALWAYS_SKIP`, depth limits,
  the order of ignore rules within a file, changes of the tree while one root is
  walked. Batches that overlap a pass are a row of section 4.
- The watch set, the scheduler's timers and the reading of settings: file system
  and cron, of which the models keep the enqueues and sweeps they lead to.
- Retention: it keeps the latest scan, and the latest successful one, of every
  cell, which is all the models read of scans.
- The journal of lifted mutes: a sweep writes the journal row, then deletes the
  mute; a crash in between lifts it twice in the journal. Nothing reads it but a
  page.
- Versions and ranges as text, lockfile and advisory formats, normalisation:
  comparators and parsers over strings. The models take versions in order and
  ranges as the sets they admit.
- HTTP: its retries end as answers or failures in the models of its callers.
- The choice of a fix among several ranges, weekly downloads.
- Pages, MCP tools, the report of the command-line scanner, translations, the
  marketing site: rendering.
- The database engine and its migrations.

Assumed: a live worker keeps its lock (the lock package refreshes it from a timer
outside this code; a process stalled past its limit could lose it), and an
upstream export is never empty (an empty one would be stamped complete over the
rows it found). A document that yields no rows, removed from the feed or not to be
parsed, is `Absent` in `OsvSync`: assumed is that an export entry fails to parse
(`feed.ts:191`) only where the document does, and that a document keeps yielding
what it yields until its next change. Where a damaged entry of an export stands for
a sound document, its rows are missing until it changes upstream or the next seed.
