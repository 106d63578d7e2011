# A verification project for go-mivia

go-mivia is a local server that indexes projects, follows their files, and
serves the index, work plans and automation runs to coding agents over HTTP and
MCP. These modules model its concurrent and stateful parts in TLA+, check small
instances with TLC and prove the central invariants for every instance with
TLAPS. Everything is translated from the Go source under `src/`; line numbers in
`PROJECT.json` ("map") say which lines each definition stands for.

## 1. Inventory

`internal/...` is `src/internal/...`.

| Component | State | Operations | What is hard |
|---|---|---|---|
| Ingestion scheduler (`projectingestion/scheduler.go`) | two bounded channels, per project `active`, `projectWideActive`, `projectWidePending` and a `changed` channel; stored runs | Submit* (asynchronous, synchronous, path), worker pool, Stop, restart recovery | workers and callers interleave between lock, channel and store; wakeups; a full queue; cancellation; crash |
| File index (`projectingestion/service.go`, `graph_store.go`, `search_store.go`, `sqlite_store.go`) | three stores per file: state row, content graph, search rows | IngestPath, full scan (walk, file workers, result loop, batches, tombstones) | three writes that are not one transaction; files change meanwhile; overlap of tasks; failures and crashes between writes |
| Live watcher (`orchestrator.go`, `watcher.go`) | notification queue, events, rescan token, pending paths, task queue | watchLoop, debounceLoop, workers, adding watches | every queue may overflow; content is read long before it is stored; new directories; restart |
| Extraction and safety (`extractor.go`, `chunker.go`, `safety.go`, ...) | none | pure functions of file contents | parsers; out of scope |
| Search index rebuild, queries and search routing (`service.go`, `search_store.go`, `query.go`, `search_router.go`) | search rows, a degraded mark | RebuildSearchIndex; reads | repairs go through the writes of a path task while files change, fail and crash |
| Work Plans and Work Tasks (`projectworkplan/`) | tasks (status, claim, references), attachments | status changes, claims, attachments, scope expansion | read, check and store without compare-and-set; completion gates; chains of legal calls |
| Automation (`projectautomation/`) | runs, attempts, leases | submit, claim, heartbeat, complete, requeue, reconcile | leases against slow runners, retries, claims across two stores |
| Automation runner (`cmd/mivia-automation-runner`) | worktrees, processes | polls, executes, reports | client side of leases |
| GitOps (`projectgitops/`) | branches, pull requests | post-task step | a step that fails after the work is done |
| Workflows, chains (`projectworkflow/`, `projectworkflowchain/`) | definitions, chain progress | compile, advance | a step graph compiled to dependent tasks |
| Integrations (`projectintegrations/`) | poll runs, cursor, single-flight keys | submit, poll, stop | stop against submit; cursor against failure |
| Graph storage (`platform/ladybug/`) | lazily opened stores, leases | open, lease, evict, close | graphs are looked at one at a time while others lease, open and close them; a closer waits for leases |
| SQLite storage (`platform/sqlite/`) | tables | transactions | writes serialized under one mutex |
| Workspace (`projectworkspace/`) | files on disk | token-guarded edits | several clients on one file |
| Agent activity (`agentactivity/`) | ring of events, subscribers | record, subscribe | a subscriber leaves while an event is sent to it |
| Agent runs, research; evidence, confidence, knowledge, reliability | records | create, update, list | bounded records; no decision of the other parts reads them |
| Registry, digest, context packs, configuration, control surface, dashboard | loaded once, or none | reads; HTTP and MCP handlers | start and stop order of `main.go` |

How they interact. `main.go` opens the stores, fails the runs that a previous
process left pending or running, starts the scheduler and the live orchestrator,
submits recovery scans, and stops them in reverse. HTTP and MCP handlers and the
orchestrator call the scheduler's Submit*; a worker of the scheduler calls the
ingestion service, which reads files and writes the stores. Orchestrator workers
wait for the scheduler's answer. Automation claims runs for runners, moves Work
Tasks, and calls back into itself when their status changes.

What makes each part correct:

- scheduler: project-wide tasks run alone and ahead of path tasks, limits hold,
  counters agree with the tasks behind them, no wakeup and no task is lost, every
  stored run settles and belongs to a live submission, restart recovers;
- file index: a completed scan repairs what any failure, crash or overlap left
  behind, and removes exactly the files that are gone;
- search index rebuild: when it completes the search rows go with the file states, and
  the graph has lost nothing;
- live watcher: a changed file is always covered by something that will index
  it, the index catches up, and so it does after a restart;
- Work Tasks: no illegal chain of transitions, completion only with its gates, a
  task that was given back can be claimed;
- automation: one runner per run, one outcome per attempt, finite retries;
- integrations: one poll at a time per provider, no run left pending after Stop;
- graph leases: no store is closed under a lease, at rest at most `maxOpen` stores are
  open, closing ends and is final;
- activity stream: no send to a closed channel.

`PROJECT.json` lists every component with its status and every hazard at its
line, with the property that covers it or the reason why none does yet.

## 2. Plan

Modules, most important first. Done:

1. `IngestionScheduler`, with `TaskAdmission` as its abstract specification, and
   `IngestionSchedulerProofs`.
2. `FileIndex`: the three stores under path tasks and scans, and
   `FileIndexProofs`.
3. `LiveWatcher`, which extends `FileIndex` with the queues that feed it, and
   `LiveWatcherProofs`.
4. `TaskLifecycle`, the transition table and the gates of a Work Task, and
   `WorkTasks` over it: claims and attachments under overlapping calls, and
   `WorkTasksProofs`.
5. `AutomationRuns` over `TaskLifecycle`: claims, leases, heartbeats, reports,
   recoveries, replacements, with `RunSuccession` as its abstract specification,
   `AutomationRunsProofs` and, for what depends on `claimMu`, `AutomationOwnershipProofs`.
6. `GraphLeases`: lazy opening, leases, eviction and closing of the project graphs,
   and `GraphLeasesProofs`.
7. `SearchRebuild`, which extends `FileIndex` with rebuilds of the search index, and
   `SearchRebuildProofs`.

Left, in this order:

8. `ActivityStream` and `IntegrationPolls`, one small module each.
9. The plan of several tasks: dependencies, `GetNextWorkTask` and the workflow
   compiler as an operator against its definition.

Every safety property of the runs is the subject of a theorem now. Left:
`ReplacementsCapped` with clients that submit runs and operators that rerun the task,
where no run is tried again (`automation_clients` checks it, `ReplacementsStop` proves it
without either); and which of the properties of the automation survive `ListRuns`, beyond those of
`AutomationRunsProofs`.

## 3. Modules and their correspondence to the code

Operators marked "Faulty" in a module are variants of the definition that
follows them with a plausible bug. No specification uses them; each shows that
some property notices the bug.

### IngestionScheduler

One action is one critical section of `scheduler.mu`, one channel operation or
one write of a run record. `Tasks` are submissions: `phase[t]` follows one through
`SubmitFullScanAsync` (`Admit`, `PrepareProjectRun`), `enqueueTask`
(`RegisterPendingProjectWide`, `Enqueue`, `QueueFull`, `CallerCanceled`,
`UnregisterPendingProjectWide`), its caller's error path (`FailPreparedRun`) and
the worker that takes it. `pc[w]` is the place of a worker in `nextTask` (`Poll`,
`TryFull`, `TryLive`, `Select`) and `runTask` (`TryAcquire`, `Park`,
`CancelAcquire`, `AbandonTask`, `FailAbandonedRun`, `BeginRun`, `FinishRun`,
`Checkpoint`, `ReleaseProject`). The `changed` channel is the set of workers `parked` on the
project: capturing it under the lock and waiting outside is one step, because
`close` in between is still observed. `run[t]` is the stored status; `Exit` loses
everything else, and `Boot` is `main.go`: `FailInterruptedRuns`, a new scheduler,
and recovery scans if there was anything to recover.

Abstracted: what a task does while it executes; the trigger; an error a caller
gets. These store writes fail in the model, and no others: any write of a run under a
cancelled context; the checkpoint of `PrepareProjectRun`, after which the pending run
stands; and what follows the write of a completed rebuild (`Checkpoint`): when the last
checkpoint of `executeSearchIndexRebuild` fails, the run that was stored as completed
is stored again, as failed. `Rebuilds` are the prepared tasks that end so.

`TaskAdmission` says what the gate promises, without channels, workers and
counters. `IngestionSchedulerProperties` holds the properties and the refinement
mapping, `MCIngestionScheduler` the instances.

### FileIndex

`disk[f]` is the content and modification time of a file, `state`, `graph` and
`search` what the three stores have of it. A content is eligible or not (secret,
binary, denied, symbolic link: all are skipped). A path task goes through `Lstat`,
`Read` (`prepareExistingFile`), `SaveState`, `SaveGraph`, `SaveSearch`; the file may
change between any two. A scan is the record `scan`: the walk (`WalkFile`,
`WalkGoneFile`), the file workers (`PrepareFile`), the result loop
(`SaveBatchStates`, `SaveBatchGraph`, `SaveBatchSearch`, `FailBatch`) run concurrently.
`WalkUnreadableDirectory(D)` is the walk at a directory that it cannot read: the directory
is recorded as skipped, the walk goes on and succeeds, and the files below it, `D`, are
not visited (`scan.hidden`), so that they count as missing although they exist. It uses up
one of `MaxFailures`, and `D` is any set of files not yet visited.
`BeginTombstones` waits for all, then `FirstPage` and `NextPage` list present states
in the order of their path hashes (`Place`), and `TombstoneState`, `TombstoneGraph`,
`TombstoneSearch` remove one file of the page at a time. `FailPath`, `FailBatch` and `FailScan` are store writes that fail,
`IndexCrash` the death of the process. `touched` is a history variable.

Each store write is atomic, as it is with a persistent project graph (one Pebble
batch per file or batch of files) and SQLite (one transaction); the several
writes of a tombstone to the graph, and of a file that a rebuild finds absent, count as one. Outside a transaction of that
kind nothing is. Merged: the rows of a file and of its version in the search
store; a file whose stat fails in the walk is saved with the batch. A batch may
be flushed at any size. The unreadable directory itself, whose row has a path of its own,
is no member of `Files`. Left out are files in directories that the project excludes: the
walk never enters one (`SkipDir`), but a path task that names such a file records it as skipped
(`service.go:1225`), and the next scan tombstones this record. Every change gets a new modification time: a change
within the clock's granularity that keeps the time is not modelled.

### SearchRebuild

Extends `FileIndex` with `rebuild`, whether a rebuild runs and which files it has still
to repair. `BeginRebuild` is the transaction of `ReconcileSearchIndex`: search rows of no
eligible file go, and the eligible files whose rows are not those of their state are
listed (`NeedsRepair`). `RepairFile` takes one at a time and sends it through the steps of a
path task; `RepairGraph` stands for `SaveGraph`, because `saveSearchIndexRepairResult`
never asks whether a result is unchanged and would replace the chunks of such a file by
none. That it never meets one is what `RebuildRepairs` says of the graph, and it rests on
`searchFileNeedsRepair` and the check of search rows in `metadataUnchangedFile` and
`fileVersionUnchanged` agreeing. `FailRebuild` is a write that fails (between two files a
failure is as a crash there). `FinishRebuild` stores the run as completed, or fails to;
then the mark is cleared and the storage checkpointed, where `FailCheckpoint` stores the
run again, as failed, and `ReturnFromRebuild` ends the task. `rebuild.run` is the stored
status. Files are repaired in any order.
Left out: the degraded mark, which only queries read; the time of modification that a
repair keeps for an absent file; empty files, which have no rows and need none.

### LiveWatcher

Extends `FileIndex`. `ChangeFile` edits a file and, where its directory is
watched, appends to the operating system's queue or sets the overflow error.
`HandleWatchEvent` and `HandleOverflow` are `watchLoop`; `ReceiveRescan`,
`ReceiveEvent`, `TimerFires`, `EnqueuePath`, `EndFlush`, `EnqueueRescanTask` are
`debounceLoop`; `Submit`, `Begin`, `Execute`, `IngestDirectory` a worker. While it waits
for the scheduler, the worker stands for the scheduler's worker that executes its
task: there is a worker for every submitted live task and the gate admits as in
`IngestionScheduler` (a rescan alone and ahead of paths). `Crash` and `Boot` restart
the server, with `initial_scan_on_start` set (its default is off, and then nothing
repairs what changed while the server was down).

### TaskLifecycle and WorkTasks

`TaskLifecycle` holds what `projectworkplan/service.go` decides about one task as
operators: the transition table, whether a call is `Permitted`, the `Changed` task
it makes, and `MayBeDone`, the gates of completion. `WorkTasks` and `AutomationRuns`
both extend it.

In `WorkTasks` there is one task, its attachments, and `call[c]`: the operation that caller `c` (an agent's
request, the automation service or the compiler) has in progress. A caller reads
the task, decides and later writes the whole task back, so a call is split where
the code goes to the store again: `BeginTransition` (read, checks, assignments of
`transitionTask`), `CheckReviews` (`validateIndependentReviewRefs` on the attachments
stored by then), `Put` (`UpdateWorkTask`); `BeginExpandScope` and `Put`; `BeginAttach`
(first read), `Reread` (the store's own read), `StoreAttachment` (the store's batch:
the attachment and the task it read), then `addAttachmentRef`'s `Put` of the copy of
the *first* read. `Abandon` is a store error or the end of the server between two
of these steps. A call that is rejected, or a stale release that returns the task
unchanged, changes nothing and is no step. `stale` is history: the task has
changed since the call read it.

`Init` is a task as `CreateWorkTask` makes it; the compiler, which writes its tasks
once more when it knows their dependencies, may still have that write before it.
Abstracted: texts, times, evidence, context and knowledge refs (a call that only
adds one still writes its copy), owner and trace; that a blocked task needs a
reason and resume instructions (callers pass both); the identity of attachments
beyond kind, ref and run.

### AutomationRuns

The runs of one automatic automation on one task, the calls in progress and what
each external runner knows. A call is a record of its place (`at`), the phase it is
in and the copies it holds. `ClaimPhases` is the body of `ClaimNextRun`: every
reconciliation that comes before a claim, in order, some of them twice; `ListPhases`
that of `ListRuns`. `List` reads the runs of a phase, `Each` takes the next copy with
the task as it is now and decides (`StartingStep`, `RunningStep`, `VerifyingStep`,
`ProgressedStep`, `RecoverStep`, `PrepareStep`); then one step per write: `Put`
(`UpdateRun` with `shouldPreserveExistingRun`), `Recheck`, `Release`, `Queue`, `Create`,
`Block`, `Claim`, `Start`, `Grant`, `Close`, `Reply`. `Heartbeat`, `Report` and `Durable` are
`HeartbeatRun` and `CompleteAttempt`; `BeginClaim`, `Heartbeat` and `Report` take `claimMu`
(`Locked`), `BeginList` and `Submit` (`RunNow`) do not. `AgentMoves`, `Reviewed`, `Operator`
are the environment; `RunnerDies`, `Cut` (a cancelled request or a failing store
between two steps) and `Restart` the faults. Time is `stamp`, the last claim or lease
issued, and `now`, up to which leases have run out.

`RunSuccession` is what this comes to: runs enter one after the other, each when every
earlier one is over, are executed and put back a limited number of times, and stay
over. `Stage` maps a run by its status, category and attempts: to be started or tried
again (`Pending`) is "waiting", `running` is "executing", and what may not be tried again,
a `verifying` run too, is "over".

`replacementRetryLimitReached` counts the runs that failed for good (`Counted`). A task
that lists an orchestrator's run id (`orchestrator-requeue-`, `orchestrator-system-fix-`: an
operator's `"rerun"`) is `marked`, and then only failures after its `UpdatedAt` count.
`forgiven` are the failures before its last write: `Refresh` sets it at every write of a
marked task, be it the operator's, a claim, a start or a release. The count goes by the
copy of the task that the call holds, so a call notes which failures that copy forgives
(`pardoned`). Writes of the task that the model does not have, such as a change of its
scope, would forgive more.

Abstracted: the runs of a phase come in any order, not by `UpdatedAt`; phases that
find nothing are passed over in one step; several lists of one phase are one read;
the calls of the task service are atomic (`WorkTasks` has their interleavings); the
closeout check of the runner comes with its report; a task needs no GitOps step.
`CreateRun` fails once there are `MaxRuns` runs, claims and heartbeats once there are
`MaxStamps` stamps (`Refused` names the runs that only this bound keeps waiting, and
the liveness properties leave them out).

### GraphLeases

`open`, `leases` and `closing` are the fields of every `LazyPebbleGraph`; each step is one
critical section of one graph's mutex. An operation (`withGraph`) is `Acquire`, `Release`
or `Panic`, and then `enforce`: `Lock` takes `lru.mu` (`holder`), `Count` and `Counted` are
`openCountLocked`, `Consider` and `Considered` are `oldestIdleLocked`, `Evict` and
`EvictFails` are `closeIfIdleLocked`. `CloseAll` copies the graphs (`BeginCloseAll`) and
closes one after the other (`CloseNext`), waiting on a graph's condition (`"wait"`, woken by
`Waking`, checked again by `CloseWoken`).

Abstracted: what an operation does with the store; `lastUsed`, since `enforce` compares
times it has read at different moments, so that any idle graph it has seen may be its
victim; an `acquire` that fails, which changes nothing; `register`, which precedes all
operations.

## 4. Runs

| Run | Asks | Instance |
|---|---|---|
| `scheduler_gate` | is the gate right in every interleaving: exclusion, limits, counters, wakeups, no task lost, what a blocked pool looks like; are paths held behind project-wide work; does the scheduler implement `TaskAdmission` | 2 workers, 2 projects, an asynchronous scan, a synchronous rebuild, 3 path tasks, channels of one slot, limit 1 |
| `scheduler_restart` | stop, crash and one restart: stored runs belong to work in progress, settle, never move back but for a rebuild whose last checkpoint fails; workers leave; recovery happens | 2 workers, an asynchronous rebuild, a recovery scan, a path task, limit 2, one restart |
| `file_index` | do the stores stay well formed; are only missing files, and those below an unreadable directory, tombstoned; does a completed scan repair an existing file that its walk could reach, and a completed rebuild the search rows, whatever happened before | 2 files, 2 eligible contents and an unsafe one, 2 overlapping path tasks, scans and rebuilds, 2 changes, one failed step or unreadable directory, crashes, pages of one state |
| `live_catch_up` | is a stale file always covered by something that will index it; does the index catch up and do the queues drain, after a crash and a start with a scan too | 2 files, one in a directory created meanwhile, 1 worker, 2 changes, queues of one slot, one restart |
| `work_tasks` | do the completion gate, the order of the lifecycle and the release of claims survive any overlap of calls; does a write that nothing overtook follow the lifecycle | 2 callers, one of which attaches, 2 runs, 1 ref, calls for ready, claimed, in progress and done |
| `automation_runs` | is one run at a time executed; do runs succeed one another as `RunSuccession` says; does a runner lose its run only when its heartbeats stop; does every run settle and the task move on | 2 runners, one of which may die, 2 runs of 2 attempts, 2 stamps, fairness |
| `automation_clients` | is completion earned and do replacements stop at their cap, counted anew after an orchestrator's rerun, with calls outside the mutex and any fault | 1 runner, 1 client, 2 runs of one attempt, cap 1, reruns, a lost call, a dead runner or a restart |
| `graph_leases` | is a leased store open, the limit kept at rest, closing final; do `enforce` and `CloseAll` end | 3 graphs, limit 1, 2 operations that repeat, 1 closer, one panic or failing close, fairness |

Runs that refute a statement found in the repository (section 5):
`scheduler_pool_blocked`, `file_index_pages`, `work_tasks_overlap`,
`automation_heartbeat`.

Bounds. Channels and queues of one slot are full as early as possible, which is
the interesting case; real ones are larger and only delay it. Two workers are
enough for every pairwise race, and both waiting is the whole pool waiting. Two
projects show that one does not disturb the other's counters. A file index treats
files independently but for batches and pages, for which two files suffice; a
third content adds nothing to two eligible and one that is not. In `file_index` one of the
two files starts out indexed (`OneIndexedSpec`), the other in any way; only the order in which
tombstones take them tells the two apart, and edits remove or spoil either. `MaxEdits`,
`MaxFailures` and `MaxRestarts` bound the environment only: with two changes a path
task may hold an old content, another a newer one, and the disk a third. Symmetry
is used over workers, eligible contents and runs, in runs without liveness. For
a Work Task, two calls suffice for a stale write, two runs for a claim that is not
one's own; `Requested`, `Exemptions`, `Attachers` and `Compilers` narrow what calls ask
for and who makes them, to the statuses that lead to completion and back; statuses
reached by attachments come in without being asked for. For automation, two runs
are a run and its replacement, two attempts a claim and a recovery; two stamps are
one lease that runs out under another that does not, and with a third a heartbeat
fits in between (`automation_heartbeat`). Operators in `automation_clients` rerun a blocked task
as an orchestrator; with `OperatorMoves = {"requeue", "rerun"}` the instance passes as well,
with 3.9 million states. One fault reaches each step of a call. Three
graphs let an `enforce` that has counted one and passed another meet a change of each;
with two operations one looks while the other changes.

Deadlock is not checked: every one of these systems may rest, with all
submissions over, no more changes, and the server stopped.

Fairness. Weak fairness on every goroutine's steps: the Go runtime runs what can
run, and a runner returns. A submission once begun proceeds; whether a client
submits, cancels, or the server stops or dies is not assumed. Recovery scans are
submitted by `main.go` itself. In `LiveWatcher` the debounce timer fires when
events stop, which is implied by weak fairness of `debounceLoop` as a whole (its
`select` may prefer any ready case; the edits are finite). File changes, crashes
and failures are never fair. In `AutomationRuns` the service works off its calls
and runners keep polling (weak), a runner ends what it executes (strong, since
`claimMu` may be taken whenever it tries; an agent's run time is limited) and
leases run out (weak); heartbeats, agents, reviewers, operators, clients and faults
are not fair. In `GraphLeases` an operation ends, goroutines run (weak), and a goroutine
that asks for `lru.mu` gets it in the end (strong: a Go mutex starves nobody); that
operations begin, or that somebody calls `CloseAll`, is not assumed. `HeldTasksMoveOn` is checked with the fault of a dying runner only:
with a crash or a cancelled request it does not hold (section 5). `WorkTasks` assumes no fairness: a caller may stop at
any point, and its properties are all of safety. `QueuedTasksFinish` and `PreparedRunsSettle` are
checked with fewer path tasks than workers, because of the finding of
`scheduler_pool_blocked`.

`live_catch_up` takes one path task at a time (`PathLimit` = 1, so that a second worker
would only wait); with the default of two, two path tasks of one file may write in the
wrong order. It takes one page for all states, since `file_index_pages` refutes more.

## 5. Findings

- `scheduler_pool_blocked`: a scan is registered as pending before it is sent; a
  path task that a worker takes in between parks that worker behind it. With all
  workers parked so, nobody takes the scan: the pool stands still until Stop.
- `file_index_pages`: tombstones shorten the list that is paged by offset, so
  states are skipped and missing files stay indexed.
- `work_tasks_overlap`: a call that read a task before its completion writes its copy
  afterwards, and the done task is open again. `FreshWritesKeepOrder` shows that
  nothing but such an overlap does this.
- `automation_heartbeat`: the store keeps the run it has when a write says "running,
  recovered" and the stored run has not failed. This also drops every heartbeat of a
  run that was started again after a failure: its lease is never extended, and it is
  timed out while its runner heartbeats successfully. `FreshRunnersKeepTheirRuns`
  shows that no other run is lost so.

Known hazards that no run shows any more, each excluded by a bound or a condition
that is named where it is used: a crash after the state of a removed file was
saved, and before its chunks and rows were removed, leaves these for good; two
path tasks of one file may write in the wrong order; a file created in a new
directory before its watch is added is not indexed until the next scan. And one that
the properties name as an exception: a directory that the walk cannot read hides the
existing files below it, which are then tombstoned (`service.go:883`). `TombstonesOnlyMissing`
and `ScanRepairs` count such files as not eligible; the next scan that can read the
directory indexes them again.

Of the automation service, and left out of what its properties claim:

- a run that is blocked with a recoverable failure is picked for recovery and its
  task claimed, but the store keeps the blocked run: the attempt is not counted
  (`service.go:1389`, `1066`-`1122`);
- `ListRuns` reconciles without `claimMu`: its late write may bring a run back that
  was timed out (`service.go:629`, `2127`), and `RunNow` overwrites a run that was
  claimed meanwhile (`service.go:738`): the run is queued again with its attempts at
  zero, so it may be started more often than its retries allow. `OneActiveOwner`, `ImplementsSuccession` and
  `FreshRunnersKeepTheirRuns` are claimed of calls under the mutex;
- two runs start when an operator offers a task again (`OperatorMoves = {"requeue"}`): the
  agent of a run that was timed out may still block the task, and the operator who
  requeues it does not know that a replacement is queued or runs. In the same way
  `ReplacementsCapped` fails where a run may be tried again: a run whose task was
  blocked and requeued is left behind as recoverable, its replacement uses up the
  limit, and then the first is recovered (`claimPreExecutionRecovery`, `service.go:1066`,
  does not look at the limit) and fails for good too. Both are claimed as long as
  nobody requeues a blocked task; with one attempt per run TLC finds no violation of
  `ReplacementsCapped` even so (the instance of `automation_clients`, whose operators may
  requeue besides rerunning);
- an orchestrator's rerun is meant to be exempt from the cap. But the marker stays with
  the task, and every later write of it, the service's own claims, starts and releases
  included, moves `UpdatedAt` past the failures so far (`service.go:2853`): once marked, a
  task of which every failure is followed by a write never reaches a cap of two or
  more. `ReplacementsCapped` counts as the code does, and says no more of such a task;
- an automation executed inside the server takes a lease of 90 seconds that nobody
  renews (`service.go:3294`); this executor is not modelled;
- a crash between the write of a timed-out run and the release of its task leaves
  the task held by a run that is over (`service.go:2226`).

## 6. Proofs

`IngestionSchedulerProofs`, for every value of the constants that satisfies
`SchedulerAssumption` (finite tasks and workers, limits of at least one):

- `TypeCorrect`: `Spec => []TypeOK`. `TypeOK` is not inductive: `Decremented` and
  `work[w]` need to know which worker has a task. `Shape` strengthens it by
  `WorkMatchesPC` (a worker has a task exactly where its place says so, in the
  phase that goes with it), `OneWorkerPerTask`, `ChannelsHoldQueuedTasks` (the
  channels hold queued tasks, each in the channel of its kind and once) and
  `DownIsIdle`.
- `GateCorrect`: `CountersMatchTasks`, `WideRunsAlone` and `ProjectLimitRespected`
  hold always. The three are inductive together with `Shape`. The lemmas
  `GateRegister`, `GateWithdraw`, `GateAcquire` and `GateRelease` follow one change of
  a phase through the sets that the counters count; every action is one of them or
  leaves the sets alone (`GateQuiet`).
- `NoLostWakeup`: `ParkedWorkersMustWait` holds always: from `Shape`, `Gate` and the
  fact that every step that may let a parked worker in wakes the workers of its
  project.
- `AdmissionImplemented`: `Spec => ImplementsAdmission`. Initial states map to initial
  states; a step of the gate maps to one of `TaskAdmission`, for which the counters
  must be exact (`Gate`), and every other step leaves each task's stage alone.
- `TasksKeepTheirPlace` (`TaskInOnePlace`), from `Placed`: a task's phase says whether a
  channel or a worker has it. `PoolBlockedByPathsOnly` (`OnlyPathsBlockThePool`) needs
  all of these: whoever could block a parked path task must itself be with a worker.
- `RunsAreOwned` (`NoOrphanRuns`) and `StoredRunsAdvance` (`RunsMoveForward`): what a task's
  phase says about its stored run, over any number of restarts. A worker at its last
  checkpoint has a rebuild whose run is completed, and nobody else turns that run to
  failed. `PathsAreHeldBack`
  (`PathsHeldBehindWideWork`): the counters again, at the step that admits a path.

`WorkTasksProofs`, for every value of the constants that satisfies
`WorkTasksAssumption`:

- `WorkTasksTyped`: `Spec => []TypeOK`, which is inductive.
- `GatesHold`: `CompletionGate`, `WorkPrecedesCompletion` and `ReadyIsClaimable` hold
  always. They are not inductive: any call may write what it read long ago. They
  hold because every copy that a call holds is as good as the stored task: `Gates`
  says that the task and each copy are `Sound` (gated with the attachments stored so
  far, begun where they are past their start, unclaimed where ready), and that a
  copy on its way to the check of its reviews lacks only that check.
  `ChangedSound`, `CheckedSound` and `AttachedSound` show it for what a call makes of
  its copy, `SoundIsStable` that more attachments never spoil a copy, `WroteSound`
  that a write leaves the other calls' copies alone. So a stale write may undo a
  completion (section 5), but it can never forge one.
- `FreshWritesInOrder`: `Spec => FreshWritesKeepOrder`. `CopiesCurrent` says that a call
  whose task no write has overtaken holds that task itself, or a copy that the
  lifecycle lets follow it; the write then is a permitted transition.

`AutomationRunsProofs`, for every value of the constants that satisfies
`AutomationRunsAssumption`:

- `AutomationTyped`: `Spec => []TypeOK`, with the types of the copies that calls hold.
  `Markers` are the types of what the task forgives.
- `CompletionIsEarned` (`CompletedMeansDone`). It is not inductive, because any call may
  write a copy it made long ago: `Sound` says of a run, and `SoundCall` of every copy a
  call holds, that it is completed only if the task is done. A done
  task stays done by every step (from `done` the table leads to `superseded` only, which
  no actor here asks for), so a copy once sound stays so.

`AutomationOwnershipProofs`, under `AutomationRunsAssumption`, is about what `claimMu` is
for. Its theorems assume `LockedOnly` (`Clients = {}`: no `ListRuns`, no `RunNow`), as the run
`automation_runs` does, and the first fault of section 5 shows that they must: these
calls write outside the mutex. Those marked * assume `NoRequeue` too (no operator
offers a blocked task again, marked or not); that they must, section 5 shows as well. Under
it no task is ever marked (`Unmarked`), so every failure counts. Runners,
attempts, replacements, stamps, crashes, lost calls and deaths are unrestricted.

- `FreshRunnersNotTimedOut` (`FreshRunnersKeepTheirRuns`). `KInv`: at most one caller has a
  call in progress, the copies it has are the stored runs but for the one it is about
  to write, and of a run that a runner executes nothing is ever written that takes its
  claim away or shortens the lease that this runner was granted (`Kept`). A run is
  written as interrupted only if the stored one was abandoned.
- `OneOwner`* (`OneActiveOwner`) and `ReplacementsStop`* (`ReplacementsCapped`). Neither is
  inductive: that a run is the only one is lost if another may be started later, so
  `OInv` speaks of `Live` runs: queued, active, recoverable with an attempt left, or
  recoverable with the task still theirs. `Orderly`: at most one run is live; one that
  has begun excludes a task on offer; and while one is live the limit is not reached, so
  that its failure for good still fits. `InTurn` and `OwnWrite` say what each place of a
  call adds, for instance that a run is created only when none is live.
- `EndedRunsStayEnded`: a run that has ended and may not be tried again stays so, by
  `EInv`: whatever a call writes as pending is stored as pending already, and the start of
  a run counts one attempt of a waiting run. TLC finds this violated at once
  with a client, so it is no property of a run with clients.
- `SuccessionImplemented`* (`ImplementsSuccession`): initial states map to initial states,
  and every step of the service to a step of one abstract run or to none: a write of the
  store follows the run stored before it (`Follows`) or starts it (`Starts`), by `EInv`;
  `Enter` needs from `OInv` that no run is live when one is created, `Execute` from `IInv`
  that an attempt is left.

`FileIndexProofs`, for every value of the constants that satisfies
`FileIndexAssumption`:

- `IndexTyped`: `IndexSpec => []IndexTypeOK`.
- `OnlyMissingTombstoned` (`TombstonesOnlyMissing`): the walk has seen every file that
  was there and untouched since the scan began, but those below a directory it could
  not read, before a tombstone is possible.
- `ScansRepair` (`ScanRepairs`): `IndexInv` adds to the types that a scan is alone
  (`Alone`), what each of its phases implies (`Phases`), that every row and every
  result in flight agrees with what its modification time stood for (`Honesty`: this
  is why the short cut for unchanged files may be taken), and that each untouched file
  is still to be looked at, in hand with its present content, up to date, or hidden
  below an unreadable directory (`Repairing`).

`SearchRebuildProofs`, under `FileIndexAssumption`:

- `RebuildsRepair` (`RebuildRepairs`): while a rebuild runs, one file at most is in hand
  (`OneInHand`); a file waits, or is in hand with its state not yet saved, only if its rows
  are not those of its state (`JobRepairs`), so neither short cut for unchanged files
  applies to it; every other file is in line (`InLine`). What the rebuild stores as completed is in line
  then, and stays so when its last checkpoint fails, for path tasks and scans wait until
  it has returned.
- `IndexKeptWithRebuilds`: `IndexTypeOK`, `ScanRepairs` and `TombstonesOnlyMissing` hold of
  `RebuildSpec`, which is what `file_index` checks, because every step of it is one of
  `IndexNext` (a repair saves as a path task does) or drops search rows while nothing runs.

`LiveWatcherProofs`, for every value of the constants that satisfies the
assumptions of `LiveWatcher`:

- `WatcherDrivesIndex`: `LiveSpec => IndexSpec`, so that the watcher inherits what holds of
  the file index; `LiveScansRepair` is `ScansRepair` so inherited. `LiveTyped`:
  `LiveSpec => []LiveTypeOK`.
- `ChangesAreFollowed`: `LiveSpec /\ []OneTaskPerFile /\ []OnePage => [](failures = 0 =>
  NoChangeLost)`. No constant is restricted: any path limit, page size, number of restarts
  and failures. What the code needs is said of the behaviour instead: no file has two
  path tasks at once (a path limit of one implies it, the default of two does not,
  and then the older content may be written last), the present states fit on one
  page (`file_index_pages` refutes it of two), and nothing has failed so far (a failed path
  task is not retried). Crashes and restarts are no failures: the initial scan
  stands for what they lose. The invariant `Watched` joins `IndexInv` with: one worker busy at a time (`OneBusy`) on the
  task that it has submitted (`Linked`), results of a kind that goes with their place
  (`Kinds`), and for each file whose stores disagree with the disk, a queue, a rescan,
  a worker or a scan that covers it (`Follow`).

`GraphLeasesProofs`, for every value of the constants that satisfies
`GraphLeasesAssumption`:

- `LeasedGraphsStayOpen` (`LeasedStaysOpen`), `ClosedGraphsStayClosed` (`ClosedForGood`) and
  `RestingWithinLimit` (`LimitHoldsAtRest`), from one invariant `IInv`: the types, with one
  holder of `lru.mu`; every lease is some operation's (`Counts`), so that a store without
  leases may be closed; what a closer has behind it is closing and closed (`Shut`);
  and, as long as nobody is on the way to `lru.mu`, the holder has counted every open graph
  it has passed, and passed none that it could have closed (`Tended`). What an `enforce`
  misses was opened behind its back, by an operation that will enforce after it.

Model-checked only: every liveness property (liveness under fairness is out of
the prover's reach), and `ReplacementsCapped` in the presence of clients and
operators, with the failures that a rerun forgives. The other way round, `EndedRunsStayEnded` and `PathsAreHeldBack` state
properties that no run lists: the first is part of `ImplementsSuccession`, the second of
`ImplementsAdmission`, which runs do check.

## 7. What is not modelled

Besides the components marked so in `PROJECT.json`: store writes that fail in the
scheduler other than those named in section 3; a panic of a worker; changes of
the registry (there are none while the server runs); the extractor cache (a pure
cache of what is extracted from a content); the search store's degraded flag
(read by queries only); failed watch registration and the budget of watched
directories, for which the documentation promises no freshness; the orchestrator's
Stop, which abandons the queues as a crash does; fairness between projects in the
pool (parked tasks of one project keep workers from another) and the draining of
the channels at Stop, which the code does not attempt; plans, the order of
`GetNextWorkTask` and dependencies of Work Tasks.
