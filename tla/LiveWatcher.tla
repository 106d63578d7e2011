---------------------------- MODULE LiveWatcher ----------------------------
(***************************************************************************)
(* The live watcher of one project (internal/projectingestion/             *)
(* orchestrator.go) on top of the file index: a change of a file reaches   *)
(* watchLoop as an event, debounceLoop collects the paths until its timer  *)
(* fires and hands them to the workers as path tasks; every queue that     *)
(* overflows turns into one rescan of the project.                         *)
(*                                                                         *)
(* A live worker waits in SubmitPath or SubmitFullScan until its task is   *)
(* done, so the worker that submits a task stands for the scheduler's      *)
(* worker that executes it. The scheduler is assumed to have a worker for  *)
(* every submitted task (IngestionScheduler models its pool).              *)
(*                                                                         *)
(* Next uses none of the operators under a "Faulty" comment: each is a     *)
(* variant of the definition after it with a plausible bug.                *)
(***************************************************************************)
EXTENDS FileIndex, Sequences, SequencesExt

CONSTANTS
  QueueDepth,     \* capacity of the events and of the tasks channel
  OSDepth,        \* capacity of the notification queue before watchLoop
  NewDirFiles,    \* files of a directory that does not exist at first
  NewDir,         \* stands for that directory in events
  Rescan,         \* the rescan task
  MaxRestarts     \* bound: restarts of the server

\* The names in events.
Events == Files \cup {NewDir}

ASSUME LiveWatcherAssumption ==
  /\ QueueDepth \in Nat \ {0} /\ OSDepth \in Nat \ {0}
  /\ NewDirFiles \subseteq Files /\ NewDir \notin Files
  /\ Rescan \notin Events /\ None \notin Events \cup {Rescan}
  /\ MaxRestarts \in Nat

VARIABLES
  up,        \* the server runs
  restarts,  \* restarts so far
  directory, \* NewDir: "missing", "unwatched" or "watched"
  missed,    \* history: files last changed with no watch on their directory
  osEvents,  \* notifications that watchLoop has not received
  overflow,  \* ErrEventOverflow is waiting on the errors channel
  events,    \* projectWatcher.events
  rescans,   \* projectWatcher.rescans holds its token
  pending,   \* the paths collected by debounceLoop
  loop,      \* where debounceLoop is
  tasks,     \* projectWatcher.tasks
  job        \* the task each worker has submitted, or None

queues == <<osEvents, overflow, events, rescans, pending, loop, tasks>>
watcherVars == <<up, restarts, directory, missed, queues, job>>
liveVars == <<indexVars, watcherVars>>

LiveTypeOK ==
  /\ IndexTypeOK
  /\ up \in BOOLEAN /\ restarts \in 0..MaxRestarts
  /\ directory \in {"missing", "unwatched", "watched"}
  /\ missed \subseteq NewDirFiles
  /\ osEvents \in BoundedSeq(Events, OSDepth) /\ events \in BoundedSeq(Events, QueueDepth)
  /\ overflow \in BOOLEAN /\ rescans \in BOOLEAN
  /\ pending \subseteq Events
  /\ loop \in {"select", "flush", "rescan"}
  /\ tasks \in BoundedSeq(Events \cup {Rescan}, QueueDepth)
  /\ job \in [Workers -> Events \cup {Rescan, None}]

QueuesEmpty ==
  /\ osEvents' = <<>> /\ overflow' = FALSE /\ events' = <<>>
  /\ pending' = {} /\ loop' = "select" /\ tasks' = <<>>

\* The index is up to date and the watches are added.
LiveInit ==
  /\ IndexInit
  /\ up = TRUE /\ restarts = 0
  /\ directory = IF NewDirFiles = {} THEN "watched" ELSE "missing"
  /\ \A f \in NewDirFiles : disk[f].content = None
  /\ missed = {}
  /\ osEvents = <<>> /\ overflow = FALSE /\ events = <<>> /\ rescans = FALSE
  /\ pending = {} /\ loop = "select" /\ tasks = <<>>
  /\ job = [w \in Workers |-> None]

-----------------------------------------------------------------------------
(* Changes, and the notifications about them. *)

\* A notification that finds the queue full sets the overflow error.
Notify(e) ==
  IF Len(osEvents) < OSDepth
  THEN osEvents' = Append(osEvents, e) /\ UNCHANGED overflow
  ELSE overflow' = TRUE /\ UNCHANGED osEvents

ChangeFile(f, c) ==
  /\ Edit(f, c)
  /\ f \in NewDirFiles => directory /= "missing"
  /\ IF ~up
     THEN UNCHANGED <<missed, osEvents, overflow>>
     ELSE IF f \in NewDirFiles /\ directory = "unwatched"
     THEN missed' = missed \cup {f} /\ UNCHANGED <<osEvents, overflow>>
     ELSE missed' = missed \ {f} /\ Notify(f)
  /\ UNCHANGED <<up, restarts, directory, events, rescans, pending, loop, tasks, job>>

MakeDirectory ==
  /\ directory = "missing"
  /\ directory' = "unwatched"
  /\ IF up THEN Notify(NewDir) ELSE UNCHANGED <<osEvents, overflow>>
  /\ UNCHANGED <<indexVars, up, restarts, missed, events, rescans, pending, loop, tasks, job>>

-----------------------------------------------------------------------------
(* watchLoop *)

\* Faulty.
HandleWatchEventDropping ==
  /\ up /\ osEvents /= <<>>
  /\ osEvents' = Tail(osEvents)
  /\ directory' = IF Head(osEvents) = NewDir THEN "watched" ELSE directory
  /\ events' = IF Len(events) < QueueDepth THEN Append(events, Head(osEvents)) ELSE events
  /\ UNCHANGED <<indexVars, up, restarts, missed, overflow, rescans, pending, loop, tasks, job>>

\* addWatchesUnder a new directory, then the event to debounceLoop or, when its
\* queue is full, enqueueRescan.
HandleWatchEvent ==
  /\ up /\ osEvents /= <<>>
  /\ osEvents' = Tail(osEvents)
  /\ directory' = IF Head(osEvents) = NewDir THEN "watched" ELSE directory
  /\ IF Len(events) < QueueDepth
     THEN events' = Append(events, Head(osEvents)) /\ UNCHANGED rescans
     ELSE rescans' = TRUE /\ UNCHANGED events
  /\ UNCHANGED <<indexVars, up, restarts, missed, overflow, pending, loop, tasks, job>>

HandleOverflow ==
  /\ up /\ overflow
  /\ overflow' = FALSE
  /\ rescans' = TRUE
  /\ UNCHANGED <<indexVars, up, restarts, directory, missed, osEvents, events, pending, loop, tasks, job>>

-----------------------------------------------------------------------------
(* debounceLoop *)

LoopStep == UNCHANGED <<indexVars, up, restarts, directory, missed, osEvents, overflow, job>>

ReceiveRescan ==
  /\ up /\ loop = "select" /\ rescans
  /\ rescans' = FALSE
  /\ loop' = "rescan"
  /\ UNCHANGED <<events, pending, tasks>>
  /\ LoopStep

ReceiveEvent ==
  /\ up /\ loop = "select" /\ events /= <<>>
  /\ events' = Tail(events)
  /\ pending' = pending \cup {Head(events)}
  /\ UNCHANGED <<rescans, loop, tasks>>
  /\ LoopStep

\* Every event restarts the timer, so it fires only with a path pending.
TimerFires ==
  /\ up /\ loop = "select" /\ pending /= {}
  /\ loop' = "flush"
  /\ UNCHANGED <<events, rescans, pending, tasks>>
  /\ LoopStep

\* enqueueTask of one path; when the queue is full, the rest of the paths are
\* coalesced into a rescan.
EnqueuePath(e) ==
  /\ up /\ loop = "flush" /\ e \in pending
  /\ IF Len(tasks) < QueueDepth
     THEN tasks' = Append(tasks, e) /\ pending' = pending \ {e} /\ UNCHANGED loop
     ELSE pending' = {} /\ loop' = "rescan" /\ UNCHANGED tasks
  /\ UNCHANGED <<events, rescans>>
  /\ LoopStep

EndFlush ==
  /\ up /\ loop = "flush" /\ pending = {}
  /\ loop' = "select"
  /\ UNCHANGED <<events, rescans, pending, tasks>>
  /\ LoopStep

\* Faulty.
EnqueueRescanTaskWithoutRoom ==
  /\ up /\ loop = "rescan"
  /\ tasks' = Append(tasks, Rescan)
  /\ loop' = "select"
  /\ UNCHANGED <<events, rescans, pending>>
  /\ LoopStep

\* enqueueTask of a rescan waits for room.
EnqueueRescanTask ==
  /\ up /\ loop = "rescan" /\ Len(tasks) < QueueDepth
  /\ tasks' = Append(tasks, Rescan)
  /\ loop' = "select"
  /\ UNCHANGED <<events, rescans, pending>>
  /\ LoopStep

-----------------------------------------------------------------------------
(* workerLoop *)

\* Receives a task and submits it to the scheduler, where a rescan counts at
\* once as pending project-wide work.
Submit(w) ==
  /\ up /\ job[w] = None /\ tasks /= <<>>
  /\ job' = [job EXCEPT ![w] = Head(tasks)]
  /\ tasks' = Tail(tasks)
  /\ UNCHANGED <<indexVars, up, restarts, directory, missed, osEvents, overflow, events, rescans, pending, loop>>

RescanWaits == \E w \in Workers : job[w] = Rescan /\ pc[w] = "idle"

\* The scheduler admits the task of w.
Begin(w) ==
  /\ up
  /\ \/ job[w] = Rescan /\ BeginScan(w)
     \/ \E f \in Files : job[w] = f /\ ~RescanWaits /\ BeginPath(w, f)
  /\ UNCHANGED watcherVars

\* The path task of a directory stores a skipped state under the path of the
\* directory, which the index of the files does not show.
IngestDirectory(w) ==
  /\ up /\ job[w] = NewDir
  /\ job' = [job EXCEPT ![w] = None]
  /\ UNCHANGED <<indexVars, up, restarts, directory, missed, queues>>

\* A step of the task of w; SubmitPath or SubmitFullScan returns with the last.
Execute(w) ==
  /\ up
  /\ PathStep(w) \/ FinishScan(w) \/ FailScan(w)
  /\ job' = IF pc'[w] = "idle" THEN [job EXCEPT ![w] = None] ELSE job
  /\ UNCHANGED <<up, restarts, directory, missed, queues>>

ExecuteScan == up /\ ScanProgress /\ UNCHANGED watcherVars

-----------------------------------------------------------------------------
Crash ==
  /\ up /\ restarts < MaxRestarts
  /\ up' = FALSE
  /\ IndexCrash
  /\ QueuesEmpty /\ rescans' = FALSE
  /\ job' = [w \in Workers |-> None]
  /\ missed' = {}
  /\ UNCHANGED <<restarts, directory>>

\* Faulty.
BootWithoutScan ==
  /\ ~up
  /\ up' = TRUE
  /\ restarts' = restarts + 1
  /\ directory' = IF directory = "unwatched" THEN "watched" ELSE directory
  /\ UNCHANGED <<indexVars, missed, queues, job>>

\* Start: addProjectWatches, then (InitialScanOnStart) enqueueRescan.
Boot ==
  /\ ~up
  /\ up' = TRUE
  /\ restarts' = restarts + 1
  /\ directory' = IF directory = "unwatched" THEN "watched" ELSE directory
  /\ rescans' = TRUE
  /\ UNCHANGED <<indexVars, missed, osEvents, overflow, events, pending, loop, tasks, job>>

DebounceStep ==
  \/ ReceiveRescan \/ ReceiveEvent \/ TimerFires
  \/ \E e \in Events : EnqueuePath(e)
  \/ EndFlush \/ EnqueueRescanTask

LiveNext ==
  \/ \E f \in Files, c \in Contents \cup {None} : ChangeFile(f, c)
  \/ MakeDirectory
  \/ HandleWatchEvent \/ HandleOverflow
  \/ DebounceStep
  \/ \E w \in Workers : Submit(w) \/ Begin(w) \/ IngestDirectory(w) \/ Execute(w)
  \/ ExecuteScan
  \/ Crash \/ Boot

\* Every goroutine that can run does; with no event to restart it, the timer of
\* debounceLoop fires. An admitted rescan is not overtaken for ever: a waiting
\* one holds back the paths.
LiveFairness ==
  /\ WF_liveVars(HandleWatchEvent) /\ WF_liveVars(HandleOverflow)
  /\ WF_liveVars(DebounceStep)
  /\ WF_liveVars(ExecuteScan) /\ WF_liveVars(Boot)
  /\ \A w \in Workers : WF_liveVars(Submit(w)) /\ WF_liveVars(Begin(w))
                        /\ WF_liveVars(IngestDirectory(w)) /\ WF_liveVars(Execute(w))

LiveSpec == LiveInit /\ [][LiveNext]_liveVars
FairLiveSpec == LiveSpec /\ LiveFairness
=============================================================================
