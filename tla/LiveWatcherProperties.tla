------------------------ MODULE LiveWatcherProperties ------------------------
(***************************************************************************)
(* What live ingestion promises: the index follows the files.              *)
(***************************************************************************)
EXTENDS LiveWatcher

\* The result r of f agrees with the disk.
Current(f, r) == r.content = Indexable(disk[f].content)

\* A path task of f that will bring, or is bringing, the index up to date.
PathCovers(w, f) ==
  /\ job[w] = f
  /\ \/ pc[w] \in {"idle", "lstat"}
     \/ pc[w] = "read" /\ result[w].mtime = disk[f].mtime
     \/ pc[w] \in {"saveState", "saveGraph", "saveSearch"} /\ Current(f, result[w])

WillBeTombstoned(f) ==
  IF scan.step = "tombstone" THEN f \in scan.page
  ELSE f \notin scan.seen /\ f \in Present

\* The running scan still has to look at f, holds what is on disk, or tombstones f.
ScanCovers(f) ==
  /\ Scanning
  /\ \/ f \in scan.todo
     \/ f \in DOMAIN scan.stated /\ scan.stated[f].mtime = disk[f].mtime
     \/ f \in DOMAIN scan.ready /\ Current(f, scan.ready[f])
     \/ f \in DOMAIN scan.saving /\ Current(f, scan.saving[f])
     \/ disk[f].content = None /\ (WillBeTombstoned(f) \/ f \in scan.tomb)

EventCovers(f) == \E q \in {osEvents, events, tasks} : Contains(q, f)

RescanQueued ==
  \/ overflow \/ rescans \/ loop = "rescan"
  \/ Contains(tasks, Rescan)
  \/ RescanWaits

Covered(f) ==
  \/ EventCovers(f) \/ f \in pending
  \/ RescanQueued
  \/ \E w \in Workers : PathCovers(w, f)
  \/ ScanCovers(f)

\* A file whose index is stale is always covered: a notification, a queued path,
\* a rescan, or a task that still holds its present content will index it.
\* Events, tasks and paths are dropped when a queue is full (handleWatchEvent,
\* debounceLoop), and content is read long before it is stored. A restart with an
\* initial scan covers every file that exists. Until a step fails, with one path task of
\* a file at a time and the present states on one page, and but for files changed in a
\* directory that is not watched yet.
NoChangeLost ==
  up => \A f \in Files \ missed :
          (restarts = 0 \/ disk[f].content /= None) /\ ~Fresh(f) => Covered(f)

\* The watcher, the queues and the workers have nothing left to do.
Quiet ==
  /\ osEvents = <<>> /\ ~overflow /\ events = <<>> /\ ~rescans
  /\ pending = {} /\ loop = "select" /\ tasks = <<>>
  /\ Active = {}

\* When files stop changing, the index catches up with them and the queues drain:
\* coalesced rescans do not requeue one another, and debounceLoop, blocked on a
\* full task queue, is not stuck (orchestrator_test.go:165). After a crash and a
\* restart with initial_scan_on_start this holds of every existing file, changed
\* while the server was down or not (docs/runbooks/local-dev.md:349: use live
\* startup scans for freshness).
LiveCatchesUp ==
  <>[](/\ up /\ Quiet
       /\ \A f \in Files \ missed : restarts = 0 \/ disk[f].content /= None => Fresh(f))
=============================================================================
