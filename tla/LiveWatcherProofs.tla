-------------------------- MODULE LiveWatcherProofs --------------------------
(***************************************************************************)
(* Machine-checked proofs about the live watcher: for any files, queue     *)
(* sizes and numbers of workers, changes, failures and restarts.           *)
(*                                                                         *)
(* The watcher only drives the file index: each of its steps is a step of  *)
(* FileIndex or leaves the index alone, so what FileIndexProofs shows of   *)
(* the index holds of it under the watcher, crashes and restarts included. *)
(* And it loses no change, as long as no step fails, no file has two path  *)
(* tasks at once and the present states fit on one page.                   *)
(***************************************************************************)
EXTENDS LiveWatcherProperties, FileIndexProofs, SequenceTheorems

-----------------------------------------------------------------------------
(* The watcher takes only steps of the index. *)

\* A worker without a path task keeps nothing of an earlier one, nor does a scan that is over.
Tidy ==
  /\ \A w \in Workers : pc[w] \notin PathPCs => file[w] = None /\ result[w] = NoResult
  /\ Scanning \/ touched = {}

DriveInv == Types /\ Alone /\ Tidy

LEMMA PathTidy ==
  ASSUME Types, Tidy, NEW w \in Workers, PathStep(w)
  PROVE  Tidy'
<1>1. /\ pc \in [Workers -> PathPCs \cup {"idle", "scan"}]
      /\ file \in [Workers -> Files \cup {None}]
      /\ result \in [Workers -> SafeResult]
  BY DEF Types, JobTypes
<1>0. (Scanning \/ touched = {})'
  <2>1. touched' = touched /\ pc[w] /= "scan" /\ \A v \in Workers \ {w} : pc'[v] = pc[v]
    BY <1>1 DEF PathStep, Lstat, Read, SaveState, SaveGraph, SaveSearch, FailPath, PathOver
  <2>2. QED BY <2>1 DEF Tidy, Scanning
<1>2. CASE SaveSearch(w) \/ FailPath(w)
  BY <1>0, <1>1, <1>2 DEF SaveSearch, FailPath, PathOver, Tidy
<1>3. CASE Lstat(w) \/ Read(w) \/ SaveState(w) \/ SaveGraph(w)
  <2>1. /\ pc'[w] \in PathPCs /\ file' = file
        /\ \A v \in Workers \ {w} : pc'[v] = pc[v] /\ result'[v] = result[v]
    BY <1>1, <1>3 DEF Lstat, Read, SaveState, SaveGraph, PathPCs
  <2>2. QED BY <1>0, <2>1 DEF Tidy
<1>4. QED BY <1>2, <1>3 DEF PathStep

LEMMA NextTidy == Types /\ Tidy /\ [IndexNext]_indexVars => Tidy'
<1> SUFFICES ASSUME Types, Tidy, [IndexNext]_indexVars PROVE Tidy'
  OBVIOUS
<1>1. /\ pc \in [Workers -> PathPCs \cup {"idle", "scan"}]
      /\ file \in [Workers -> Files \cup {None}]
      /\ result \in [Workers -> SafeResult]
  BY DEF Types, JobTypes
<1>2. CASE UNCHANGED <<pc, file, result>> /\ (touched' = touched \/ Scanning)
  BY <1>2 DEF Tidy, Scanning
<1>3. ASSUME NEW w \in Workers, NEW f \in Files, BeginPath(w, f) PROVE Tidy'
  <2>1. touched' = {}
    BY <1>3 DEF BeginPath, Tidy
  <2>2. QED BY <1>1, <1>3, <2>1 DEF BeginPath, Tidy, PathPCs
<1>4. ASSUME NEW w \in Workers, BeginScan(w) \/ FinishScan(w) \/ FailScan(w) PROVE Tidy'
  <2>1. /\ UNCHANGED <<file, result>> /\ pc[w] \in {"idle", "scan"} /\ touched' = {}
        /\ \A v \in Workers \ {w} : pc'[v] = pc[v]
    BY <1>1, <1>4 DEF BeginScan, FinishScan, FailScan, ScanOver
  <2>2. QED BY <2>1 DEF Tidy, PathPCs
<1>5. CASE IndexCrash
  BY <1>5 DEF IndexCrash, Tidy
<1>6. CASE ScanProgress
  BY <1>2, <1>6, ScanProgressFrame
<1>7. CASE \E f \in Files, c \in Contents \cup {None} : Edit(f, c)
  BY <1>2, <1>7 DEF Edit, jobs
<1>8. QED
  BY <1>2, <1>3, <1>4, <1>5, <1>6, <1>7, PathTidy DEF IndexNext, IndexStep, jobs, indexVars

\* A crash that finds every worker idle leaves the index as it is.
LEMMA IdleCrash ==
  ASSUME DriveInv, IndexCrash, Active = {}
  PROVE  UNCHANGED indexVars
<1>1. \A w \in Workers : pc[w] = "idle"
  BY DEF Active
<1>2. \A w \in Workers : file[w] = None /\ result[w] = NoResult
  BY <1>1 DEF DriveInv, Tidy, PathPCs
<1>3. scan = NoScan
  BY <1>1 DEF DriveInv, Alone, Scanning
<1>4. pc' = pc
  BY <1>1 DEF IndexCrash, DriveInv, Types, JobTypes
<1>5. file' = file
  BY <1>2 DEF IndexCrash, DriveInv, Types, JobTypes
<1>6. result' = result
  BY <1>2 DEF IndexCrash, DriveInv, Types, JobTypes
<1>7. touched' = touched
  BY <1>1 DEF IndexCrash, DriveInv, Tidy, Scanning
<1>8. QED BY <1>3, <1>4, <1>5, <1>6, <1>7 DEF IndexCrash, indexVars, jobs

LEMMA LiveStepDrives == DriveInv /\ [LiveNext]_liveVars => [IndexNext]_indexVars
<1> SUFFICES ASSUME DriveInv, [LiveNext]_liveVars, ~UNCHANGED indexVars PROVE IndexNext
  OBVIOUS
<1>1. LiveNext
  BY DEF liveVars
<1>2. CASE \E f \in Files, c \in Contents \cup {None} : ChangeFile(f, c)
  BY <1>2 DEF ChangeFile, IndexNext
<1>3. CASE \E w \in Workers : Begin(w)
  BY <1>3 DEF Begin, IndexNext
<1>4. CASE \E w \in Workers : Execute(w)
  BY <1>4 DEF Execute, IndexNext, IndexStep
<1>5. CASE ExecuteScan
  BY <1>5 DEF ExecuteScan, IndexNext, IndexStep
<1>6. CASE Crash
  BY <1>6, IdleCrash DEF Crash, IndexNext
<1>7. QED
  BY <1>1, <1>2, <1>3, <1>4, <1>5, <1>6
     DEF LiveNext, MakeDirectory, HandleWatchEvent, HandleOverflow, DebounceStep, LoopStep,
         ReceiveRescan, ReceiveEvent, TimerFires, EnqueuePath, EndFlush, EnqueueRescanTask,
         Submit, IngestDirectory, Boot

\* The live watcher implements the file index: whatever the queues, the debouncing, the
\* rescans, a crash and a restart do, the index changes by the steps of a path task, of a
\* full scan or of a change of a file (workerLoop, SubmitPath, SubmitFullScan).
THEOREM WatcherDrivesIndex == LiveSpec => IndexSpec
<1>1. LiveInit => IndexInit /\ DriveInv
  <2>1. IndexInit => Tidy
    BY DEF IndexInit, Tidy
  <2>2. QED BY <2>1, InitTypes, InitAlone DEF LiveInit, DriveInv
<1>2. DriveInv /\ [LiveNext]_liveVars => [IndexNext]_indexVars
  BY LiveStepDrives
<1>3. DriveInv /\ [LiveNext]_liveVars => DriveInv'
  BY <1>2, NextTypes, NextAlone, NextTidy DEF DriveInv
<1>4. QED BY <1>1, <1>2, <1>3, PTL DEF LiveSpec, IndexSpec

\* So a rescan that the watcher submits repairs the index as well (TLC checks ScanRepairs
\* of the file index alone).
THEOREM LiveScansRepair == LiveSpec => ScanRepairs /\ TombstonesOnlyMissing
BY WatcherDrivesIndex, ScansRepair, OnlyMissingTombstoned

-----------------------------------------------------------------------------
(* Types. *)

QueueTypes ==
  /\ up \in BOOLEAN /\ restarts \in 0..MaxRestarts
  /\ directory \in {"missing", "unwatched", "watched"}
  /\ missed \subseteq NewDirFiles
  /\ osEvents \in BoundedSeq(Events, OSDepth) /\ events \in BoundedSeq(Events, QueueDepth)
  /\ overflow \in BOOLEAN /\ rescans \in BOOLEAN
  /\ pending \subseteq Events
  /\ loop \in {"select", "flush", "rescan"}
  /\ tasks \in BoundedSeq(Events \cup {Rescan}, QueueDepth)
  /\ job \in [Workers -> Events \cup {Rescan, None}]

\* A server that is down has a restart left.
Bootable == ~up => restarts < MaxRestarts

\* A channel with room for n messages of S.
LEMMA Channel ==
  ASSUME NEW S, NEW n \in Nat
  PROVE  BoundedSeq(S, n) = {s \in Seq(S) : Len(s) <= n}
<1>1. BoundedSeq(S, n) = UNION {[1..m -> S] : m \in 0..n}
  BY DEF BoundedSeq, SeqOf
<1>2. ASSUME NEW s \in BoundedSeq(S, n) PROVE s \in Seq(S) /\ Len(s) <= n
  <2>1. PICK m \in 0..n : s \in [1..m -> S]
    BY <1>1
  <2>2. s \in Seq(S) /\ Len(s) = m
    BY <2>1, IsASeq
  <2>3. QED BY <2>1, <2>2
<1>3. ASSUME NEW s \in Seq(S), Len(s) <= n PROVE s \in BoundedSeq(S, n)
  <2>1. s \in [1..Len(s) -> S] /\ Len(s) \in 0..n
    BY <1>3, LenProperties
  <2>2. QED BY <1>1, <2>1
<1>4. QED BY <1>2, <1>3

LEMMA Send ==
  ASSUME NEW S, NEW n \in Nat, NEW s \in BoundedSeq(S, n), NEW e \in S, Len(s) < n
  PROVE  Append(s, e) \in BoundedSeq(S, n)
<1>1. BoundedSeq(S, n) = {t \in Seq(S) : Len(t) <= n}
  BY Channel
<1>2. s \in Seq(S) /\ Len(s) \in Nat
  BY <1>1, LenProperties
<1>3. Append(s, e) \in Seq(S) /\ Len(Append(s, e)) = Len(s) + 1
  BY <1>2, AppendProperties
<1>4. Len(Append(s, e)) <= n
  BY <1>2, <1>3
<1>5. QED BY <1>1, <1>3, <1>4

LEMMA Receive ==
  ASSUME NEW S, NEW n \in Nat, NEW s \in BoundedSeq(S, n), s /= <<>>
  PROVE  Head(s) \in S /\ Tail(s) \in BoundedSeq(S, n)
<1>1. BoundedSeq(S, n) = {t \in Seq(S) : Len(t) <= n}
  BY Channel
<1>2. s \in Seq(S) /\ Len(s) \in Nat /\ Len(s) <= n
  BY <1>1, LenProperties
<1>3. Head(s) \in S /\ Tail(s) \in Seq(S) /\ Len(Tail(s)) = Len(s) - 1
  BY <1>2, HeadTailProperties
<1>4. Len(Tail(s)) <= n
  BY <1>2, <1>3
<1>5. QED BY <1>1, <1>3, <1>4

LEMMA Empty ==
  ASSUME NEW S, NEW n \in Nat
  PROVE  <<>> \in BoundedSeq(S, n)
<1>1. BoundedSeq(S, n) = {t \in Seq(S) : Len(t) <= n}
  BY Channel
<1>2. <<>> \in Seq(S) /\ Len(<<>>) <= n
  BY EmptySeq
<1>3. QED BY <1>1, <1>2

LEMMA Depths == QueueDepth \in Nat /\ OSDepth \in Nat /\ MaxRestarts \in Nat
BY LiveWatcherAssumption DEF LiveWatcherAssumption

LEMMA NotifyTypes ==
  ASSUME QueueTypes, NEW e \in Events, Notify(e)
  PROVE  osEvents' \in BoundedSeq(Events, OSDepth) /\ overflow' \in BOOLEAN
<1>1. CASE Len(osEvents) < OSDepth
  <2>1. osEvents' = Append(osEvents, e) /\ overflow' = overflow
    BY <1>1 DEF Notify
  <2>2. QED BY <1>1, <2>1, Depths, Send DEF QueueTypes
<1>2. CASE ~(Len(osEvents) < OSDepth)
  BY <1>2 DEF QueueTypes, Notify
<1>3. QED BY <1>1, <1>2

LEMMA LiveStepBootable == Bootable /\ [LiveNext]_liveVars => Bootable'
<1> SUFFICES ASSUME Bootable, [LiveNext]_liveVars PROVE Bootable'
  OBVIOUS
<1>1. CASE UNCHANGED <<up, restarts>> \/ Crash \/ Boot
  BY <1>1 DEF Bootable, Crash, Boot
<1>2. QED
  BY <1>1 DEF LiveNext, ChangeFile, MakeDirectory, HandleWatchEvent, HandleOverflow, DebounceStep,
     LoopStep, ReceiveRescan, ReceiveEvent, TimerFires, EnqueuePath, EndFlush, EnqueueRescanTask,
     Submit, Begin, IngestDirectory, Execute, ExecuteScan, liveVars, watcherVars

LEMMA LiveStepTypes == QueueTypes /\ Bootable /\ [LiveNext]_liveVars => QueueTypes'
<1> SUFFICES ASSUME QueueTypes, Bootable, [LiveNext]_liveVars PROVE QueueTypes'
  OBVIOUS
<1>0. /\ osEvents \in BoundedSeq(Events, OSDepth) /\ events \in BoundedSeq(Events, QueueDepth)
      /\ tasks \in BoundedSeq(Events \cup {Rescan}, QueueDepth)
      /\ job \in [Workers -> Events \cup {Rescan, None}]
  BY DEF QueueTypes
<1>1. ASSUME NEW f \in Files, NEW c, ChangeFile(f, c) PROVE QueueTypes'
  <2>1. f \in Events
    BY DEF Events
  <2>2. osEvents' \in BoundedSeq(Events, OSDepth) /\ overflow' \in BOOLEAN
    BY <1>1, <2>1, NotifyTypes DEF ChangeFile, QueueTypes
  <2>3. missed' \subseteq NewDirFiles
    BY <1>1 DEF ChangeFile, QueueTypes
  <2>4. QED BY <1>1, <2>2, <2>3 DEF ChangeFile, QueueTypes
<1>2. CASE MakeDirectory
  <2>1. NewDir \in Events
    BY DEF Events
  <2>2. osEvents' \in BoundedSeq(Events, OSDepth) /\ overflow' \in BOOLEAN
    BY <1>2, <2>1, NotifyTypes DEF MakeDirectory, QueueTypes
  <2>3. QED BY <1>2, <2>2 DEF MakeDirectory, QueueTypes
<1>3. CASE HandleWatchEvent
  <2>1. Head(osEvents) \in Events /\ osEvents' \in BoundedSeq(Events, OSDepth)
    BY <1>0, <1>3, Depths, Receive DEF HandleWatchEvent
  <2>2. events' \in BoundedSeq(Events, QueueDepth) /\ rescans' \in BOOLEAN
    <3>1. CASE Len(events) < QueueDepth
      <4>1. events' = Append(events, Head(osEvents)) /\ rescans' = rescans
        BY <1>3, <3>1 DEF HandleWatchEvent
      <4>2. QED BY <1>0, <2>1, <3>1, <4>1, Depths, Send DEF QueueTypes
    <3>2. CASE ~(Len(events) < QueueDepth)
      BY <1>0, <1>3, <3>2 DEF HandleWatchEvent
    <3>3. QED BY <3>1, <3>2
  <2>3. QED BY <1>3, <2>1, <2>2 DEF HandleWatchEvent, QueueTypes
<1>4. CASE HandleOverflow \/ ReceiveRescan \/ TimerFires \/ EndFlush
  BY <1>4 DEF HandleOverflow, ReceiveRescan, TimerFires, EndFlush, LoopStep, QueueTypes
<1>5. CASE ReceiveEvent
  <2>1. Head(events) \in Events /\ events' \in BoundedSeq(Events, QueueDepth)
    BY <1>0, <1>5, Depths, Receive DEF ReceiveEvent
  <2>2. QED BY <1>5, <2>1 DEF ReceiveEvent, LoopStep, QueueTypes
<1>6. ASSUME NEW e \in Events, EnqueuePath(e) PROVE QueueTypes'
  <2>1. tasks' \in BoundedSeq(Events \cup {Rescan}, QueueDepth)
    <3>1. CASE Len(tasks) < QueueDepth
      <4>1. tasks' = Append(tasks, e) /\ e \in Events \cup {Rescan}
        BY <1>6, <3>1 DEF EnqueuePath
      <4>2. QED BY <1>0, <3>1, <4>1, Depths, Send
    <3>2. CASE ~(Len(tasks) < QueueDepth)
      BY <1>0, <1>6, <3>2 DEF EnqueuePath
    <3>3. QED BY <3>1, <3>2
  <2>2. pending' \subseteq Events /\ loop' \in {"select", "flush", "rescan"}
    BY <1>6 DEF EnqueuePath, QueueTypes
  <2>3. QED BY <1>6, <2>1, <2>2 DEF EnqueuePath, LoopStep, QueueTypes
<1>7. CASE EnqueueRescanTask
  <2>1. tasks' \in BoundedSeq(Events \cup {Rescan}, QueueDepth)
    BY <1>0, <1>7, Depths, Send DEF EnqueueRescanTask
  <2>2. QED BY <1>7, <2>1 DEF EnqueueRescanTask, LoopStep, QueueTypes
<1>8. ASSUME NEW w \in Workers, Submit(w) PROVE QueueTypes'
  <2>1. Head(tasks) \in Events \cup {Rescan} /\ tasks' \in BoundedSeq(Events \cup {Rescan}, QueueDepth)
    BY <1>0, <1>8, Depths, Receive DEF Submit
  <2>2. job' \in [Workers -> Events \cup {Rescan, None}]
    BY <1>0, <1>8, <2>1 DEF Submit
  <2>3. QED BY <1>8, <2>1, <2>2 DEF Submit, QueueTypes
<1>9. ASSUME NEW w \in Workers, IngestDirectory(w) \/ Execute(w) PROVE QueueTypes'
  <2>1. job' \in [Workers -> Events \cup {Rescan, None}]
    BY <1>0, <1>9 DEF IngestDirectory, Execute
  <2>2. QED BY <1>9, <2>1 DEF IngestDirectory, Execute, queues, QueueTypes
<1>10. CASE (\E w \in Workers : Begin(w)) \/ ExecuteScan \/ UNCHANGED liveVars
  BY <1>10 DEF Begin, ExecuteScan, liveVars, watcherVars, queues, QueueTypes
<1>11. CASE Crash
  <2>1. /\ osEvents' \in BoundedSeq(Events, OSDepth) /\ events' \in BoundedSeq(Events, QueueDepth)
        /\ tasks' \in BoundedSeq(Events \cup {Rescan}, QueueDepth)
    BY <1>11, Depths, Empty DEF Crash, QueuesEmpty
  <2>2. QED BY <1>11, <2>1 DEF Crash, QueuesEmpty, QueueTypes
<1>12. CASE Boot
  <2>1. restarts' \in 0..MaxRestarts
    BY <1>12, Depths DEF Boot, Bootable, QueueTypes
  <2>2. QED BY <1>12, <2>1 DEF Boot, queues, QueueTypes
<1>13. QED
  BY <1>1, <1>2, <1>3, <1>4, <1>5, <1>6, <1>7, <1>8, <1>9, <1>10, <1>11, <1>12
     DEF LiveNext, DebounceStep

LEMMA InitQueues == LiveInit => QueueTypes /\ Bootable
<1> SUFFICES ASSUME LiveInit PROVE QueueTypes /\ Bootable
  OBVIOUS
<1>1. /\ osEvents \in BoundedSeq(Events, OSDepth) /\ events \in BoundedSeq(Events, QueueDepth)
      /\ tasks \in BoundedSeq(Events \cup {Rescan}, QueueDepth)
  BY Depths, Empty DEF LiveInit
<1>2. up = TRUE /\ restarts \in 0..MaxRestarts
  BY Depths DEF LiveInit
<1>3. /\ directory \in {"missing", "unwatched", "watched"} /\ missed = {}
      /\ overflow \in BOOLEAN /\ rescans \in BOOLEAN /\ pending = {} /\ loop = "select"
  BY DEF LiveInit
<1>4. job \in [Workers -> Events \cup {Rescan, None}]
  BY DEF LiveInit
<1>5. QED BY <1>1, <1>2, <1>3, <1>4 DEF QueueTypes, Bootable

\* Type correctness of the watcher: no channel ever holds more than it has room for
\* (enqueueTask, handleWatchEvent).
THEOREM LiveTyped == LiveSpec => []LiveTypeOK
<1>1. LiveInit => QueueTypes /\ Bootable
  BY InitQueues
<1>2. QueueTypes /\ Bootable /\ [LiveNext]_liveVars => (QueueTypes /\ Bootable)'
  BY LiveStepTypes, LiveStepBootable
<1>3. IndexTypeOK /\ QueueTypes => LiveTypeOK
  BY DEF QueueTypes, LiveTypeOK
<1>4. QED BY <1>1, <1>2, <1>3, WatcherDrivesIndex, IndexTyped, PTL DEF LiveSpec

-----------------------------------------------------------------------------
(* No change is lost, whatever the restarts and the path limit, while no     *)
(* step has failed. Two path tasks of one file can overwrite each other's    *)
(* result, and a second page of the tombstones can miss a file: of the steps *)
(* so far, none began in a state with either.                                *)

OneTaskPerFile ==
  \A v, w \in Workers : pc[v] \in PathPCs /\ pc[w] \in PathPCs /\ file[v] = file[w] => v = w

OnePage == Cardinality(Present) <= PageSize

\* The scan has not failed nor passed over a directory, and has one page.
Whole == ~scan.failed /\ scan.hidden = {} /\ scan.next = 0

\* A worker executes the task that it has submitted.
Linked ==
  \A w \in Workers :
    /\ pc[w] \in PathPCs => job[w] = file[w]
    /\ pc[w] = "scan" => job[w] = Rescan

SavePCs == {"saveState", "saveGraph", "saveSearch"}
OnPage == {"eligible", "skipped"}

\* A result that hides a file from the tombstones clears its chunks and rows.
Kinds ==
  /\ \A w \in Workers : pc[w] \in SavePCs =>
       result[w].status \in OnPage \/ (result[w].content = None /\ ~result[w].unchanged)
  /\ \A f \in DOMAIN scan.ready : scan.ready[f].status \in OnPage
  /\ \A f \in DOMAIN scan.saving : scan.saving[f].status \in OnPage /\ state[f].status \in OnPage

Bare(f) == graph[f] = None /\ search[f] = None
Storing(w) == pc[w] \in {"saveGraph", "saveSearch"}

\* What the graph or the search store has of a file, its file state lists.
Shown ==
  /\ \A f \in Files :
       \/ state[f].status \in OnPage \/ Bare(f) \/ f \in scan.tomb
       \/ \E w \in Workers : Storing(w) /\ file[w] = f
  /\ \A w \in Workers : Storing(w) /\ state[file[w]].status \notin OnPage =>
       /\ result[w].content = None /\ ~result[w].unchanged
       /\ pc[w] = "saveSearch" => graph[file[w]] = None
  /\ scan.step = "tombSearch" => \A f \in scan.tomb : graph[f] = None
  /\ scan.step \notin {"tombGraph", "tombSearch"} => scan.tomb = {}

\* A task that is yet to start will look at f.
Loose(f) ==
  \/ EventCovers(f) \/ f \in pending \/ RescanQueued
  \/ \E w \in Workers : job[w] = f /\ pc[w] \in {"idle", "lstat"}

\* The path task of w has seen its file as it is.
PathRight(w) ==
  /\ pc[w] = "read" => result[w].mtime = disk[file[w]].mtime /\ disk[file[w]].content /= None
  /\ pc[w] \in SavePCs => Right(file[w], result[w])
  /\ pc[w] = "saveSearch" => graph[file[w]] = Indexable(disk[file[w]].content)

PathOn(f) == \E w \in Workers : pc[w] \in PathPCs /\ file[w] = f

\* The scan has not seen f and will tombstone it if its state lists it.
MissingCovered(f) ==
  /\ f \notin scan.seen /\ f \notin DOMAIN scan.stated
  /\ f \notin DOMAIN scan.ready /\ f \notin DOMAIN scan.saving
  /\ scan.step \in {"tombstone", "tombGraph", "tombSearch"} /\ state[f].status \in OnPage => f \in scan.page

Settled(f) ==
  /\ ~Scanning /\ ~PathOn(f) => Fresh(f)
  /\ \A w \in Workers : pc[w] \in PathPCs /\ file[w] = f => PathRight(w)
  /\ Scanning => f \notin touched /\ (disk[f].content = None => MissingCovered(f))

\* The files that the index follows: after a restart, those that exist.
Due(f) == restarts = 0 \/ disk[f].content /= None

Follow == \A f \in Files \ missed : Due(f) => Loose(f) \/ Settled(f)

Orderly ==
  /\ Linked /\ Whole /\ Kinds
  /\ up /\ restarts = 0 => Shown
  /\ up => Follow

Watched == IndexInv /\ QueueTypes /\ Bootable /\ (failures = 0 => Orderly)

LEMMA Names ==
  /\ \A f \in Files : f /= Rescan /\ f /= None /\ f /= NewDir
  /\ Rescan /= None /\ NewDir /= None /\ Rescan /= NewDir
BY LiveWatcherAssumption DEF LiveWatcherAssumption, Events

(* The queues: what will look at a file is handed on, never dropped.         *)

LEMMA Queues ==
  ASSUME QueueTypes
  PROVE  osEvents \in Seq(Events) /\ events \in Seq(Events) /\ tasks \in Seq(Events \cup {Rescan})
BY Depths, Channel DEF QueueTypes

LEMMA Appended ==
  ASSUME NEW S, NEW s \in Seq(S), NEW e \in S, NEW x, Contains(s, x) \/ x = e
  PROVE  Contains(Append(s, e), x)
<1>1. /\ Len(Append(s, e)) = Len(s) + 1 /\ Len(s) \in Nat
      /\ \A i \in 1..Len(s) : Append(s, e)[i] = s[i]
      /\ Append(s, e)[Len(s) + 1] = e
  BY AppendProperties, LenProperties
<1>2. QED BY <1>1 DEF Contains

LEMMA Received ==
  ASSUME NEW S, NEW s \in Seq(S), s /= <<>>, NEW x, Contains(s, x)
  PROVE  x = Head(s) \/ Contains(Tail(s), x)
<1>1. PICK i \in 1..Len(s) : s[i] = x
  BY DEF Contains
<1>2. /\ Len(s) \in Nat /\ Head(s) = s[1] /\ Len(Tail(s)) = Len(s) - 1
      /\ \A j \in 1..Len(Tail(s)) : Tail(s)[j] = s[j + 1]
  BY HeadTailProperties, LenProperties
<1>3. CASE i = 1
  BY <1>1, <1>2, <1>3
<1>4. CASE i /= 1
  <2>1. i - 1 \in 1..Len(Tail(s)) /\ Tail(s)[i - 1] = x
    BY <1>1, <1>2, <1>4
  <2>2. QED BY <2>1 DEF Contains
<1>5. QED BY <1>3, <1>4

LEMMA EventPlaces ==
  ASSUME NEW f
  PROVE  /\ EventCovers(f) <=> Contains(osEvents, f) \/ Contains(events, f) \/ Contains(tasks, f)
         /\ EventCovers(f)' <=> Contains(osEvents', f) \/ Contains(events', f) \/ Contains(tasks', f)
BY DEF EventCovers

QueueAct == MakeDirectory \/ HandleWatchEvent \/ HandleOverflow \/ DebounceStep

LEMMA NotifyKeeps ==
  ASSUME QueueTypes, NEW e \in Events, Notify(e), NEW f,
         Contains(osEvents, f) \/ overflow \/ f = e
  PROVE  Contains(osEvents', f) \/ overflow'
BY ZenonT(40), Queues, Appended DEF Notify

LEMMA QueueActKeeps ==
  ASSUME QueueTypes, QueueAct
  PROVE  /\ UNCHANGED <<indexVars, job, up, restarts, missed>>
         /\ \A f \in Files : Loose(f) => Loose(f)'
<1>1. UNCHANGED <<indexVars, job, up, restarts, missed>>
  BY DEF QueueAct, MakeDirectory, HandleWatchEvent, HandleOverflow, DebounceStep, LoopStep,
     ReceiveRescan, ReceiveEvent, TimerFires, EnqueuePath, EndFlush, EnqueueRescanTask
<1>2. pc' = pc /\ RescanWaits' = RescanWaits
  BY <1>1 DEF indexVars, jobs, RescanWaits
<1> SUFFICES ASSUME NEW f \in Files, Loose(f) PROVE Loose(f)'
  BY <1>1
<1>3. ASSUME EventCovers(f) \/ f \in pending \/ overflow \/ rescans \/ loop = "rescan"
               \/ Contains(tasks, Rescan) =>
             EventCovers(f)' \/ f \in pending' \/ overflow' \/ rescans' \/ loop' = "rescan"
               \/ Contains(tasks', Rescan)
      PROVE  Loose(f)'
  BY <1>1, <1>2, <1>3 DEF Loose, RescanQueued
<1>4. CASE MakeDirectory
  <2>1. CASE Notify(NewDir)
    <3>1. NewDir \in Events
      BY DEF Events
    <3>2. Contains(osEvents, f) \/ overflow => Contains(osEvents', f) \/ overflow'
      BY <2>1, <3>1, NotifyKeeps
    <3>3. QED BY <1>3, <1>4, <3>2, EventPlaces DEF MakeDirectory
  <2>2. CASE UNCHANGED <<osEvents, overflow>>
    BY <1>3, <1>4, <2>2, EventPlaces DEF MakeDirectory
  <2>3. QED BY <1>4, <2>1, <2>2 DEF MakeDirectory
<1>5. CASE HandleWatchEvent
  <2>1. osEvents \in Seq(Events) /\ osEvents /= <<>> /\ Head(osEvents) \in Events
    BY <1>5, Queues, HeadTailProperties DEF HandleWatchEvent
  <2>2. Contains(osEvents, f) => f = Head(osEvents) \/ Contains(osEvents', f)
    BY <1>5, <2>1, Received DEF HandleWatchEvent
  <2>3. \/ rescans' /\ events' = events
        \/ rescans' = rescans /\ events' = Append(events, Head(osEvents))
    BY <1>5 DEF HandleWatchEvent
  <2>4. Contains(events, f) \/ f = Head(osEvents) => Contains(events', f) \/ rescans'
    <3>1. CASE events' = Append(events, Head(osEvents))
      <4>1. \A x : Contains(events, x) \/ x = Head(osEvents) => Contains(events', x)
        BY <2>1, <3>1, Queues, Appended
      <4>2. QED BY <4>1
    <3>2. QED BY <2>3, <3>1
  <2>5. rescans => rescans'
    BY <2>3
  <2>6. QED BY <1>3, <1>5, <2>2, <2>4, <2>5, EventPlaces DEF HandleWatchEvent
<1>6. CASE HandleOverflow
  BY <1>3, <1>6, EventPlaces DEF HandleOverflow
<1>7. CASE ReceiveRescan \/ TimerFires \/ EndFlush
  BY <1>3, <1>7, EventPlaces DEF ReceiveRescan, TimerFires, EndFlush, LoopStep
<1>8. CASE ReceiveEvent
  <2>1. Contains(events, f) => f = Head(events) \/ Contains(events', f)
    BY <1>8, Queues, Received DEF ReceiveEvent
  <2>2. QED BY <1>3, <1>8, <2>1, EventPlaces DEF ReceiveEvent, LoopStep
<1>9. ASSUME NEW e \in Events, EnqueuePath(e) PROVE Loose(f)'
  <2>1. CASE loop' = "rescan"
    BY <1>3, <2>1
  <2>2. CASE tasks' = Append(tasks, e) /\ pending' = pending \ {e}
    <3>1. e \in Events \cup {Rescan}
      OBVIOUS
    <3>2. \A x : Contains(tasks, x) \/ x = e => Contains(tasks', x)
      BY <2>2, <3>1, Queues, Appended
    <3>3. QED BY <1>3, <1>9, <2>2, <3>2, EventPlaces DEF EnqueuePath, LoopStep
  <2>3. QED BY <1>9, <2>1, <2>2 DEF EnqueuePath
<1>10. CASE EnqueueRescanTask
  <2>1. \A x : Contains(tasks, x) \/ x = Rescan => Contains(tasks', x)
    BY <1>10, Queues, Appended DEF EnqueueRescanTask
  <2>2. QED BY <1>3, <1>10, <2>1, EventPlaces DEF EnqueueRescanTask, LoopStep
<1>11. QED BY <1>4, <1>5, <1>6, <1>7, <1>8, <1>9, <1>10 DEF QueueAct, DebounceStep

\* A worker without a task is idle.
LEMMA Jobless ==
  ASSUME Types, Linked, NEW w \in Workers, job[w] \in {None, NewDir}
  PROVE  pc[w] = "idle"
BY Names DEF Types, JobTypes, Linked

LEMMA SubmitKeeps ==
  ASSUME Types, QueueTypes, Linked, NEW w \in Workers, Submit(w)
  PROVE  /\ UNCHANGED <<indexVars, up, restarts, missed>>
         /\ Linked'
         /\ \A f \in Files : Loose(f) => Loose(f)'
<1>1. /\ UNCHANGED <<indexVars, up, restarts, missed, osEvents, overflow, events, rescans, pending, loop>>
      /\ job[w] = None /\ job' = [job EXCEPT ![w] = Head(tasks)] /\ tasks' = Tail(tasks)
      /\ tasks \in Seq(Events \cup {Rescan}) /\ tasks /= <<>>
      /\ job \in [Workers -> Events \cup {Rescan, None}]
  BY Queues DEF Submit, QueueTypes
<1>2. pc[w] = "idle" /\ pc' = pc /\ file' = file
  BY <1>1, Jobless DEF indexVars, jobs
<1>3. Linked'
  BY <1>1, <1>2 DEF Linked, PathPCs
<1>4. \A x : Contains(tasks, x) => x = Head(tasks) \/ Contains(tasks', x)
  BY <1>1, Received
<1>5. job'[w] = Head(tasks) /\ \A v \in Workers \ {w} : job'[v] = job[v]
  BY <1>1
<1>6. ASSUME NEW f \in Files, Loose(f) PROVE Loose(f)'
  <2>1. CASE EventCovers(f)
    BY <1>1, <1>2, <1>4, <1>5, <2>1, EventPlaces DEF Loose
  <2>2. CASE RescanQueued
    <3>1. CASE Contains(tasks, Rescan)
      BY <1>2, <1>4, <1>5, <3>1 DEF Loose, RescanQueued, RescanWaits
    <3>2. CASE RescanWaits
      <4>1. PICK v \in Workers : job[v] = Rescan /\ pc[v] = "idle"
        BY <3>2 DEF RescanWaits
      <4>2. v /= w
        BY <1>1, <4>1, Names
      <4>3. QED BY <1>2, <1>5, <4>1, <4>2 DEF Loose, RescanQueued, RescanWaits
    <3>3. CASE overflow \/ rescans \/ loop = "rescan"
      BY <1>1, <3>3 DEF Loose, RescanQueued
    <3>4. QED BY <2>2, <3>1, <3>2, <3>3 DEF RescanQueued
  <2>3. CASE \E v \in Workers : job[v] = f /\ pc[v] \in {"idle", "lstat"}
    <3>1. PICK v \in Workers : job[v] = f /\ pc[v] \in {"idle", "lstat"}
      BY <2>3
    <3>2. v /= w
      BY <1>1, <3>1, Names
    <3>3. QED BY <1>2, <1>5, <3>1, <3>2 DEF Loose
  <2>4. CASE f \in pending
    BY <1>1, <2>4 DEF Loose
  <2>5. QED BY <1>6, <2>1, <2>2, <2>3, <2>4 DEF Loose
<1>7. QED BY <1>1, <1>3, <1>6

\* What is loose stays so while the task of w goes on: only the path task of f
\* itself, when it takes the stat of f, is no longer loose.
LEMMA WorkKeeps ==
  ASSUME QueueTypes, NEW w \in Workers,
         UNCHANGED queues,
         \A v \in Workers \ {w} : pc'[v] = pc[v] /\ job'[v] = job[v],
         NEW f \in Files, Loose(f),
         pc[w] \in {"idle", "lstat"} => job[w] \notin {f, Rescan}
  PROVE  Loose(f)'
<1>1. EventCovers(f)' <=> EventCovers(f)
  BY EventPlaces DEF queues
<1>2. RescanWaits => RescanWaits'
  BY DEF RescanWaits
<1>3. RescanQueued => RescanQueued'
  BY <1>2 DEF RescanQueued, queues
<1>4. (\E v \in Workers : job[v] = f /\ pc[v] \in {"idle", "lstat"}) =>
      (\E v \in Workers : job[v] = f /\ pc[v] \in {"idle", "lstat"})'
  OBVIOUS
<1>5. QED BY <1>1, <1>3, <1>4 DEF Loose, queues

(* The steps of the tasks, while none fails.                                 *)

LEMMA InitOrderly == LiveInit => Orderly
<1> SUFFICES ASSUME LiveInit PROVE Orderly
  OBVIOUS
<1>1. \A w \in Workers : pc[w] = "idle"
  BY DEF LiveInit, IndexInit
<1>2. scan = NoScan
  BY DEF LiveInit, IndexInit
<1>3. Whole
  BY <1>2 DEF Whole, NoScan
<1>4. Linked
  BY <1>1 DEF Linked, PathPCs
<1>5. Kinds
  BY <1>1, <1>2, NoScanFields DEF Kinds, SavePCs
<1>6. ASSUME NEW f \in Files PROVE state[f].status \in OnPage \/ Bare(f)
  BY DEF LiveInit, IndexInit, OnPage, Bare, Indexable
<1>7. Shown
  <2>1. scan.tomb = {} /\ scan.step = "none"
    BY <1>2 DEF NoScan
  <2>2. QED BY <1>1, <1>6, <2>1 DEF Shown, Storing
<1>8. \A f \in Files : Fresh(f)
  BY DEF LiveInit, IndexInit, Fresh
<1>9. Follow
  BY <1>1, <1>8 DEF Follow, Settled, Scanning, PathPCs
<1>10. QED BY <1>3, <1>4, <1>5, <1>7, <1>9 DEF Orderly

\* A step never takes back a failure.
LEMMA FailuresStay ==
  ASSUME Types, [IndexNext]_indexVars, failures' = 0
  PROVE  failures = 0
<1>1. failures \in Nat /\ failures' /= failures + 1
  BY DEF Types, JobTypes, DiskTypes
<1>2. CASE ScanProgress
  BY <1>1, <1>2, ScanProgressFrame
<1>3. ASSUME NEW w \in Workers, PathStep(w) PROVE failures = 0
  BY <1>1, <1>3 DEF PathStep, Lstat, Read, SaveState, SaveGraph, SaveSearch, FailPath
<1>4. QED
  BY <1>1, <1>2, <1>3 DEF IndexNext, IndexStep, Edit, BeginPath, BeginScan, FinishScan, FailScan,
     IndexCrash, indexVars

PathTaskStep(w) == Lstat(w) \/ Read(w) \/ SaveState(w) \/ SaveGraph(w) \/ SaveSearch(w)

ScanTaskStep ==
  \/ \E f \in Files : WalkFile(f) \/ WalkGoneFile(f) \/ PrepareFile(f)
  \/ SaveBatchStates \/ SaveBatchGraph \/ SaveBatchSearch
  \/ AfterWalk

\* The steps of the watcher in which nothing fails.
LEMMA SmoothSteps ==
  ASSUME Types, Whole, failures = 0, failures' = 0, [LiveNext]_liveVars
  PROVE  \/ UNCHANGED liveVars
         \/ QueueAct
         \/ up /\ \E f \in Files, c \in Contents \cup {None} : ChangeFile(f, c)
         \/ ~up /\ \E f \in Files, c \in Contents \cup {None} : ChangeFile(f, c)
         \/ \E w \in Workers : Submit(w) \/ IngestDirectory(w)
         \/ \E w \in Workers, f \in Files :
              BeginPath(w, f) /\ job[w] = f /\ ~RescanWaits /\ UNCHANGED watcherVars
         \/ \E w \in Workers : BeginScan(w) /\ job[w] = Rescan /\ UNCHANGED watcherVars
         \/ \E w \in Workers : Execute(w) /\ (PathTaskStep(w) \/ FinishScan(w))
         \/ ScanTaskStep /\ ScanProgress /\ UNCHANGED watcherVars
         \/ Crash \/ Boot
<1>1. failures' /= failures + 1
  OBVIOUS
<1>2. ~FailBatch /\ \A D \in SUBSET Files : ~WalkUnreadableDirectory(D)
  BY <1>1 DEF FailBatch, WalkUnreadableDirectory
<1>3. \A w \in Workers : ~FailPath(w) /\ ~FailScan(w)
  BY <1>1 DEF FailPath, FailScan, Whole
<1>4. \A w \in Workers : Begin(w) =>
        \/ \E f \in Files : BeginPath(w, f) /\ job[w] = f /\ ~RescanWaits /\ UNCHANGED watcherVars
        \/ BeginScan(w) /\ job[w] = Rescan /\ UNCHANGED watcherVars
  BY DEF Begin
<1>5. \A w \in Workers : Execute(w) => PathTaskStep(w) \/ FinishScan(w)
  BY <1>3 DEF Execute, PathStep, PathTaskStep
<1>6. ExecuteScan => ScanTaskStep /\ ScanProgress /\ UNCHANGED watcherVars
  BY <1>2, ScanProgressCases DEF ExecuteScan, ScanTaskStep
<1>7. CASE LiveNext
  BY <1>4, <1>5, <1>6, <1>7 DEF LiveNext, QueueAct
<1>8. QED BY <1>7

LEMMA ScanAlone ==
  ASSUME Types, Alone, Phases, Linked, NEW w \in Workers, FinishScan(w)
  PROVE  /\ pc[w] = "scan" /\ pc' = [pc EXCEPT ![w] = "idle"] /\ scan' = NoScan
         /\ \A v \in Workers \ {w} : pc[v] = "idle"
         /\ UNCHANGED <<disk, edits, failures, stores, file, result>>
BY DEF FinishScan, ScanOver, Alone

\* What a step of a path task of w changes.
LEMMA PathEffect ==
  ASSUME Types, Linked, NEW w \in Workers,
         PathTaskStep(w)
  PROVE  /\ pc[w] \in PathPCs /\ file[w] \in Files /\ job[w] = file[w]
         /\ \A v \in Workers \ {w} : pc'[v] = pc[v] /\ file'[v] = file[v] /\ result'[v] = result[v]
         /\ UNCHANGED <<disk, edits, failures, scan, touched>>
         /\ \A f \in Files \ {file[w]} : state'[f] = state[f] /\ graph'[f] = graph[f] /\ search'[f] = search[f]
         /\ Lstat(w) =>
              /\ pc[w] = "lstat" /\ file' = file /\ UNCHANGED stores
              /\ \/ /\ disk[file[w]].content = None /\ pc'[w] = "saveState"
                    /\ result'[w] = [NoResult EXCEPT !.status = "absent"]
                 \/ /\ disk[file[w]].content /= None /\ pc'[w] = "read"
                    /\ result'[w] = [NoResult EXCEPT !.mtime = disk[file[w]].mtime]
         /\ Read(w) =>
              /\ pc[w] = "read" /\ pc'[w] = "saveState" /\ file' = file /\ UNCHANGED stores
              /\ result'[w] = Prepared(file[w], result[w].mtime)
         /\ SaveState(w) =>
              /\ pc[w] = "saveState" /\ pc'[w] = "saveGraph" /\ UNCHANGED <<file, result, graph, search>>
              /\ state'[file[w]] = StateOf(result[w])
         /\ SaveGraph(w) =>
              /\ pc[w] = "saveGraph" /\ pc'[w] = "saveSearch" /\ UNCHANGED <<file, result, state, search>>
              /\ graph'[file[w]] = Saved(graph[file[w]], result[w])
         /\ SaveSearch(w) =>
              /\ pc[w] = "saveSearch" /\ pc'[w] = "idle" /\ UNCHANGED <<state, graph>>
              /\ search'[file[w]] = Saved(search[file[w]], result[w])
<1>1. /\ pc \in [Workers -> PathPCs \cup {"idle", "scan"}]
      /\ file \in [Workers -> Files \cup {None}]
      /\ result \in [Workers -> SafeResult]
      /\ state \in [Files -> SafeState]
      /\ graph \in [Files -> Eligible \cup {None}]
      /\ search \in [Files -> Eligible \cup {None}]
  BY DEF Types, StoreTypes, JobTypes
<1>2. pc[w] \in PathPCs
  BY DEF PathTaskStep, Lstat, Read, SaveState, SaveGraph, SaveSearch, PathPCs
<1>3. file[w] \in Files /\ job[w] = file[w]
  BY <1>2 DEF Types, JobTypes, Linked
<1>4. CASE Lstat(w)
  BY <1>1, <1>2, <1>3, <1>4 DEF Lstat, Read, SaveState, SaveGraph, SaveSearch, stores
<1>5. CASE Read(w)
  BY <1>1, <1>2, <1>3, <1>5 DEF Lstat, Read, SaveState, SaveGraph, SaveSearch, stores
<1>6. CASE SaveState(w)
  BY <1>1, <1>2, <1>3, <1>6 DEF Lstat, Read, SaveState, SaveGraph, SaveSearch, stores
<1>7. CASE SaveGraph(w)
  BY <1>1, <1>2, <1>3, <1>7 DEF Lstat, Read, SaveState, SaveGraph, SaveSearch, stores
<1>8. CASE SaveSearch(w)
  BY <1>1, <1>2, <1>3, <1>8 DEF Lstat, Read, SaveState, SaveGraph, SaveSearch, PathOver, stores
<1>9. QED BY <1>4, <1>5, <1>6, <1>7, <1>8 DEF PathTaskStep

\* A scan that does not fail goes on so, and one page is enough.
LEMMA OnePageScan ==
  ASSUME OnePage, Types, Whole, ScanTaskStep
  PROVE  /\ Whole'
         /\ ~NextPage
         /\ FirstPage => \A f \in Present \ scan.seen : f \in scan'.page
<1> USE DEF ScanStep
<1>1. ASSUME scan'.failed = scan.failed, scan'.hidden = scan.hidden, scan'.next \in {0, scan.next}
      PROVE  Whole'
  BY <1>1 DEF Whole
<1>2. ~NextPage
  BY DEF NextPage, Whole
<1>3. CASE \E f \in Files : WalkFile(f) \/ WalkGoneFile(f) \/ PrepareFile(f)
  <2>1. \E a, b, c : \/ scan' = [scan EXCEPT !.todo = a, !.stated = b]
                     \/ scan' = [scan EXCEPT !.todo = a, !.ready = b, !.seen = c]
                     \/ scan' = [scan EXCEPT !.stated = a, !.ready = b, !.seen = c]
    BY <1>3 DEF WalkFile, WalkGoneFile, PrepareFile
  <2>2. scan'.failed = scan.failed /\ scan'.hidden = scan.hidden /\ scan'.next = scan.next
        /\ scan'.step = scan.step
    BY <2>1 DEF Types, Scans
  <2>3. ~FirstPage
    BY <2>2, ScanFields DEF FirstPage, ListPage, Types, Scans
  <2>4. QED BY <1>1, <1>2, <2>2, <2>3
<1>4. CASE SaveBatchStates
  <2>1. \E a, b : scan' = [scan EXCEPT !.saving = a, !.ready = b, !.step = "graph"]
    BY <1>4 DEF SaveBatchStates
  <2>2. scan'.failed = scan.failed /\ scan'.hidden = scan.hidden /\ scan'.next = scan.next
    BY <2>1 DEF Types, Scans
  <2>3. ~FirstPage
    BY <1>4 DEF SaveBatchStates, FirstPage
  <2>4. QED BY <1>1, <1>2, <2>2, <2>3
<1>5. CASE SaveBatchGraph \/ SaveBatchSearch \/ BeginTombstones
  BY <1>1, <1>2, <1>5 DEF SaveBatchGraph, SaveBatchSearch, BeginTombstones, FirstPage, Types, Scans
<1>6. CASE FirstPage
  <2> DEFINE last == 0 + PageSize
             page == {f \in Present \ scan.seen : Place(f) \in 0 + 1 .. last}
             next == IF Cardinality(Present) > last THEN last ELSE 0
  <2>1. next = 0
    BY FewPresent, FileIndexAssumption DEF FileIndexAssumption, OnePage
  <2>2. scan' = [scan EXCEPT !.step = "tombstone", !.page = page, !.next = next]
    BY <1>6 DEF FirstPage, ListPage
  <2>3. ASSUME NEW f \in Present \ scan.seen PROVE f \in page
    <3> DEFINE before == {g \in Present : HashOrder[g] <= HashOrder[f]}
    <3>1. /\ before \in SUBSET Present /\ f \in before
      BY <2>3, FileIndexAssumption DEF FileIndexAssumption, Present
    <3> HIDE DEF before
    <3>2. /\ IsFiniteSet(before) /\ Cardinality(before) <= Cardinality(Present)
          /\ Cardinality(before) \in Nat /\ Cardinality(before) /= 0
      BY <3>1, FewPresent, FS_Subset, FS_CardinalityType, FS_EmptySet
    <3>3. Cardinality(before) \in 1..PageSize
      BY <3>2, FewPresent, FileIndexAssumption DEF FileIndexAssumption, OnePage
    <3>4. Place(f) = Cardinality(before)
      BY DEF Place, before
    <3>5. QED BY <2>3, <3>3, <3>4, FileIndexAssumption DEF FileIndexAssumption
  <2> HIDE DEF page, next
  <2>4. /\ scan'.failed = scan.failed /\ scan'.hidden = scan.hidden /\ scan'.next = 0
        /\ scan'.page = page
    BY <2>1, <2>2 DEF Types, Scans
  <2>5. QED BY <1>1, <1>2, <2>3, <2>4
<1>7. CASE TombstoneState
  <2>1. \E a, b : scan' = [scan EXCEPT !.step = "tombGraph", !.page = a, !.tomb = b]
    BY <1>7 DEF TombstoneState
  <2>2. scan'.failed = scan.failed /\ scan'.hidden = scan.hidden /\ scan'.next = scan.next
    BY <2>1 DEF Types, Scans
  <2>3. ~FirstPage
    BY <1>7 DEF TombstoneState, FirstPage
  <2>4. QED BY <1>1, <1>2, <2>2, <2>3
<1>8. CASE TombstoneGraph \/ TombstoneSearch
  BY <1>1, <1>2, <1>8 DEF TombstoneGraph, TombstoneSearch, FirstPage, Types, Scans
<1>9. QED BY <1>2, <1>3, <1>4, <1>5, <1>6, <1>7, <1>8 DEF ScanTaskStep, AfterWalk

LEMMA NextLinked ==
  ASSUME OnePage, Types, Alone, Phases, QueueTypes, Linked, Whole,
         failures = 0, failures' = 0, [LiveNext]_liveVars
  PROVE  Linked' /\ Whole'
<1>1. /\ pc \in [Workers -> PathPCs \cup {"idle", "scan"}]
      /\ file \in [Workers -> Files \cup {None}]
      /\ job \in [Workers -> Events \cup {Rescan, None}]
  BY DEF Types, JobTypes, QueueTypes
<1>2. CASE UNCHANGED <<scan, pc, file, job>>
  BY <1>2 DEF Whole, Linked
<1>3. CASE QueueAct
  BY <1>2, <1>3, QueueActKeeps DEF indexVars, jobs
<1>4. ASSUME NEW f \in Files, NEW c, ChangeFile(f, c) PROVE Linked' /\ Whole'
  BY <1>2, <1>4 DEF ChangeFile, Edit, jobs
<1>5. ASSUME NEW w \in Workers, Submit(w) PROVE Linked' /\ Whole'
  BY <1>5, SubmitKeeps DEF Whole, indexVars, jobs
<1>6. ASSUME NEW w \in Workers, IngestDirectory(w) PROVE Linked' /\ Whole'
  <2>1. pc[w] = "idle"
    BY <1>6, Jobless DEF IngestDirectory
  <2>2. QED BY <1>1, <1>6, <2>1 DEF IngestDirectory, Whole, Linked, PathPCs, indexVars, jobs
<1>7. ASSUME NEW w \in Workers, NEW f \in Files,
             BeginPath(w, f), job[w] = f, UNCHANGED watcherVars
      PROVE  Linked' /\ Whole'
  BY <1>1, <1>7 DEF BeginPath, Whole, Linked, PathPCs, watcherVars
<1>8. ASSUME NEW w \in Workers, BeginScan(w), job[w] = Rescan, UNCHANGED watcherVars
      PROVE  Linked' /\ Whole'
  <2>1. ~scan'.failed /\ scan'.hidden = {} /\ scan'.next = 0
    BY <1>8 DEF BeginScan, NoScan
  <2>2. QED BY <1>1, <1>8, <2>1 DEF BeginScan, Whole, Linked, PathPCs, watcherVars
<1>9. ASSUME NEW w \in Workers, Execute(w), PathTaskStep(w)
      PROVE  Linked' /\ Whole'
  <2>1. /\ pc[w] \in PathPCs /\ job[w] = file[w] /\ scan' = scan
        /\ \A v \in Workers \ {w} : pc'[v] = pc[v] /\ file'[v] = file[v]
        /\ \/ pc'[w] \in PathPCs /\ file' = file
           \/ pc'[w] = "idle"
    BY <1>9, PathEffect DEF PathPCs, PathTaskStep
  <2>2. /\ \A v \in Workers \ {w} : job'[v] = job[v]
        /\ pc'[w] /= "idle" => job'[w] = job[w]
    BY <1>1, <1>9 DEF Execute
  <2>3. QED BY <2>1, <2>2 DEF Whole, Linked, PathPCs
<1>10. ASSUME NEW w \in Workers, Execute(w), FinishScan(w)
       PROVE  Linked' /\ Whole'
  <2>1. (\A v \in Workers : pc'[v] = "idle") /\ scan' = NoScan
    BY <1>1, <1>10, ScanAlone
  <2>2. QED BY <2>1 DEF Whole, Linked, PathPCs, NoScan
<1>11. CASE ScanTaskStep /\ ScanProgress /\ UNCHANGED watcherVars
  <2>1. UNCHANGED <<pc, file, job>> /\ Whole'
    BY <1>11, ScanProgressFrame, OnePageScan DEF watcherVars
  <2>2. QED BY <2>1 DEF Linked
<1>12. CASE Crash
  <2>1. (\A v \in Workers : pc'[v] = "idle") /\ scan' = NoScan
    BY <1>12 DEF Crash, IndexCrash
  <2>2. QED BY <2>1 DEF Whole, Linked, PathPCs, NoScan
<1>13. CASE Boot \/ UNCHANGED liveVars
  BY <1>2, <1>13 DEF Boot, liveVars, watcherVars, indexVars, jobs
<1>14. QED
  BY <1>3, <1>4, <1>5, <1>6, <1>7, <1>8, <1>9, <1>10, <1>11, <1>12, <1>13, SmoothSteps

(* What is stored of a file is listed, so that the tombstones find it.       *)

LEMMA PreparedKind ==
  ASSUME NEW f, NEW m
  PROVE  Prepared(f, m).status \in OnPage
BY DEF Prepared, OnPage

LEMMA PathKinds ==
  ASSUME Types, Linked, Alone, Kinds, NEW w \in Workers,
         PathTaskStep(w)
  PROVE  Kinds'
<1>1. /\ pc[w] \in PathPCs /\ scan' = scan
      /\ \A v \in Workers \ {w} : pc'[v] = pc[v] /\ result'[v] = result[v]
  BY PathEffect
<1>2. scan = NoScan
  BY <1>1 DEF Alone, Scanning, PathPCs
<1>3. DOMAIN scan'.ready = {} /\ DOMAIN scan'.saving = {}
  BY <1>1, <1>2, NoScanFields
<1>4. ASSUME pc'[w] \in SavePCs
      PROVE  result'[w].status \in OnPage \/ (result'[w].content = None /\ ~result'[w].unchanged)
  <2>1. CASE Lstat(w)
    <3>1. result'[w] = [NoResult EXCEPT !.status = "absent"]
      BY <1>4, <2>1, PathEffect DEF SavePCs
    <3>2. QED BY <3>1 DEF NoResult
  <2>2. CASE Read(w)
    <3>1. result'[w] = Prepared(file[w], result[w].mtime)
      BY <2>2, PathEffect
    <3>2. QED BY <3>1, PreparedKind
  <2>3. CASE SaveState(w) \/ SaveGraph(w)
    <3>1. pc[w] \in SavePCs /\ result'[w] = result[w]
      BY <2>3, PathEffect DEF SavePCs
    <3>2. QED BY <3>1 DEF Kinds
  <2>4. CASE SaveSearch(w)
    BY <1>4, <2>4, PathEffect DEF SavePCs
  <2>5. QED BY <2>1, <2>2, <2>3, <2>4 DEF PathTaskStep
<1>5. QED BY <1>1, <1>3, <1>4 DEF Kinds

LEMMA ScanKinds ==
  ASSUME Types, Phases, Kinds, ScanTaskStep, ScanProgress
  PROVE  Kinds'
<1>1. UNCHANGED <<pc, result>>
  BY ScanProgressFrame
<1>2. ASSUME \A f \in DOMAIN scan'.ready : scan'.ready[f].status \in OnPage,
             \A f \in DOMAIN scan'.saving : scan'.saving[f].status \in OnPage /\ state'[f].status \in OnPage
      PROVE  Kinds'
  BY <1>1, <1>2 DEF Kinds
<1>3. ASSUME NEW f \in Files, WalkFile(f) PROVE Kinds'
  <2>1. state' = state /\ scan'.ready = scan.ready /\ scan'.saving = scan.saving
    BY <1>3, WalkEffect DEF stores
  <2>2. QED BY <1>2, <2>1 DEF Kinds
<1>4. ASSUME NEW f \in Files, WalkGoneFile(f) \/ PrepareFile(f) PROVE Kinds'
  <2>1. /\ state' = state /\ scan'.saving = scan.saving
        /\ DOMAIN scan'.ready = DOMAIN scan.ready \cup {f}
        /\ \A g \in DOMAIN scan.ready \ {f} : scan'.ready[g] = scan.ready[g]
    BY <1>4, WalkGoneEffect, PrepareEffect DEF stores
  <2>2. scan'.ready[f].status \in OnPage
    BY <1>4, WalkGoneEffect, PrepareEffect, PreparedKind DEF OnPage
  <2>3. QED BY <1>2, <2>1, <2>2 DEF Kinds
<1>5. CASE SaveBatchStates
  <2>1. /\ scan'.saving = scan.ready /\ DOMAIN scan'.ready = {}
        /\ state' = [f \in Files |-> IF f \in DOMAIN scan.ready THEN StateOf(scan.ready[f]) ELSE state[f]]
    BY <1>5, SaveEffect DEF SaveBatchStates
  <2>2. \A f \in DOMAIN scan.ready : f \in Files
    BY ScanFields, BatchType
  <2>3. \A f \in DOMAIN scan.ready : state'[f].status = scan.ready[f].status
    BY <2>1, <2>2 DEF StateOf
  <2>4. QED BY <1>2, <2>1, <2>3 DEF Kinds
<1>6. CASE SaveBatchGraph
  <2>1. state' = state /\ scan'.ready = scan.ready /\ scan'.saving = scan.saving
    BY <1>6, SaveEffect
  <2>2. QED BY <1>2, <2>1 DEF Kinds
<1>7. CASE SaveBatchSearch
  <2>1. state' = state /\ scan'.ready = scan.ready /\ DOMAIN scan'.saving = {}
    BY <1>7, SaveEffect
  <2>2. QED BY <1>2, <2>1 DEF Kinds
<1>8. CASE AfterWalk
  <2>1. scan'.ready = scan.ready /\ scan'.saving = scan.saving /\ DOMAIN scan'.saving = {}
    BY <1>8, TombstoneEffect DEF Phases
  <2>2. QED BY <1>2, <2>1 DEF Kinds
<1>9. QED BY <1>3, <1>4, <1>5, <1>6, <1>7, <1>8 DEF ScanTaskStep

LEMMA PathShown ==
  ASSUME Types, Linked, OneTaskPerFile, Alone, Kinds, Shown, NEW w \in Workers,
         PathTaskStep(w)
  PROVE  Shown'
<1>1. /\ pc[w] \in PathPCs /\ scan' = scan /\ file[w] \in Files
      /\ \A v \in Workers \ {w} : pc'[v] = pc[v] /\ file'[v] = file[v] /\ result'[v] = result[v]
      /\ \A f \in Files \ {file[w]} : state'[f] = state[f] /\ graph'[f] = graph[f] /\ search'[f] = search[f]
  BY PathEffect
<1>2. scan = NoScan /\ scan.tomb = {}
  BY <1>1, NoScanFields DEF Alone, Scanning, PathPCs
<1>3. ASSUME NEW v \in Workers, v /= w, Storing(v)
      PROVE  file[v] \in Files \ {file[w]}
  <2>1. pc[v] \in PathPCs
    BY <1>3 DEF Storing, PathPCs
  <2>2. QED BY <1>1, <1>3, <2>1 DEF OneTaskPerFile, Types, JobTypes
<1>4. scan'.tomb = {}
  BY <1>1, <1>2
<1>5. ASSUME NEW f \in Files, f /= file[w]
      PROVE  \/ state'[f].status \in OnPage \/ Bare(f)'
             \/ \E v \in Workers : Storing(v)' /\ file'[v] = f
  <2>1. CASE state[f].status \in OnPage \/ Bare(f)
    BY <1>1, <1>5, <2>1 DEF Bare
  <2>2. CASE \E v \in Workers : Storing(v) /\ file[v] = f
    BY <1>1, <1>5, <2>2 DEF Storing
  <2>3. QED BY <1>2, <2>1, <2>2 DEF Shown
<1>6. ASSUME \/ state'[file[w]].status \in OnPage \/ (graph'[file[w]] = None /\ search'[file[w]] = None)
             \/ Storing(w)' /\ file' = file,
             Storing(w)' /\ state'[file[w]].status \notin OnPage =>
               /\ result'[w].content = None /\ ~result'[w].unchanged
               /\ pc'[w] = "saveSearch" => graph'[file[w]] = None,
             Storing(w)' => file' = file
      PROVE  Shown'
  <2>1. \A f \in Files :
          \/ state'[f].status \in OnPage \/ Bare(f)' \/ f \in scan'.tomb
          \/ \E v \in Workers : Storing(v)' /\ file'[v] = f
    <3> SUFFICES ASSUME NEW f \in Files
                 PROVE  \/ state'[f].status \in OnPage \/ Bare(f)' \/ f \in scan'.tomb
                        \/ \E v \in Workers : Storing(v)' /\ file'[v] = f
      OBVIOUS
    <3>1. CASE f = file[w]
      BY <1>6, <3>1 DEF Bare
    <3>2. CASE f /= file[w]
      BY <1>5, <3>2
    <3>3. QED BY <3>1, <3>2
  <2>2. ASSUME NEW v \in Workers, Storing(v)', state'[file'[v]].status \notin OnPage
        PROVE  /\ result'[v].content = None /\ ~result'[v].unchanged
               /\ pc'[v] = "saveSearch" => graph'[file'[v]] = None
    <3>1. CASE v = w
      BY <1>6, <2>2, <3>1
    <3>2. CASE v /= w
      <4>1. Storing(v) /\ pc'[v] = pc[v] /\ file'[v] = file[v] /\ result'[v] = result[v]
        BY <1>1, <2>2, <3>2 DEF Storing
      <4>2. state'[file[v]] = state[file[v]] /\ graph'[file[v]] = graph[file[v]]
        BY <1>1, <1>3, <3>2, <4>1
      <4>3. QED BY <2>2, <4>1, <4>2 DEF Shown
    <3>3. QED BY <3>1, <3>2
  <2>3. scan'.step = "none"
    BY <1>1, <1>2, NoScanFields
  <2>4. QED BY <1>4, <2>1, <2>2, <2>3 DEF Shown
<1>7. CASE Lstat(w) \/ Read(w)
  <2>1. /\ ~Storing(w)' /\ ~Storing(w) /\ UNCHANGED <<state, graph, search>>
    BY <1>7, PathEffect DEF Storing, stores
  <2>2. \A v \in Workers : Storing(v) => file[v] /= file[w]
    BY <1>3, <2>1
  <2>3. state[file[w]].status \in OnPage \/ Bare(file[w])
    BY <1>1, <1>2, <2>2 DEF Shown
  <2>4. QED BY <1>6, <2>1, <2>3 DEF Bare
<1>8. CASE SaveState(w)
  <2>1. /\ pc[w] \in SavePCs /\ pc'[w] = "saveGraph" /\ UNCHANGED <<file, result, graph, search>>
        /\ state'[file[w]] = StateOf(result[w])
    BY <1>8, PathEffect DEF SavePCs
  <2>2. Storing(w)' /\ state'[file[w]].status = result[w].status
    BY <2>1 DEF Storing, StateOf
  <2>3. QED BY <1>6, <2>1, <2>2 DEF Kinds
<1>9. CASE SaveGraph(w)
  <2>1. /\ Storing(w) /\ Storing(w)' /\ UNCHANGED <<file, result, state>>
        /\ graph'[file[w]] = Saved(graph[file[w]], result[w])
    BY <1>9, PathEffect DEF Storing
  <2>2. state[file[w]].status \notin OnPage => result[w].content = None /\ ~result[w].unchanged
    BY <2>1 DEF Shown
  <2>3. state[file[w]].status \notin OnPage => graph'[file[w]] = None
    BY <2>1, <2>2 DEF Saved
  <2>4. QED BY <1>6, <2>1, <2>2, <2>3
<1>10. CASE SaveSearch(w)
  <2>1. /\ pc[w] = "saveSearch" /\ Storing(w) /\ ~Storing(w)' /\ UNCHANGED <<state, graph>>
        /\ search'[file[w]] = Saved(search[file[w]], result[w])
    BY <1>10, PathEffect DEF Storing
  <2>2. state[file[w]].status \notin OnPage => graph'[file[w]] = None /\ search'[file[w]] = None
    BY <2>1 DEF Shown, Saved
  <2>3. QED BY <1>6, <2>1, <2>2 DEF Bare
<1>11. QED BY <1>7, <1>8, <1>9, <1>10 DEF PathTaskStep

LEMMA ScanningAlone ==
  ASSUME Alone, scan.step /= "none"
  PROVE  Scanning /\ \A w \in Workers : pc[w] \notin PathPCs /\ ~Storing(w)
BY DEF Alone, Scanning, PathPCs, Storing

LEMMA ScanShown ==
  ASSUME Types, Alone, Phases, Kinds, Whole, Shown, ScanTaskStep, ScanProgress
  PROVE  Shown'
<1>1. UNCHANGED <<pc, file, result>>
  BY ScanProgressFrame
<1>2. \A w \in Workers : ~Storing(w) /\ ~Storing(w)'
  BY <1>1, ProgressIsScanning, ScanningAlone DEF Storing
<1>3. \A f \in Files : state[f].status \in OnPage \/ Bare(f) \/ f \in scan.tomb
  BY <1>2 DEF Shown
<1>4. ASSUME \A f \in Files : state'[f].status \in OnPage \/ Bare(f)' \/ f \in scan'.tomb,
             scan'.step = "tombSearch" => \A f \in scan'.tomb : graph'[f] = None,
             scan'.step \notin {"tombGraph", "tombSearch"} => scan'.tomb = {}
      PROVE  Shown'
  BY <1>1, <1>2, <1>4 DEF Shown
<1>5. ASSUME scan'.step = scan.step, scan'.tomb = scan.tomb, UNCHANGED stores PROVE Shown'
  BY <1>3, <1>4, <1>5 DEF Shown, Bare, stores
<1>6. CASE \E f \in Files : WalkFile(f) \/ WalkGoneFile(f) \/ PrepareFile(f)
  BY <1>5, <1>6, WalkEffect, WalkGoneEffect, PrepareEffect
<1>7. CASE SaveBatchStates
  <2>1. /\ scan.step = "collect" /\ scan'.step = "graph" /\ scan'.tomb = scan.tomb
        /\ UNCHANGED <<graph, search>>
        /\ state' = [f \in Files |-> IF f \in DOMAIN scan.ready THEN StateOf(scan.ready[f]) ELSE state[f]]
    BY <1>7, SaveEffect DEF SaveBatchStates
  <2>2. ASSUME NEW f \in Files PROVE state'[f].status \in OnPage \/ Bare(f)' \/ f \in scan'.tomb
    <3>1. CASE f \in DOMAIN scan.ready
      BY <2>1, <3>1 DEF Kinds, StateOf
    <3>2. CASE f \notin DOMAIN scan.ready
      BY <1>3, <2>1, <3>2 DEF Bare
    <3>3. QED BY <3>1, <3>2
  <2>3. scan'.tomb = {}
    BY <2>1 DEF Shown
  <2>4. QED BY <1>4, <2>1, <2>2, <2>3
<1>8. CASE SaveBatchGraph
  <2>1. /\ scan.step = "graph" /\ scan'.step = "search" /\ scan'.tomb = scan.tomb
        /\ UNCHANGED <<state, search>>
        /\ graph' = [f \in Files |-> IF f \in DOMAIN scan.saving
                                     THEN Saved(graph[f], scan.saving[f]) ELSE graph[f]]
    BY <1>8, SaveEffect DEF SaveBatchGraph
  <2>2. ASSUME NEW f \in Files PROVE state'[f].status \in OnPage \/ Bare(f)' \/ f \in scan'.tomb
    <3>1. CASE f \in DOMAIN scan.saving
      BY <2>1, <3>1 DEF Kinds
    <3>2. CASE f \notin DOMAIN scan.saving
      BY <1>3, <2>1, <3>2 DEF Bare
    <3>3. QED BY <3>1, <3>2
  <2>3. scan'.tomb = {}
    BY <2>1 DEF Shown
  <2>4. QED BY <1>4, <2>1, <2>2, <2>3
<1>9. CASE SaveBatchSearch
  <2>1. /\ scan.step = "search" /\ scan'.step = "collect" /\ scan'.tomb = scan.tomb
        /\ UNCHANGED <<state, graph>>
        /\ search' = [f \in Files |-> IF f \in DOMAIN scan.saving
                                      THEN Saved(search[f], scan.saving[f]) ELSE search[f]]
    BY <1>9, SaveEffect DEF SaveBatchSearch
  <2>2. ASSUME NEW f \in Files PROVE state'[f].status \in OnPage \/ Bare(f)' \/ f \in scan'.tomb
    <3>1. CASE f \in DOMAIN scan.saving
      BY <2>1, <3>1 DEF Kinds
    <3>2. CASE f \notin DOMAIN scan.saving
      BY <1>3, <2>1, <3>2 DEF Bare
    <3>3. QED BY <3>1, <3>2
  <2>3. scan'.tomb = {}
    BY <2>1 DEF Shown
  <2>4. QED BY <1>4, <2>1, <2>2, <2>3
<1>10. CASE BeginTombstones
  <2>1. /\ scan.step = "collect" /\ scan' = [scan EXCEPT !.step = "list"] /\ UNCHANGED stores
    BY <1>10 DEF BeginTombstones, ScanStep
  <2>2. scan'.step = "list" /\ scan'.tomb = scan.tomb /\ scan.tomb = {}
    BY <2>1 DEF Types, Scans, Shown
  <2>3. QED BY <1>3, <1>4, <2>1, <2>2 DEF Bare, stores
<1>11. CASE FirstPage \/ NextPage
  <2>1. UNCHANGED stores /\ scan.step \in {"list", "tombstone"}
    BY <1>11 DEF FirstPage, NextPage, ListPage
  <2>2. scan.tomb = {}
    BY <2>1 DEF Shown
  <2>3. \E a, b : scan' = [scan EXCEPT !.step = "tombstone", !.page = a, !.next = b]
    BY <1>11 DEF FirstPage, NextPage, ListPage, ScanStep
  <2>4. scan'.step = "tombstone" /\ scan'.tomb = {}
    BY <2>2, <2>3 DEF Types, Scans
  <2>5. QED BY <1>3, <1>4, <2>1, <2>2, <2>4 DEF Bare, stores
<1>12. CASE TombstoneState
  <2>1. /\ scan.step = "tombstone" /\ UNCHANGED <<graph, search>>
    BY <1>12 DEF TombstoneState
  <2>2. PICK g \in Files :
          /\ state' = [state EXCEPT ![g] = [@ EXCEPT !.status = "absent", !.content = None]]
          /\ scan' = [scan EXCEPT !.step = "tombGraph", !.page = @ \ {g}, !.tomb = {g}]
    BY <1>12, ScanFields DEF TombstoneState, ScanStep
  <2>3. scan'.step = "tombGraph" /\ scan'.tomb = {g}
    BY <2>2 DEF Types, Scans
  <2>4. \A f \in Files \ {g} : state'[f] = state[f]
    BY <2>2 DEF Types, StoreTypes
  <2>5. scan.tomb = {}
    BY <2>1 DEF Shown
  <2>6. \A f \in Files : state'[f].status \in OnPage \/ Bare(f)' \/ f \in scan'.tomb
    BY <1>3, <2>1, <2>3, <2>4, <2>5 DEF Bare
  <2>7. QED BY <1>4, <2>3, <2>6
<1>13. CASE TombstoneGraph
  <2>1. /\ scan'.step = "tombSearch" /\ scan'.tomb = scan.tomb
        /\ UNCHANGED <<state, search>>
        /\ graph' = [f \in Files |-> IF f \in scan.tomb THEN None ELSE graph[f]]
    BY <1>13 DEF TombstoneGraph, ScanStep, Types, Scans
  <2>2. \A f \in Files : state'[f].status \in OnPage \/ Bare(f)' \/ f \in scan'.tomb
    BY <1>3, <2>1 DEF Bare
  <2>3. \A f \in scan'.tomb : graph'[f] = None
    BY <2>1, ScanFields
  <2>4. QED BY <1>4, <2>1, <2>2, <2>3
<1>14. CASE TombstoneSearch
  <2>1. /\ scan.step = "tombSearch" /\ scan'.step = "tombstone" /\ scan'.tomb = {}
        /\ UNCHANGED <<state, graph>>
        /\ search' = [f \in Files |-> IF f \in scan.tomb THEN None ELSE search[f]]
    BY <1>14 DEF TombstoneSearch, ScanStep, Types, Scans
  <2>2. \A f \in scan.tomb : graph[f] = None
    BY <2>1 DEF Shown
  <2>3. \A f \in Files : state'[f].status \in OnPage \/ Bare(f)' \/ f \in scan'.tomb
    BY <1>3, <2>1, <2>2 DEF Bare
  <2>4. QED BY <1>4, <2>1, <2>3
<1>15. QED
  BY <1>6, <1>7, <1>8, <1>9, <1>10, <1>11, <1>12, <1>13, <1>14 DEF ScanTaskStep, AfterWalk

LEMMA NextShown ==
  ASSUME OneTaskPerFile, Types, Alone, Phases, QueueTypes, Linked, Whole, Kinds,
         failures = 0, failures' = 0, [LiveNext]_liveVars
  PROVE  Kinds' /\ (Shown => Shown' \/ Crash)
<1>1. /\ pc \in [Workers -> PathPCs \cup {"idle", "scan"}]
      /\ file \in [Workers -> Files \cup {None}]
  BY DEF Types, JobTypes
<1>2. CASE UNCHANGED <<state, graph, search, pc, file, result, scan>>
  BY <1>2 DEF Kinds, Shown, Storing, Bare
<1>3. CASE QueueAct \/ UNCHANGED liveVars \/ Boot \/ \E w \in Workers : Submit(w) \/ IngestDirectory(w)
  BY <1>2, <1>3, QueueActKeeps DEF Submit, IngestDirectory, Boot, liveVars, indexVars, stores, jobs
<1>4. CASE \E f \in Files, c \in Contents \cup {None} : ChangeFile(f, c)
  BY <1>2, <1>4 DEF ChangeFile, Edit, stores, jobs
<1>5. ASSUME NEW w \in Workers, NEW f \in Files, BeginPath(w, f) PROVE Kinds' /\ (Shown => Shown')
  <2>1. /\ UNCHANGED <<state, graph, search, result, scan>>
        /\ pc[w] = "idle" /\ pc'[w] = "lstat"
        /\ \A v \in Workers \ {w} : pc'[v] = pc[v] /\ file'[v] = file[v]
    BY <1>1, <1>5 DEF BeginPath, stores
  <2>2. ~Storing(w) /\ ~Storing(w)' /\ pc'[w] \notin SavePCs
    BY <2>1 DEF Storing, SavePCs
  <2>3. Kinds'
    BY <2>1, <2>2 DEF Kinds
  <2>4. \A v \in Workers : Storing(v)' <=> Storing(v)
    BY <2>1, <2>2 DEF Storing
  <2>5. \A v \in Workers : Storing(v) => pc'[v] = pc[v] /\ file'[v] = file[v]
    BY <2>1, <2>2
  <2>6. QED BY <2>1, <2>3, <2>4, <2>5 DEF Shown, Bare
<1>6. ASSUME NEW w \in Workers, BeginScan(w) PROVE Kinds' /\ (Shown => Shown')
  <2>1. /\ UNCHANGED <<state, graph, search, result, file>>
        /\ \A v \in Workers : pc[v] = "idle" /\ pc'[v] \in {"idle", "scan"}
    BY <1>1, <1>6 DEF BeginScan, Active, stores
  <2>2. \A v \in Workers : ~Storing(v) /\ ~Storing(v)' /\ pc'[v] \notin SavePCs
    BY <2>1 DEF Storing, SavePCs
  <2>3. /\ DOMAIN scan'.ready = {} /\ DOMAIN scan'.saving = {}
        /\ scan'.step = "collect" /\ scan'.tomb = {}
    BY <1>6, BatchType DEF BeginScan, NoScan
  <2>4. Kinds'
    BY <2>2, <2>3 DEF Kinds
  <2>5. scan.tomb = {}
    BY <2>1, NoScanFields DEF Alone, Scanning
  <2>6. QED BY <2>1, <2>2, <2>3, <2>4, <2>5 DEF Shown, Bare
<1>7. ASSUME NEW w \in Workers, FinishScan(w) PROVE Kinds' /\ (Shown => Shown')
  <2>1. /\ UNCHANGED <<state, graph, search, result, file>> /\ scan' = NoScan
        /\ \A v \in Workers : pc[v] \in {"idle", "scan"} /\ pc'[v] = "idle"
    BY <1>1, <1>7, ScanAlone DEF stores
  <2>2. \A v \in Workers : ~Storing(v) /\ ~Storing(v)' /\ pc'[v] \notin SavePCs
    BY <2>1 DEF Storing, SavePCs
  <2>3. Kinds'
    BY <2>1, <2>2, NoScanFields DEF Kinds
  <2>4. Shown => scan.tomb = {}
    BY <1>7 DEF FinishScan, Shown
  <2>5. QED BY <2>1, <2>2, <2>3, <2>4, NoScanFields DEF Shown, Bare
<1>8. CASE Crash
  <2>1. (\A v \in Workers : pc'[v] = "idle") /\ scan' = NoScan
    BY <1>8 DEF Crash, IndexCrash
  <2>2. QED BY <1>8, <2>1, NoScanFields DEF Kinds, SavePCs
<1>9. CASE \E w \in Workers : PathTaskStep(w)
  BY <1>9, PathKinds, PathShown
<1>10. CASE ScanTaskStep /\ ScanProgress
  BY <1>10, ScanKinds, ScanShown
<1>11. QED
  BY <1>3, <1>4, <1>5, <1>6, <1>7, <1>8, <1>9, <1>10, SmoothSteps

(* Every file is looked at again, or what is under way agrees with the disk. *)

LEMMA SettledKept ==
  ASSUME UNCHANGED indexVars, NEW f, Settled(f)
  PROVE  Settled(f)'
BY DEF Settled, Scanning, PathOn, PathRight, Fresh, Right, MissingCovered, indexVars, stores, jobs

\* A change of g notifies the watcher, unless nothing watches its directory.
LEMMA ChangeFollow ==
  ASSUME Types, QueueTypes, up, Follow,
         NEW g \in Files, NEW c, ChangeFile(g, c)
  PROVE  Follow'
<1>1. /\ UNCHANGED <<state, graph, search, pc, file, result, scan, restarts, events, rescans, pending, loop, tasks, job>>
      /\ touched' \in {touched, touched \cup {g}}
      /\ \A f \in Files \ {g} : disk'[f] = disk[f]
  BY DEF ChangeFile, Edit, stores, jobs, Types, DiskTypes
<1>2. \/ missed' = missed \cup {g} /\ UNCHANGED <<osEvents, overflow>>
      \/ missed' = missed \ {g} /\ Notify(g)
  BY DEF ChangeFile
<1>3. g \in Events
  BY DEF Events
<1>4. \A f : Contains(osEvents, f) \/ overflow => Contains(osEvents', f) \/ overflow'
  BY <1>2, <1>3, NotifyKeeps
<1>5. RescanWaits' = RescanWaits
  BY <1>1 DEF RescanWaits
<1>6. ASSUME NEW f, Loose(f) PROVE Loose(f)'
  BY <1>1, <1>4, <1>5, <1>6, EventPlaces DEF Loose, RescanQueued
<1>7. g \in missed' \/ Loose(g)'
  <2>1. Notify(g) => Contains(osEvents', g) \/ overflow'
    BY <1>3, NotifyKeeps
  <2>2. QED BY <1>2, <2>1, EventPlaces DEF Loose, RescanQueued
<1>8. ASSUME NEW f \in Files, f /= g, Settled(f) PROVE Settled(f)'
  <2>1. disk'[f] = disk[f] /\ (f \in touched' <=> f \in touched)
    BY <1>1, <1>8
  <2>2. Fresh(f)' <=> Fresh(f)
    BY <1>1, <2>1 DEF Fresh
  <2>3. ASSUME NEW w \in Workers, file[w] = f, PathRight(w) PROVE PathRight(w)'
    BY <1>1, <2>1, <2>2, <2>3 DEF PathRight, Right
  <2>4. MissingCovered(f)' <=> MissingCovered(f)
    BY <1>1 DEF MissingCovered
  <2>5. Scanning' = Scanning /\ PathOn(f)' = PathOn(f)
    BY <1>1 DEF Scanning, PathOn
  <2>6. QED BY <1>1, <1>8, <2>1, <2>2, <2>3, <2>4, <2>5 DEF Settled
<1>9. \A f \in Files \ {g} : (f \in missed' <=> f \in missed) /\ (Due(f)' <=> Due(f))
  BY <1>1, <1>2 DEF Due
<1>10. QED BY <1>6, <1>7, <1>8, <1>9 DEF Follow

LEMMA BeginFollow ==
  ASSUME Types, QueueTypes, Linked, Follow, UNCHANGED watcherVars,
         NEW w \in Workers,
         \/ \E g \in Files : BeginPath(w, g) /\ job[w] = g /\ ~RescanWaits
         \/ BeginScan(w)
  PROVE  Follow'
<1>1. /\ pc \in [Workers -> PathPCs \cup {"idle", "scan"}]
      /\ file \in [Workers -> Files \cup {None}]
      /\ UNCHANGED <<disk, stores, job, restarts, missed, queues>>
  BY DEF Types, JobTypes, watcherVars, BeginPath, BeginScan
<1>0. \A f : Due(f)' <=> Due(f)
  BY <1>1 DEF Due
<1>2. ASSUME NEW g \in Files, BeginPath(w, g), job[w] = g, ~RescanWaits PROVE Follow'
  <2>1. /\ pc[w] = "idle" /\ pc'[w] = "lstat" /\ file'[w] = g /\ UNCHANGED <<result, scan>>
        /\ \A v \in Workers \ {w} : pc'[v] = pc[v] /\ file'[v] = file[v]
        /\ ~Scanning
    BY <1>1, <1>2 DEF BeginPath
  <2>2. ~Scanning'
    BY <2>1 DEF Scanning
  <2>3. Loose(g)'
    BY <1>1, <1>2, <2>1 DEF Loose
  <2>4. ASSUME NEW f \in Files, f /= g, Loose(f) PROVE Loose(f)'
    <3>1. EventCovers(f)' <=> EventCovers(f)
      BY <1>1, EventPlaces DEF queues
    <3>2. RescanQueued => RescanQueued'
      BY <1>1, <1>2 DEF RescanQueued, queues
    <3>3. ASSUME NEW v \in Workers, job[v] = f, pc[v] \in {"idle", "lstat"}
          PROVE  job'[v] = f /\ pc'[v] \in {"idle", "lstat"}
      BY <1>1, <1>2, <2>1, <2>4, <3>3
    <3>4. QED BY <1>1, <2>4, <3>1, <3>2, <3>3 DEF Loose, queues
  <2>5. ASSUME NEW f \in Files, f /= g, Settled(f) PROVE Settled(f)'
    <3>1. \A v \in Workers : pc'[v] \in PathPCs /\ file'[v] = f <=> pc[v] \in PathPCs /\ file[v] = f
      BY <2>1, <2>5 DEF PathPCs
    <3>2. PathOn(f)' <=> PathOn(f)
      BY <3>1 DEF PathOn
    <3>3. Fresh(f)' <=> Fresh(f)
      BY <1>1 DEF Fresh, stores
    <3>4. ASSUME NEW v \in Workers, pc'[v] \in PathPCs, file'[v] = f PROVE PathRight(v)'
      <4>1. PathRight(v) /\ pc'[v] = pc[v] /\ file'[v] = file[v] /\ file[v] = f
        BY <2>1, <2>5, <3>1, <3>4 DEF Settled
      <4>2. QED BY <1>1, <2>1, <3>3, <4>1 DEF PathRight, Right, stores
    <3>5. QED BY <2>1, <2>2, <2>5, <3>2, <3>3, <3>4 DEF Settled
  <2>6. QED BY <1>0, <1>1, <2>3, <2>4, <2>5 DEF Follow
<1>3. ASSUME BeginScan(w) PROVE Follow'
  <2>1. \A v \in Workers : pc[v] = "idle"
    BY <1>3 DEF BeginScan, Active
  <2>2. /\ pc'[w] = "scan" /\ \A v \in Workers : pc'[v] \notin PathPCs
        /\ touched' = {}
    BY <1>1, <1>3, <2>1 DEF BeginScan, PathPCs
  <2>3. /\ scan'.seen = {} /\ DOMAIN scan'.stated = {} /\ DOMAIN scan'.ready = {}
        /\ DOMAIN scan'.saving = {} /\ scan'.step = "collect"
    BY <1>3, BatchType DEF BeginScan, NoScan
  <2>4. Scanning' /\ \A f \in Files : MissingCovered(f)'
    BY <2>2, <2>3 DEF Scanning, MissingCovered
  <2>5. \A f \in Files : Settled(f)'
    BY <2>2, <2>4 DEF Settled
  <2>6. QED BY <2>5 DEF Follow
<1>4. QED BY <1>2, <1>3

LEMMA PathFollow ==
  ASSUME Types, Honesty, Alone, QueueTypes, OneTaskPerFile, Linked, Follow, NEW w \in Workers, Execute(w),
         PathTaskStep(w)
  PROVE  Follow'
<1> DEFINE g == file[w]
<1>0. PICK h \in Files : h = g
  BY PathEffect
<1>1. /\ pc[w] \in PathPCs /\ g \in Files /\ job[w] = g
      /\ \A v \in Workers \ {w} : pc'[v] = pc[v] /\ file'[v] = file[v] /\ result'[v] = result[v]
      /\ UNCHANGED <<disk, scan, touched>>
      /\ \A f \in Files \ {g} : state'[f] = state[f] /\ graph'[f] = graph[f] /\ search'[f] = search[f]
  BY PathEffect
<1>2. \A v \in Workers \ {w} : pc'[v] \in PathPCs => file'[v] /= g
  BY <1>1 DEF OneTaskPerFile
<1>3. /\ UNCHANGED <<missed, restarts, queues>>
      /\ \A v \in Workers \ {w} : job'[v] = job[v]
  BY DEF Execute, QueueTypes
<1>4. ASSUME NEW f \in Files, Loose(f), pc[w] /= "lstat" \/ f /= g PROVE Loose(f)'
  <2>1. pc[w] \in {"idle", "lstat"} => job[w] \notin {f, Rescan}
    BY <1>1, <1>4, Names DEF PathPCs
  <2>2. QED BY <1>1, <1>3, <1>4, <2>1, WorkKeeps
<1>5. ~Scanning /\ ~Scanning'
  <2>1. pc[w] \notin {"idle", "scan"} /\ pc'[w] /= "scan"
    BY <1>1, PathEffect DEF PathPCs, PathTaskStep
  <2>2. \A v \in Workers : pc[v] /= "scan"
    BY <2>1 DEF Alone
  <2>3. QED BY <1>1, <2>1, <2>2 DEF Scanning
<1>6. ASSUME NEW f \in Files, f /= g, Settled(f) PROVE Settled(f)'
  <2>1. pc'[w] \in PathPCs => file'[w] = g
    BY PathEffect DEF PathPCs, PathTaskStep
  <2>2. \A v \in Workers : pc'[v] \in PathPCs /\ file'[v] = f <=> pc[v] \in PathPCs /\ file[v] = f
    BY <1>1, <1>6, <2>1
  <2>3. PathOn(f)' <=> PathOn(f)
    BY <2>2 DEF PathOn
  <2>4. Fresh(f)' <=> Fresh(f)
    BY <1>1, <1>6 DEF Fresh
  <2>5. ASSUME NEW v \in Workers, pc'[v] \in PathPCs, file'[v] = f PROVE PathRight(v)'
    <3>1. PathRight(v) /\ file[v] = f /\ v /= w
      BY <1>6, <2>1, <2>2, <2>5 DEF Settled
    <3>2. pc'[v] = pc[v] /\ file'[v] = f /\ result'[v] = result[v]
      BY <1>1, <2>5, <3>1
    <3>3. disk' = disk /\ graph'[f] = graph[f]
      BY <1>1, <1>6
    <3>4. QED BY <2>4, <3>1, <3>2, <3>3 DEF PathRight, Right
  <2>6. QED BY <1>5, <1>6, <2>3, <2>4, <2>5 DEF Settled
<1>7. ASSUME pc'[w] \in PathPCs, file' = file, PathRight(w)' PROVE Settled(h)'
  <2>1. h = file'[w]
    BY <1>0, <1>7
  <2>2. PathOn(h)'
    BY <1>7, <2>1 DEF PathOn
  <2>3. \A v \in Workers : pc'[v] \in PathPCs /\ file'[v] = h => v = w
    BY <1>0, <1>2
  <2>4. QED BY <1>5, <1>7, <2>2, <2>3 DEF Settled
<1>15. \A f : Due(f)' <=> Due(f)
  BY <1>1, <1>3 DEF Due
<1>8. ASSUME \A f \in Files \ missed : f = h /\ Due(f) => Loose(f)' \/ Settled(f)' PROVE Follow'
  <2>1. ASSUME NEW f \in Files \ missed, f /= h, Due(f) PROVE Loose(f)' \/ Settled(f)'
    BY <1>0, <1>4, <1>6, <2>1 DEF Follow
  <2>2. QED BY <1>3, <1>8, <1>15, <2>1 DEF Follow
<1>9. CASE Lstat(w)
  <2>1. PathRight(w)' /\ pc'[w] \in PathPCs /\ file' = file
    <3>1. /\ file' = file /\ disk' = disk
          /\ \/ /\ disk[g].content = None /\ pc'[w] = "saveState"
                /\ result'[w] = [NoResult EXCEPT !.status = "absent"]
             \/ /\ disk[g].content /= None /\ pc'[w] = "read"
                /\ result'[w] = [NoResult EXCEPT !.mtime = disk[g].mtime]
      BY <1>1, <1>9, PathEffect
    <3>2. None \notin Eligible
      BY FileIndexAssumption DEF FileIndexAssumption
    <3>3. CASE disk[g].content = None
      BY <3>1, <3>2, <3>3 DEF PathRight, Right, Indexable, NoResult, PathPCs, SavePCs
    <3>4. CASE disk[g].content /= None
      BY <3>1, <3>4 DEF PathRight, NoResult, PathPCs, SavePCs
    <3>5. QED BY <3>3, <3>4
  <2>2. Settled(h)'
    BY <1>7, <2>1
  <2>3. QED BY <1>8, <2>2
<1>10. ASSUME pc[w] /= "lstat", PathRight(w) => Settled(h)' PROVE Follow'
  <2>1. Settled(h) => PathRight(w)
    BY <1>0, <1>1 DEF Settled
  <2>2. h \in Files \ missed /\ Due(h) => Loose(h)' \/ Settled(h)'
    BY <1>4, <1>10, <2>1 DEF Follow
  <2>3. QED BY <1>8, <2>2
<1>11. CASE Read(w)
  <2>1. /\ pc[w] = "read" /\ pc'[w] = "saveState" /\ file' = file /\ UNCHANGED stores
        /\ result'[w] = Prepared(g, result[w].mtime)
    BY <1>11, PathEffect
  <2>2. ASSUME PathRight(w) PROVE PathRight(w)'
    <3>1. result[w].mtime = disk[g].mtime /\ disk[g].content /= None
      BY <2>1, <2>2 DEF PathRight
    <3>2. Right(g, result'[w])
      BY <1>1, <2>1, <3>1, PreparedRight
    <3>3. QED BY <1>1, <2>1, <3>2 DEF PathRight, Right, Fresh, stores
  <2>3. pc[w] /= "lstat" /\ pc'[w] \in PathPCs
    BY <2>1 DEF PathPCs
  <2>4. QED BY <1>7, <1>10, <2>1, <2>2, <2>3
<1>12. CASE SaveState(w)
  <2>1. /\ pc[w] = "saveState" /\ pc'[w] = "saveGraph" /\ UNCHANGED <<file, result, graph, search>>
    BY <1>12, PathEffect
  <2>2. ASSUME PathRight(w) PROVE PathRight(w)'
    BY <1>1, <2>1, <2>2 DEF PathRight, Right, Fresh, SavePCs
  <2>3. pc[w] /= "lstat" /\ pc'[w] \in PathPCs
    BY <2>1 DEF PathPCs
  <2>4. QED BY <1>7, <1>10, <2>1, <2>2, <2>3
<1>13. CASE SaveGraph(w)
  <2>1. /\ pc[w] = "saveGraph" /\ pc'[w] = "saveSearch" /\ UNCHANGED <<file, result, search>>
        /\ graph'[g] = Saved(graph[g], result[w])
    BY <1>13, PathEffect
  <2>2. ASSUME PathRight(w) PROVE PathRight(w)'
    <3>1. Right(g, result[w])
      BY <2>1, <2>2 DEF PathRight, SavePCs
    <3>2. graph'[g] = Indexable(disk[g].content)
      BY <2>1, <3>1, SavedRight
    <3>3. QED BY <1>1, <2>1, <3>1, <3>2 DEF PathRight, Right, Fresh, SavePCs
  <2>3. pc[w] /= "lstat" /\ pc'[w] \in PathPCs
    BY <2>1 DEF PathPCs
  <2>4. QED BY <1>7, <1>10, <2>1, <2>2, <2>3
<1>14. CASE SaveSearch(w)
  <2>1. /\ pc[w] = "saveSearch" /\ pc'[w] = "idle" /\ UNCHANGED graph
        /\ search'[g] = Saved(search[g], result[w])
    BY <1>14, PathEffect
  <2>2. ASSUME PathRight(w)
        PROVE  graph'[g] = Indexable(disk'[g].content) /\ search'[g] = Indexable(disk'[g].content)
    <3>1. Right(g, result[w]) /\ graph[g] = Indexable(disk[g].content)
      BY <2>1, <2>2 DEF PathRight, SavePCs
    <3>2. QED BY <1>1, <2>1, <3>1, SavedRight
  <2>3. \A v \in Workers : pc'[v] \in PathPCs => file'[v] /= h
    BY <1>0, <1>2, <2>1 DEF PathPCs
  <2>4. PathRight(w) => Settled(h)'
    BY <1>0, <1>5, <2>2, <2>3 DEF Settled, Fresh
  <2>5. QED BY <1>10, <2>1, <2>4
<1>16. QED BY <1>9, <1>11, <1>12, <1>13, <1>14 DEF PathTaskStep

\* A scan that ends leaves the index right for every file that was settled under it.
LEMMA FinishFollow ==
  ASSUME IndexInv, QueueTypes, Linked, Whole, restarts = 0 => Shown, Follow,
         NEW w \in Workers, Execute(w), FinishScan(w)
  PROVE  Follow'
<1>1. /\ pc[w] = "scan" /\ pc' = [pc EXCEPT ![w] = "idle"]
      /\ \A v \in Workers \ {w} : pc[v] = "idle"
      /\ UNCHANGED <<disk, graph, search>>
  BY ScanAlone DEF IndexInv, stores
<1>2. \A v \in Workers : pc'[v] = "idle" /\ ~Storing(v)
  BY <1>1 DEF IndexInv, Types, JobTypes, Storing
<1>3. /\ scan.step = "tombstone" /\ scan.page = {}
      /\ scan.todo = {} /\ DOMAIN scan.stated = {}
      /\ DOMAIN scan.ready = {} /\ DOMAIN scan.saving = {}
  BY DEF FinishScan, IndexInv, Phases, TombstoneSteps
<1>4. scan.hidden = {}
  BY DEF Whole
<1>5. /\ UNCHANGED <<missed, restarts, queues>>
      /\ \A v \in Workers \ {w} : pc'[v] = pc[v] /\ job'[v] = job[v]
  BY <1>1, <1>2 DEF Execute, QueueTypes
<1>6. ASSUME NEW f \in Files, Loose(f) PROVE Loose(f)'
  BY <1>1, <1>5, <1>6, WorkKeeps
<1>7. ASSUME NEW f \in Files, Due(f), Settled(f) PROVE Settled(f)'
  <2>1. f \notin touched /\ (disk[f].content = None => MissingCovered(f))
    BY <1>1, <1>7 DEF Settled, Scanning
  <2>2. CASE disk[f].content /= None
    <3>1. f \in Steady
      BY <1>4, <2>1, <2>2 DEF Steady
    <3>2. CoveredFile(f)
      BY <1>3, <3>1 DEF IndexInv, Repairing
    <3>3. Fresh(f)
      BY <1>3, <3>2 DEF CoveredFile, Waiting, Underway
    <3>4. QED BY <1>1, <1>2, <3>3 DEF Settled, Fresh, PathPCs, Scanning
  <2>3. CASE disk[f].content = None
    <3>1. state[f].status \notin OnPage
      BY <1>3, <2>1, <2>3 DEF MissingCovered
    <3>2. Bare(f)
      BY <1>2, <1>3, <1>7, <2>3, <3>1 DEF Shown, Due
    <3>3. None \notin Eligible
      BY FileIndexAssumption DEF FileIndexAssumption
    <3>4. QED BY <1>1, <1>2, <2>3, <3>2, <3>3 DEF Settled, Fresh, Indexable, Bare, PathPCs, Scanning
  <2>4. QED BY <2>2, <2>3
<1>8. \A f : Due(f)' <=> Due(f)
  BY <1>1, <1>5 DEF Due
<1>9. QED BY <1>5, <1>6, <1>7, <1>8 DEF Follow

\* A missing file that does not change is never seen by the scan, and stays on its page
\* until it is tombstoned.
LEMMA MissingFollow ==
  ASSUME OnePage, IndexInv, Whole, ScanTaskStep,
         NEW f \in Files, f \notin touched, disk[f].content = None, MissingCovered(f)
  PROVE  MissingCovered(f)'
<1>1. Types /\ Phases
  BY DEF IndexInv
<1>2. CASE \E g \in Files : WalkFile(g) \/ WalkGoneFile(g) \/ PrepareFile(g)
  <2>1. PICK g \in Files : WalkFile(g) \/ WalkGoneFile(g) \/ PrepareFile(g)
    BY <1>2
  <2>2. CASE WalkFile(g)
    <3>1. /\ DOMAIN scan'.stated \subseteq DOMAIN scan.stated \cup {g}
          /\ disk[g].content = None => scan'.stated = scan.stated
          /\ scan'.ready = scan.ready /\ scan'.saving = scan.saving /\ scan'.seen = scan.seen
          /\ scan'.step = scan.step /\ scan'.page = scan.page /\ state' = state
      BY <1>1, <2>2, WalkEffect DEF stores
    <3>2. f \notin DOMAIN scan'.stated
      BY <3>1 DEF MissingCovered
    <3>3. QED BY <3>1, <3>2 DEF MissingCovered
  <2>3. CASE WalkGoneFile(g)
    <3>1. /\ g \in touched
          /\ DOMAIN scan'.ready = DOMAIN scan.ready \cup {g}
          /\ scan'.seen = scan.seen \cup {g}
          /\ scan'.stated = scan.stated /\ scan'.saving = scan.saving
          /\ scan'.step = scan.step /\ scan'.page = scan.page /\ state' = state
      BY <1>1, <2>3, WalkGoneEffect DEF stores
    <3>2. QED BY <3>1 DEF MissingCovered
  <2>4. CASE PrepareFile(g)
    <3>1. /\ g \in DOMAIN scan.stated
          /\ DOMAIN scan'.stated = DOMAIN scan.stated \ {g}
          /\ DOMAIN scan'.ready = DOMAIN scan.ready \cup {g}
          /\ scan'.seen = scan.seen \cup {g} /\ scan'.saving = scan.saving
          /\ scan'.step = scan.step /\ scan'.page = scan.page /\ state' = state
      BY <1>1, <2>4, PrepareEffect DEF stores
    <3>2. QED BY <3>1 DEF MissingCovered
  <2>5. QED BY <2>1, <2>2, <2>3, <2>4
<1>3. CASE SaveBatchStates \/ SaveBatchGraph \/ SaveBatchSearch
  BY <1>1, <1>3, SaveEffect DEF SameWalk, MissingCovered
<1>4. CASE AfterWalk
  <2>1. /\ scan'.seen = scan.seen /\ scan'.stated = scan.stated
        /\ scan'.ready = scan.ready /\ scan'.saving = scan.saving
    BY <1>1, <1>4, TombstoneEffect DEF SameWalk
  <2>2. ASSUME scan'.step \in {"tombstone", "tombGraph", "tombSearch"},
               state'[f].status \in OnPage => f \in scan'.page
        PROVE  MissingCovered(f)'
    BY <2>1, <2>2 DEF MissingCovered
  <2>3. CASE BeginTombstones
    <3>1. scan' = [scan EXCEPT !.step = "list"]
      BY <2>3 DEF BeginTombstones, ScanStep
    <3>2. scan'.step = "list"
      BY <1>1, <3>1 DEF Types, Scans
    <3>3. QED BY <2>1, <3>2 DEF MissingCovered
  <2>4. CASE FirstPage
    <3>1. state' = state
      BY <2>4 DEF FirstPage, ListPage, stores
    <3>2. state[f].status \in OnPage => f \in Present \ scan.seen
      BY DEF MissingCovered, Present, OnPage
    <3>3. state[f].status \in OnPage => f \in scan'.page
      BY <1>1, <1>4, <2>4, <3>2, OnePageScan DEF ScanTaskStep
    <3>4. QED BY <2>1, <3>1, <3>3 DEF MissingCovered
  <2>5. CASE NextPage
    BY <1>1, <2>5, OnePageScan
  <2>6. CASE TombstoneState
    <3>1. PICK g \in Files :
            /\ scan.step = "tombstone"
            /\ state' = [state EXCEPT ![g] = [@ EXCEPT !.status = "absent", !.content = None]]
            /\ scan' = [scan EXCEPT !.step = "tombGraph", !.page = @ \ {g}, !.tomb = {g}]
      BY <1>1, <2>6, ScanFields DEF TombstoneState, ScanStep
    <3>2. scan'.page = scan.page \ {g}
      BY <1>1, <3>1 DEF Types, Scans
    <3>3. state'[g].status = "absent" /\ \A h \in Files \ {g} : state'[h] = state[h]
      BY <1>1, <3>1 DEF Types, StoreTypes, SafeState
    <3>4. state[f].status \in OnPage => f \in scan.page
      BY <3>1 DEF MissingCovered
    <3>5. state'[f].status \in OnPage => f \in scan'.page
      BY <3>2, <3>3, <3>4 DEF OnPage
    <3>6. QED BY <2>1, <3>5 DEF MissingCovered
  <2>7. CASE TombstoneGraph \/ TombstoneSearch
    <3>1. /\ state' = state /\ scan.step \in {"tombGraph", "tombSearch"}
          /\ scan'.page = scan.page
      BY <1>1, <2>7 DEF TombstoneGraph, TombstoneSearch, ScanStep, Types, Scans
    <3>2. QED BY <2>1, <3>1 DEF MissingCovered
  <2>8. QED BY <1>4, <2>3, <2>4, <2>5, <2>6, <2>7 DEF AfterWalk
<1>5. QED BY <1>2, <1>3, <1>4 DEF ScanTaskStep

LEMMA ScanFollow ==
  ASSUME OnePage, IndexInv, Whole, Follow, ScanTaskStep, ScanProgress, UNCHANGED watcherVars
  PROVE  Follow'
<1>1. UNCHANGED <<disk, touched, pc, file, result>>
  BY ScanProgressFrame
<1>2. ASSUME NEW f \in Files, Loose(f) PROVE Loose(f)'
  BY <1>1, <1>2, EventPlaces DEF Loose, RescanQueued, RescanWaits, watcherVars, queues
<1>3. Scanning /\ \A v \in Workers : pc[v] \notin PathPCs
  BY <1>1, ProgressIsScanning, ScanningAlone DEF IndexInv
<1>4. ASSUME NEW f \in Files, Settled(f) PROVE Settled(f)'
  <2>1. f \notin touched /\ (disk[f].content = None => MissingCovered(f))
    BY <1>3, <1>4 DEF Settled
  <2>2. disk[f].content = None => MissingCovered(f)'
    BY <1>1, <2>1, MissingFollow
  <2>3. Scanning' /\ \A v \in Workers : pc'[v] \notin PathPCs
    BY <1>1, <1>3 DEF Scanning
  <2>4. f \notin touched' /\ disk' = disk
    BY <1>1, <2>1
  <2>5. QED BY <2>2, <2>3, <2>4 DEF Settled
<1>5. missed' = missed /\ \A f : Due(f)' <=> Due(f)
  BY <1>1 DEF watcherVars, Due
<1>6. QED BY <1>2, <1>4, <1>5 DEF Follow

LEMMA NextFollow ==
  ASSUME OneTaskPerFile, OnePage, IndexInv, QueueTypes, Orderly, up, up',
         failures = 0, failures' = 0, [LiveNext]_liveVars
  PROVE  Follow'
<1>1. Linked /\ Whole /\ Follow /\ (restarts = 0 => Shown)
  BY DEF Orderly
<1>2. Types /\ Alone /\ Phases /\ Honesty
  BY DEF IndexInv
<1>3. ASSUME UNCHANGED <<indexVars, restarts, missed>>, \A f \in Files : Loose(f) => Loose(f)'
      PROVE  Follow'
  <2>1. \A f \in Files : Settled(f) => Settled(f)'
    BY <1>3, SettledKept
  <2>2. \A f : Due(f)' <=> Due(f)
    BY <1>3 DEF Due, indexVars
  <2>3. QED BY <1>1, <1>3, <2>1, <2>2 DEF Follow
<1>4. CASE UNCHANGED liveVars
  <2>1. UNCHANGED <<indexVars, queues, job, pc, restarts, missed>>
    BY <1>4 DEF liveVars, watcherVars, indexVars, jobs
  <2>2. \A f \in Files : Loose(f) => Loose(f)'
    BY <2>1, EventPlaces DEF Loose, RescanQueued, RescanWaits, queues
  <2>3. QED BY <1>3, <2>1, <2>2
<1>5. CASE QueueAct
  BY <1>1, <1>3, <1>5, QueueActKeeps
<1>6. ASSUME NEW g \in Files, NEW c, ChangeFile(g, c) PROVE Follow'
  BY <1>1, <1>2, <1>6, ChangeFollow
<1>7. ASSUME NEW w \in Workers, Submit(w) PROVE Follow'
  BY <1>1, <1>2, <1>3, <1>7, SubmitKeeps
<1>8. ASSUME NEW w \in Workers, IngestDirectory(w) PROVE Follow'
  <2>1. /\ UNCHANGED <<indexVars, restarts, missed, queues, pc>> /\ job[w] = NewDir
        /\ \A v \in Workers \ {w} : job'[v] = job[v]
    BY <1>1, <1>8 DEF IngestDirectory, QueueTypes, indexVars, jobs
  <2>2. \A f \in Files : job[w] \notin {f, Rescan}
    BY <2>1, Names
  <2>3. \A f \in Files : Loose(f) => Loose(f)'
    BY <1>1, <2>1, <2>2, WorkKeeps
  <2>4. QED BY <1>3, <2>1, <2>3
<1>9. ASSUME NEW w \in Workers, UNCHANGED watcherVars,
             \/ \E g \in Files : BeginPath(w, g) /\ job[w] = g /\ ~RescanWaits
             \/ BeginScan(w)
      PROVE  Follow'
  BY <1>1, <1>2, <1>9, BeginFollow
<1>10. ASSUME NEW w \in Workers, Execute(w), PathTaskStep(w) PROVE Follow'
  BY <1>1, <1>2, <1>10, PathFollow
<1>11. ASSUME NEW w \in Workers, Execute(w), FinishScan(w) PROVE Follow'
  BY <1>1, <1>11, FinishFollow
<1>12. CASE ScanTaskStep /\ ScanProgress /\ UNCHANGED watcherVars
  BY <1>1, <1>12, ScanFollow
<1>13. ~Crash /\ ~Boot
  BY DEF Crash, Boot
<1>14. QED
  BY <1>1, <1>2, <1>4, <1>5, <1>6, <1>7, <1>8, <1>9, <1>10, <1>11, <1>12, <1>13, SmoothSteps

\* The server goes down in a crash and comes back with a rescan.
LEMMA UpOrDown ==
  ASSUME QueueTypes, [LiveNext]_liveVars
  PROVE  /\ up' => up \/ Boot
         /\ Crash => ~up'
         /\ ~Boot => restarts' = restarts
         /\ Boot => restarts' /= 0 /\ \A f \in Files : Loose(f)'
<1>1. Crash => ~up'
  BY DEF Crash
<1>2. CASE Boot
  <2>1. restarts' /= 0 /\ rescans'
    BY <1>2 DEF Boot, QueueTypes
  <2>2. QED BY <1>1, <1>2, <2>1 DEF Loose, RescanQueued
<1>3. CASE ~Boot
  <2>1. restarts' = restarts /\ (up' = up \/ Crash)
    BY <1>3 DEF LiveNext, ChangeFile, MakeDirectory, HandleWatchEvent, HandleOverflow, DebounceStep,
       LoopStep, ReceiveRescan, ReceiveEvent, TimerFires, EnqueuePath, EndFlush, EnqueueRescanTask,
       Submit, Begin, IngestDirectory, Execute, ExecuteScan, Crash, liveVars, watcherVars
  <2>2. QED BY <1>1, <1>3, <2>1
<1>4. QED BY <1>2, <1>3

LEMMA NextOrderly ==
  ASSUME OneTaskPerFile, OnePage, IndexInv, QueueTypes, Orderly,
         failures = 0, failures' = 0, [LiveNext]_liveVars
  PROVE  Orderly'
<1>1. Types /\ Alone /\ Phases /\ Linked /\ Whole /\ Kinds
  BY DEF IndexInv, Orderly
<1>2. Linked' /\ Whole'
  BY <1>1, NextLinked
<1>3. Kinds' /\ (Shown => Shown' \/ Crash)
  BY <1>1, NextShown
<1>4. ASSUME up', restarts' = 0 PROVE Shown'
  <2>1. ~Boot /\ up /\ restarts = 0 /\ ~Crash
    BY <1>4, UpOrDown
  <2>2. QED BY <1>3, <2>1 DEF Orderly
<1>5. ASSUME up' PROVE Follow'
  <2>1. CASE Boot
    BY <2>1, UpOrDown DEF Follow
  <2>2. CASE ~Boot
    BY <1>5, <2>2, UpOrDown, NextFollow
  <2>3. QED BY <2>1, <2>2
<1>6. QED BY <1>2, <1>3, <1>4, <1>5 DEF Orderly

LEMMA WatchedHolds == LiveSpec /\ []OneTaskPerFile /\ []OnePage => []Watched
<1> DEFINE Watching == QueueTypes /\ Bootable /\ (failures = 0 => Orderly)
<1>1. LiveInit => Watching
  BY InitQueues, InitOrderly
<1>2. IndexInv /\ Watching /\ OneTaskPerFile /\ OnePage /\ [LiveNext]_liveVars /\ [IndexNext]_indexVars
        => Watching'
  <2> SUFFICES ASSUME IndexInv, Watching, OneTaskPerFile, OnePage, [LiveNext]_liveVars,
                      [IndexNext]_indexVars
               PROVE  Watching'
    OBVIOUS
  <2>1. QueueTypes' /\ Bootable'
    BY LiveStepTypes, LiveStepBootable
  <2>2. ASSUME failures' = 0 PROVE Orderly'
    <3>1. failures = 0
      BY <2>2, FailuresStay DEF IndexInv
    <3>2. QED BY <2>2, <3>1, NextOrderly
  <2>3. QED BY <2>1, <2>2
<1>3. IndexInv /\ Watching => Watched
  BY DEF Watched
<1> HIDE DEF Watching
<1>4. QED BY <1>1, <1>2, <1>3, WatcherDrivesIndex, IndexInvHolds, PTL DEF LiveSpec, IndexSpec

LEMMA WatchedCovers == Watched => (failures = 0 => NoChangeLost)
<1> SUFFICES ASSUME Watched, failures = 0, up, NEW f \in Files \ missed, Due(f), ~Fresh(f)
             PROVE  Covered(f)
  BY DEF NoChangeLost, Due
<1>1. IndexInv /\ Linked /\ Whole /\ (restarts = 0 => Shown) /\ (Loose(f) \/ Settled(f))
  BY DEF Watched, Orderly, Follow
<1>2. CASE Loose(f)
  BY <1>2 DEF Loose, Covered, PathCovers
<1>3. CASE Settled(f) /\ ~Scanning
  <2>1. PICK w \in Workers : pc[w] \in PathPCs /\ file[w] = f
    BY <1>3 DEF Settled, PathOn
  <2>2. PathRight(w) /\ job[w] = f
    BY <1>1, <1>3, <2>1 DEF Settled, Linked
  <2>3. PathCovers(w, f)
    BY <2>1, <2>2 DEF PathCovers, PathRight, PathPCs, SavePCs, Right, Current
  <2>4. QED BY <2>3 DEF Covered
<1>4. CASE Settled(f) /\ Scanning
  <2>1. f \notin touched /\ (disk[f].content = None => MissingCovered(f))
    BY <1>4 DEF Settled
  <2>2. scan.step /= "none" /\ \A w \in Workers : ~Storing(w)
    BY <1>1, <1>4, ScanningAlone DEF IndexInv, Alone
  <2>3. CASE disk[f].content /= None
    <3>1. CoveredFile(f)
      BY <1>1, <2>1, <2>2, <2>3 DEF IndexInv, Repairing, Steady, Whole
    <3>2. Waiting(f) \/ Underway(f)
      BY <3>1 DEF CoveredFile
    <3>3. ScanCovers(f)
      BY <1>4, <3>1, <3>2 DEF ScanCovers, CoveredFile, Waiting, Underway, Right, Current
    <3>4. QED BY <3>3 DEF Covered
  <2>4. CASE disk[f].content = None
    <3>1. ~Bare(f)
      BY <2>4, FileIndexAssumption DEF FileIndexAssumption, Fresh, Bare, Indexable
    <3>2. state[f].status \in OnPage \/ f \in scan.tomb
      BY <1>1, <2>2, <2>4, <3>1 DEF Shown, Due
    <3>3. state[f].status \in OnPage => WillBeTombstoned(f)
      BY <2>1, <2>4 DEF MissingCovered, WillBeTombstoned, Present, OnPage
    <3>4. QED BY <1>4, <2>4, <3>2, <3>3 DEF ScanCovers, Covered
  <2>5. QED BY <2>3, <2>4
<1>5. QED BY <1>1, <1>2, <1>3, <1>4

\* No change is lost: however many files, changes, workers and restarts, whatever the path
\* limit and however short the queues, a file whose index is stale is always on its way to be
\* indexed, by a notification, a queued path, a rescan that an overflow or a restart has put in
\* their place, or a task that holds its present content (watchLoop, handleWatchEvent,
\* debounceLoop, enqueueTask, workerLoop, Start). That is so until the first failed step, as long
\* as no file has two path tasks at once and the present states fit on one page of the tombstones:
\* each of these can lose a change. With PathLimit = 1 no file ever has two path tasks.
THEOREM ChangesAreFollowed ==
  LiveSpec /\ []OneTaskPerFile /\ []OnePage => [](failures = 0 => NoChangeLost)
BY WatchedHolds, WatchedCovers, PTL
=============================================================================
