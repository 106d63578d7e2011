------------------------------ MODULE FileIndex ------------------------------
(***************************************************************************)
(* How internal/projectingestion/service.go brings the index of a project  *)
(* up to date with its files. The index is three stores, written one after *)
(* the other for every file: the file state (SQLite), the content graph    *)
(* (Ladybug) and the search rows (SQLite FTS). IngestPath indexes one      *)
(* file, executeProjectRun walks the whole project and then tombstones the *)
(* files that it did not see. Files change under both. Files that the      *)
(* project excludes by directory are not among Files: the walk never       *)
(* enters such a directory, and the filters do not change while it runs.   *)
(*                                                                         *)
(* The workers are the goroutines that execute a task of the project, as   *)
(* the scheduler admits them: a full scan alone, up to PathLimit path      *)
(* tasks at a time (IngestionScheduler).                                   *)
(*                                                                         *)
(* Next uses none of the operators under a "Faulty" comment: each is a     *)
(* variant of the definition after it with a plausible bug.                *)
(***************************************************************************)
EXTENDS Naturals, FiniteSets

CONSTANTS
  Files,
  HashOrder,     \* HashOrder[f]: the place of f in the order of path hashes
  PageSize,      \* states per page of ListFileStatesPage
  Contents,      \* what a file may contain
  Eligible,      \* contents that pass the safety checks of BuildChunks
  Workers,
  PathLimit,     \* the scheduler's per-project limit
  MaxEdits,      \* bound: changes to files
  MaxFailures,   \* bound: steps and directories that fail
  None           \* the content of a file that does not exist

ASSUME FileIndexAssumption ==
  /\ IsFiniteSet(Files)
  /\ HashOrder \in [Files -> Nat]
  /\ \A f, g \in Files : HashOrder[f] = HashOrder[g] => f = g
  /\ PageSize \in Nat \ {0}
  /\ Eligible \subseteq Contents
  /\ None \notin Contents
  /\ PathLimit \in Nat \ {0}
  /\ MaxEdits \in Nat /\ MaxFailures \in Nat

VARIABLES
  disk,      \* disk[f]: content and modification time of f
  edits,     \* changes so far; also the clock of modification times
  failures,  \* failed steps so far
  state,     \* state[f]: the FileState row of f
  graph,     \* graph[f]: the content whose chunks the graph has
  search,    \* search[f]: the content whose rows the search store has
  pc,        \* where each worker is
  file,      \* the file of each worker's path task
  result,    \* fullScanFileResult of each worker's path task
  scan,      \* the running full scan
  touched    \* files changed since the running full scan began

stores  == <<state, graph, search>>
jobs    == <<pc, file, result, scan>>
indexVars == <<disk, edits, failures, stores, jobs, touched>>

FileStatuses == {"unknown", "eligible", "skipped", "absent"}
Result == [status : FileStatuses, content : Contents \cup {None},
           mtime : 0..MaxEdits, unchanged : BOOLEAN]
FileState == [status : FileStatuses, content : Contents \cup {None}, mtime : 0..MaxEdits]

NoState  == [status |-> "unknown", content |-> None, mtime |-> 0]
NoResult == [status |-> "unknown", content |-> None, mtime |-> 0, unchanged |-> FALSE]

\* A scan: the files the walk has still to visit, those whose stat is taken and
\* whose content is not yet read, the results of the batch, the batch being saved,
\* the files recorded as seen, those below a directory that could not be read, the
\* store written next, whether a step has failed; then the rest of the page of tombstones, the token of the next page (0: none)
\* and the file being tombstoned.
NoFiles == [f \in {} |-> NoResult]
NoScan == [todo |-> {}, stated |-> NoFiles, ready |-> NoFiles, saving |-> NoFiles,
           seen |-> {}, hidden |-> {}, step |-> "none", failed |-> FALSE,
           page |-> {}, next |-> 0, tomb |-> {}]
CollectSteps == {"collect", "graph", "search"}
TombstoneSteps == {"list", "tombstone", "tombGraph", "tombSearch"}

PathPCs == {"lstat", "read", "saveState", "saveGraph", "saveSearch"}

\* g gives results to some of the files.
Results(g) == DOMAIN g \subseteq Files /\ \A f \in DOMAIN g : g[f] \in Result

IndexTypeOK ==
  /\ disk \in [Files -> [content : Contents \cup {None}, mtime : 0..MaxEdits]]
  /\ edits \in 0..MaxEdits /\ failures \in 0..MaxFailures
  /\ state \in [Files -> FileState]
  /\ graph \in [Files -> Eligible \cup {None}]
  /\ search \in [Files -> Eligible \cup {None}]
  /\ pc \in [Workers -> PathPCs \cup {"idle", "scan"}]
  /\ \A w \in Workers : pc[w] \in PathPCs => file[w] \in Files /\ result[w] \in Result
  /\ scan.todo \subseteq Files /\ scan.seen \subseteq Files /\ scan.tomb \subseteq Files
  /\ scan.hidden \subseteq Files
  /\ Results(scan.stated) /\ Results(scan.ready) /\ Results(scan.saving)
  /\ scan.step \in {"none"} \cup CollectSteps \cup TombstoneSteps
  /\ scan.failed \in BOOLEAN
  /\ scan.page \subseteq Files /\ scan.next \in 0..Cardinality(Files)
  /\ touched \subseteq Files

\* What the index should hold for a content.
Indexable(c) == IF c \in Eligible THEN c ELSE None

\* The graph and the search store hold what is on disk.
Fresh(f) == graph[f] = Indexable(disk[f].content) /\ search[f] = Indexable(disk[f].content)

\* Each file is missing and unknown, or was indexed in an earlier life.
IndexInit ==
  /\ disk \in [Files -> {[content |-> c, mtime |-> 0] : c \in Contents \cup {None}}]
  /\ edits = 0 /\ failures = 0
  /\ state = [f \in Files |->
       LET c == disk[f].content IN
       IF c = None THEN NoState
       ELSE [status |-> IF c \in Eligible THEN "eligible" ELSE "skipped",
             content |-> Indexable(c), mtime |-> 0]]
  /\ graph = [f \in Files |-> Indexable(disk[f].content)]
  /\ search = graph
  /\ pc = [w \in Workers |-> "idle"]
  /\ file = [w \in Workers |-> None]
  /\ result = [w \in Workers |-> NoResult]
  /\ scan = NoScan
  /\ touched = {}

-----------------------------------------------------------------------------
(* Files change. *)

Scanning == \E w \in Workers : pc[w] = "scan"

\* f is written, truncated and rewritten, or removed (c = None).
Edit(f, c) ==
  /\ edits < MaxEdits
  /\ c /= None \/ disk[f].content /= None
  /\ disk' = [disk EXCEPT ![f] = [content |-> c, mtime |-> edits + 1]]
  /\ edits' = edits + 1
  /\ touched' = IF Scanning THEN touched \cup {f} ELSE touched
  /\ UNCHANGED <<failures, stores, jobs>>

-----------------------------------------------------------------------------
(* prepareExistingFile. *)

\* HasFileVersion and HasSearchFileVersion.
Stored(f, c) == graph[f] = c /\ search[f] = c

\* metadataUnchangedFile: same modification time, and both stores have the
\* content of the file state.
MetadataUnchanged(f, mtime) ==
  /\ state[f].status = "eligible"
  /\ state[f].mtime = mtime
  /\ Stored(f, state[f].content)

\* fileVersionUnchanged
VersionUnchanged(f, c) ==
  /\ state[f].status = "eligible"
  /\ state[f].content = c
  /\ Stored(f, c)

\* Faulty.
PreparedTrustingState(f, mtime) ==
  LET c == disk[f].content IN
  IF state[f].status = "eligible" /\ state[f].mtime = mtime
  THEN [status |-> "eligible", content |-> state[f].content, mtime |-> mtime, unchanged |-> TRUE]
  ELSE IF c \in Eligible
  THEN [status |-> "eligible", content |-> c, mtime |-> mtime, unchanged |-> VersionUnchanged(f, c)]
  ELSE [status |-> "skipped", content |-> None, mtime |-> mtime, unchanged |-> FALSE]

\* Faulty.
PreparedKeepingUnsafeContent(f, mtime) ==
  LET c == disk[f].content IN
  [status |-> IF c \in Eligible THEN "eligible" ELSE "skipped",
   content |-> c, mtime |-> mtime, unchanged |-> VersionUnchanged(f, c)]

\* prepareExistingFile, given the modification time of an earlier stat. A file
\* that has gone since is skipped with a read error.
Prepared(f, mtime) ==
  LET c == disk[f].content IN
  IF MetadataUnchanged(f, mtime)
  THEN [status |-> "eligible", content |-> state[f].content, mtime |-> mtime, unchanged |-> TRUE]
  ELSE IF c \in Eligible
  THEN [status |-> "eligible", content |-> c, mtime |-> mtime, unchanged |-> VersionUnchanged(f, c)]
  ELSE [status |-> "skipped", content |-> None, mtime |-> mtime, unchanged |-> FALSE]

StateOf(r) == [status |-> r.status, content |-> r.content, mtime |-> r.mtime]

\* What PutUnchangedFile, PutEligibleFile, PutSkippedFile and PutFileState make
\* of the chunks in the graph; the search store's writes do the same to its rows.
Saved(old, r) == IF r.unchanged THEN old ELSE r.content

-----------------------------------------------------------------------------
(* IngestPath. *)

Active == {w \in Workers : pc[w] /= "idle"}

BeginPath(w, f) ==
  /\ pc[w] = "idle"
  /\ ~Scanning
  /\ Cardinality(Active) < PathLimit
  /\ pc' = [pc EXCEPT ![w] = "lstat"]
  /\ file' = [file EXCEPT ![w] = f]
  /\ UNCHANGED <<disk, edits, failures, stores, result, scan, touched>>

\* os.Lstat; a missing file is saved as absent.
Lstat(w) ==
  LET f == file[w] IN
  /\ pc[w] = "lstat"
  /\ IF disk[f].content = None
     THEN /\ result' = [result EXCEPT ![w] = [NoResult EXCEPT !.status = "absent"]]
          /\ pc' = [pc EXCEPT ![w] = "saveState"]
     ELSE /\ result' = [result EXCEPT ![w] = [NoResult EXCEPT !.mtime = disk[f].mtime]]
          /\ pc' = [pc EXCEPT ![w] = "read"]
  /\ UNCHANGED <<disk, edits, failures, stores, file, scan, touched>>

Read(w) ==
  /\ pc[w] = "read"
  /\ result' = [result EXCEPT ![w] = Prepared(file[w], result[w].mtime)]
  /\ pc' = [pc EXCEPT ![w] = "saveState"]
  /\ UNCHANGED <<disk, edits, failures, stores, file, scan, touched>>

SaveState(w) ==
  /\ pc[w] = "saveState"
  /\ state' = [state EXCEPT ![file[w]] = StateOf(result[w])]
  /\ pc' = [pc EXCEPT ![w] = "saveGraph"]
  /\ UNCHANGED <<disk, edits, failures, graph, search, file, result, scan, touched>>

SaveGraph(w) ==
  /\ pc[w] = "saveGraph"
  /\ graph' = [graph EXCEPT ![file[w]] = Saved(@, result[w])]
  /\ pc' = [pc EXCEPT ![w] = "saveSearch"]
  /\ UNCHANGED <<disk, edits, failures, state, search, file, result, scan, touched>>

PathOver(w) ==
  /\ pc' = [pc EXCEPT ![w] = "idle"]
  /\ file' = [file EXCEPT ![w] = None]
  /\ result' = [result EXCEPT ![w] = NoResult]

SaveSearch(w) ==
  /\ pc[w] = "saveSearch"
  /\ search' = [search EXCEPT ![file[w]] = Saved(@, result[w])]
  /\ PathOver(w)
  /\ UNCHANGED <<disk, edits, failures, state, graph, scan, touched>>

\* A store write fails: the task returns its error and is not retried.
FailPath(w) ==
  /\ pc[w] \in {"saveState", "saveGraph", "saveSearch"}
  /\ failures < MaxFailures
  /\ failures' = failures + 1
  /\ PathOver(w)
  /\ UNCHANGED <<disk, edits, stores, scan, touched>>

-----------------------------------------------------------------------------
(* executeProjectRun: the walk, the file workers and the result loop run     *)
(* concurrently; tombstones follow when all are done.                        *)

Merged(g, h) == [f \in DOMAIN g \cup DOMAIN h |-> IF f \in DOMAIN h THEN h[f] ELSE g[f]]
With(g, f, r) == Merged(g, [h \in {f} |-> r])
Without(g, f) == [h \in DOMAIN g \ {f} |-> g[h]]

BeginScan(w) ==
  /\ pc[w] = "idle"
  /\ Active = {}
  /\ pc' = [pc EXCEPT ![w] = "scan"]
  /\ scan' = [NoScan EXCEPT !.todo = Files, !.step = "collect"]
  /\ touched' = {}
  /\ UNCHANGED <<disk, edits, failures, stores, file, result>>

ScanStep(s) == scan' = s /\ UNCHANGED <<disk, edits, failures, pc, file, result, touched>>

\* The walk finds f, takes its stat and hands it to a file worker; or f is not there.
WalkFile(f) ==
  /\ f \in scan.todo
  /\ ScanStep([scan EXCEPT
       !.todo = @ \ {f},
       !.stated = IF disk[f].content = None THEN @
                  ELSE With(@, f, [NoResult EXCEPT !.mtime = disk[f].mtime])])
  /\ UNCHANGED stores

\* f was listed by the walk and is gone when its stat is taken: it is recorded as
\* seen and saved as skipped.
WalkGoneFile(f) ==
  /\ f \in scan.todo /\ f \in touched /\ disk[f].content = None
  /\ ScanStep([scan EXCEPT
       !.todo = @ \ {f},
       !.ready = With(@, f, [NoResult EXCEPT !.status = "skipped"]),
       !.seen = @ \cup {f}])
  /\ UNCHANGED stores

\* A directory below the root cannot be read. The walk saves it as skipped, under its
\* own path, and goes on without the existing files D below it that it was not told of.
WalkUnreadableDirectory(D) ==
  /\ D /= {} /\ D \subseteq scan.todo
  /\ \A f \in D : disk[f].content /= None
  /\ failures < MaxFailures
  /\ failures' = failures + 1
  /\ scan' = [scan EXCEPT !.todo = @ \ D, !.hidden = @ \cup D]
  /\ UNCHANGED <<disk, edits, stores, pc, file, result, touched>>

\* A file worker prepares f; the result loop records it as seen.
PrepareFile(f) ==
  /\ f \in DOMAIN scan.stated
  /\ ScanStep([scan EXCEPT
       !.stated = Without(@, f),
       !.ready = With(@, f, Prepared(f, scan.stated[f].mtime)),
       !.seen = @ \cup {f}])
  /\ UNCHANGED stores

\* saveFullScanPreparedBatch: states, then graph, then search rows. A batch is
\* flushed when it is full, and at the end.
SaveBatchStates ==
  /\ scan.step = "collect" /\ DOMAIN scan.ready /= {}
  /\ state' = [f \in Files |-> IF f \in DOMAIN scan.ready THEN StateOf(scan.ready[f]) ELSE state[f]]
  /\ ScanStep([scan EXCEPT !.saving = scan.ready, !.ready = NoFiles, !.step = "graph"])
  /\ UNCHANGED <<graph, search>>

SaveBatchGraph ==
  /\ scan.step = "graph"
  /\ graph' = [f \in Files |-> IF f \in DOMAIN scan.saving THEN Saved(graph[f], scan.saving[f]) ELSE graph[f]]
  /\ ScanStep([scan EXCEPT !.step = "search"])
  /\ UNCHANGED <<state, search>>

SaveBatchSearch ==
  /\ scan.step = "search"
  /\ search' = [f \in Files |-> IF f \in DOMAIN scan.saving THEN Saved(search[f], scan.saving[f]) ELSE search[f]]
  /\ ScanStep([scan EXCEPT !.saving = NoFiles, !.step = "collect"])
  /\ UNCHANGED <<state, graph>>

\* Preparing a file, or a write of the batch, fails: the batch stays, no tombstones
\* follow, and the last flush tries the batch again.
FailBatch ==
  /\ scan.step \in CollectSteps
  /\ failures < MaxFailures
  /\ failures' = failures + 1
  /\ scan' = [scan EXCEPT !.ready = Merged(scan.saving, @), !.saving = NoFiles,
                          !.step = "collect", !.failed = TRUE]
  /\ UNCHANGED <<disk, edits, stores, pc, file, result, touched>>

\* tombstoneMissingFiles. The files with Present = true, and the place of one of
\* them in the order of the query.
Present == {f \in Files : state[f].status \in {"eligible", "skipped"}}
Place(f) == Cardinality({g \in Present : HashOrder[g] <= HashOrder[f]})

\* ListFileStatesPage: the token is an offset into the present states.
ListPage(offset) ==
  /\ LET last == offset + PageSize
     IN ScanStep([scan EXCEPT
          !.step = "tombstone",
          !.page = {f \in Present \ scan.seen : Place(f) \in offset + 1 .. last},
          !.next = IF Cardinality(Present) > last THEN last ELSE 0])
  /\ UNCHANGED stores

\* Faulty.
BeginTombstonesAfterWalk ==
  /\ scan.step = "collect" /\ scan.todo = {}
  /\ ScanStep([scan EXCEPT !.step = "list", !.stated = NoFiles, !.ready = NoFiles])
  /\ UNCHANGED stores

\* close(jobs), and the results are drained and flushed.
BeginTombstones ==
  /\ scan.step = "collect" /\ ~scan.failed
  /\ scan.todo = {} /\ DOMAIN scan.stated = {} /\ DOMAIN scan.ready = {}
  /\ ScanStep([scan EXCEPT !.step = "list"])
  /\ UNCHANGED stores

FirstPage == scan.step = "list" /\ ListPage(0)

NextPage ==
  /\ scan.step = "tombstone" /\ scan.page = {} /\ scan.next /= 0
  /\ ListPage(scan.next)

\* One file at a time, in the order of the page: state, graph, search.
TombstoneState ==
  /\ scan.step = "tombstone"
  /\ \E f \in scan.page :
       /\ \A g \in scan.page : HashOrder[f] <= HashOrder[g]
       /\ state' = [state EXCEPT ![f] = [@ EXCEPT !.status = "absent", !.content = None]]
       /\ ScanStep([scan EXCEPT !.step = "tombGraph", !.page = @ \ {f}, !.tomb = {f}])
  /\ UNCHANGED <<graph, search>>

TombstoneGraph ==
  /\ scan.step = "tombGraph"
  /\ graph' = [f \in Files |-> IF f \in scan.tomb THEN None ELSE graph[f]]
  /\ ScanStep([scan EXCEPT !.step = "tombSearch"])
  /\ UNCHANGED <<state, search>>

TombstoneSearch ==
  /\ scan.step = "tombSearch"
  /\ search' = [f \in Files |-> IF f \in scan.tomb THEN None ELSE search[f]]
  /\ ScanStep([scan EXCEPT !.step = "tombstone", !.tomb = {}])
  /\ UNCHANGED <<state, graph>>

ScanOver(w) ==
  /\ pc[w] = "scan"
  /\ pc' = [pc EXCEPT ![w] = "idle"]
  /\ scan' = NoScan
  /\ touched' = {}
  /\ UNCHANGED <<disk, edits, stores, file, result>>

FinishScan(w) ==
  /\ scan.step = "tombstone" /\ scan.page = {} /\ scan.next = 0
  /\ ScanOver(w)
  /\ UNCHANGED failures

\* The run fails: a step of the walk has failed (what is still in the batch may
\* have been saved or not), or a write of the tombstones fails.
FailScan(w) ==
  /\ \/ scan.step = "collect" /\ scan.failed /\ UNCHANGED failures
     \/ scan.step \in TombstoneSteps /\ failures < MaxFailures /\ failures' = failures + 1
  /\ ScanOver(w)

-----------------------------------------------------------------------------
\* The process dies between two steps; the disk and the stores stay.
IndexCrash ==
  /\ pc' = [w \in Workers |-> "idle"]
  /\ file' = [w \in Workers |-> None]
  /\ result' = [w \in Workers |-> NoResult]
  /\ scan' = NoScan
  /\ touched' = {}
  /\ UNCHANGED <<disk, edits, failures, stores>>

PathStep(w) == Lstat(w) \/ Read(w) \/ SaveState(w) \/ SaveGraph(w) \/ SaveSearch(w) \/ FailPath(w)

ScanProgress ==
  \/ \E f \in Files : WalkFile(f) \/ WalkGoneFile(f) \/ PrepareFile(f)
  \/ \E D \in SUBSET Files : WalkUnreadableDirectory(D)
  \/ SaveBatchStates \/ SaveBatchGraph \/ SaveBatchSearch \/ FailBatch
  \/ BeginTombstones \/ FirstPage \/ NextPage
  \/ TombstoneState \/ TombstoneGraph \/ TombstoneSearch

IndexStep ==
  \/ \E w \in Workers : PathStep(w) \/ FinishScan(w) \/ FailScan(w)
  \/ ScanProgress

IndexNext ==
  \/ \E f \in Files, c \in Contents \cup {None} : Edit(f, c)
  \/ \E w \in Workers, f \in Files : BeginPath(w, f)
  \/ \E w \in Workers : BeginScan(w)
  \/ IndexStep
  \/ IndexCrash

IndexSpec == IndexInit /\ [][IndexNext]_indexVars
=============================================================================
