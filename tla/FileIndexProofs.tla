--------------------------- MODULE FileIndexProofs ---------------------------
(***************************************************************************)
(* Machine-checked proofs about the file index: for any files, contents,   *)
(* workers, page size and any number of changes, failures and crashes.     *)
(***************************************************************************)
EXTENDS FileIndexProperties, FiniteSetTheorems, TLAPS

-----------------------------------------------------------------------------
(* Types. *)

\* What prepareExistingFile returns, and what the stores keep of it, is never
\* the content of a file that failed the safety checks.
SafeResult == [status : FileStatuses, content : Eligible \cup {None},
               mtime : 0..MaxEdits, unchanged : BOOLEAN]
SafeState == [status : FileStatuses, content : Eligible \cup {None}, mtime : 0..MaxEdits]

\* Results for some of the files.
Batches == UNION {[D -> SafeResult] : D \in SUBSET Files}

ScanSteps == {"none"} \cup CollectSteps \cup TombstoneSteps
Scans == [todo : SUBSET Files, stated : Batches, ready : Batches, saving : Batches,
          seen : SUBSET Files, hidden : SUBSET Files, step : ScanSteps, failed : BOOLEAN,
          page : SUBSET Files, next : 0..Cardinality(Files), tomb : SUBSET Files]

DiskTypes ==
  /\ disk \in [Files -> [content : Contents \cup {None}, mtime : 0..MaxEdits]]
  /\ edits \in 0..MaxEdits /\ failures \in 0..MaxFailures
  /\ touched \subseteq Files
StoreTypes ==
  /\ state \in [Files -> SafeState]
  /\ graph \in [Files -> Eligible \cup {None}]
  /\ search \in [Files -> Eligible \cup {None}]
JobTypes ==
  /\ pc \in [Workers -> PathPCs \cup {"idle", "scan"}]
  /\ file \in [Workers -> Files \cup {None}]
  /\ result \in [Workers -> SafeResult]
  /\ \A w \in Workers : pc[w] \in PathPCs => file[w] \in Files
Types == DiskTypes /\ StoreTypes /\ JobTypes /\ scan \in Scans

LEMMA BatchType ==
  /\ \A g \in Batches : DOMAIN g \in SUBSET Files /\ \A f \in DOMAIN g : g[f] \in SafeResult
  /\ \A D \in SUBSET Files : \A g \in [D -> SafeResult] : g \in Batches
  /\ NoFiles \in Batches /\ DOMAIN NoFiles = {}
BY DEF Batches, NoFiles

LEMMA BatchMerged ==
  ASSUME NEW g \in Batches, NEW h \in Batches
  PROVE  /\ Merged(g, h) \in Batches
         /\ DOMAIN Merged(g, h) = DOMAIN g \cup DOMAIN h
         /\ \A f \in DOMAIN h : Merged(g, h)[f] = h[f]
         /\ \A f \in DOMAIN g \ DOMAIN h : Merged(g, h)[f] = g[f]
<1>1. Merged(g, h) \in [DOMAIN g \cup DOMAIN h -> SafeResult]
  BY BatchType DEF Merged
<1>2. DOMAIN g \cup DOMAIN h \in SUBSET Files
  BY BatchType
<1>3. QED BY <1>1, <1>2, BatchType DEF Merged

LEMMA BatchWith ==
  ASSUME NEW g \in Batches, NEW f \in Files, NEW r \in SafeResult
  PROVE  /\ With(g, f, r) \in Batches
         /\ DOMAIN With(g, f, r) = DOMAIN g \cup {f}
         /\ With(g, f, r)[f] = r
         /\ \A h \in DOMAIN g \ {f} : With(g, f, r)[h] = g[h]
<1>1. [h \in {f} |-> r] \in Batches
  <2>1. [h \in {f} |-> r] \in [{f} -> SafeResult] /\ {f} \in SUBSET Files
    OBVIOUS
  <2>2. QED BY <2>1, BatchType
<1>2. QED BY <1>1, BatchMerged DEF With

LEMMA BatchWithout ==
  ASSUME NEW g \in Batches, NEW f
  PROVE  /\ Without(g, f) \in Batches
         /\ DOMAIN Without(g, f) = DOMAIN g \ {f}
         /\ \A h \in DOMAIN g \ {f} : Without(g, f)[h] = g[h]
<1>1. Without(g, f) \in [DOMAIN g \ {f} -> SafeResult] /\ DOMAIN g \ {f} \in SUBSET Files
  BY BatchType DEF Without
<1>2. QED BY <1>1, BatchType DEF Without

LEMMA PlainResults ==
  /\ NoResult \in SafeResult
  /\ [NoResult EXCEPT !.status = "absent"] \in SafeResult
  /\ [NoResult EXCEPT !.status = "skipped"] \in SafeResult
  /\ \A m \in 0..MaxEdits : [NoResult EXCEPT !.mtime = m] \in SafeResult
<1>1. 0 \in 0..MaxEdits
  BY FileIndexAssumption DEF FileIndexAssumption
<1>2. "unknown" \in FileStatuses /\ "absent" \in FileStatuses /\ "skipped" \in FileStatuses
  BY DEF FileStatuses
<1>3. NoResult \in SafeResult
  BY <1>1, <1>2 DEF NoResult, SafeResult
<1>4. QED BY <1>2, <1>3 DEF SafeResult

\* An unsafe or unreadable content never enters a result: neither from the disk
\* nor, through the short cut for unchanged metadata, from a file state.
LEMMA PreparedType ==
  ASSUME Types, NEW f \in Files, NEW m \in 0..MaxEdits
  PROVE  Prepared(f, m) \in SafeResult
<1>1. state[f].content \in Eligible \cup {None}
  BY DEF Types, StoreTypes, SafeState
<1>2. "eligible" \in FileStatuses /\ "skipped" \in FileStatuses
  BY DEF FileStatuses
<1>3. VersionUnchanged(f, disk[f].content) \in BOOLEAN
  BY DEF VersionUnchanged, Stored
<1>4. QED BY <1>1, <1>2, <1>3 DEF Prepared, SafeResult

LEMMA SavedType ==
  ASSUME NEW r \in SafeResult, NEW old \in Eligible \cup {None}
  PROVE  StateOf(r) \in SafeState /\ Saved(old, r) \in Eligible \cup {None}
BY DEF SafeResult, SafeState, StateOf, Saved

LEMMA NoScanType == NoScan \in Scans /\ [NoScan EXCEPT !.todo = Files, !.step = "collect"] \in Scans
<1>1. 0 \in 0..Cardinality(Files)
  BY FileIndexAssumption, FS_CardinalityType DEF FileIndexAssumption
<1>2. QED BY <1>1, BatchType DEF NoScan, Scans, ScanSteps, CollectSteps

LEMMA InitTypes == IndexInit => Types
<1> SUFFICES ASSUME IndexInit PROVE Types
  OBVIOUS
<1>1. 0 \in 0..MaxEdits /\ 0 \in 0..MaxFailures
  BY FileIndexAssumption DEF FileIndexAssumption
<1>2. DiskTypes
  BY <1>1 DEF IndexInit, DiskTypes
<1>3. /\ graph \in [Files -> Eligible \cup {None}]
      /\ search \in [Files -> Eligible \cup {None}]
  BY DEF IndexInit, Indexable
<1>4. state \in [Files -> SafeState]
  <2>1. NoState \in SafeState
    BY <1>1 DEF NoState, SafeState, FileStatuses
  <2>2. \A c : [status |-> IF c \in Eligible THEN "eligible" ELSE "skipped",
                content |-> Indexable(c), mtime |-> 0] \in SafeState
    BY <1>1 DEF SafeState, FileStatuses, Indexable
  <2>3. QED BY <2>1, <2>2 DEF IndexInit
<1>5. JobTypes
  BY PlainResults DEF IndexInit, JobTypes, PathPCs
<1>6. scan \in Scans
  BY NoScanType DEF IndexInit
<1>7. QED BY <1>2, <1>3, <1>4, <1>5, <1>6 DEF Types, StoreTypes

\* A scan step changes the scan only; its new value is well formed if each field
\* that changes is.
LEMMA ScanFields ==
  ASSUME Types
  PROVE  /\ scan.todo \in SUBSET Files /\ scan.seen \in SUBSET Files /\ scan.hidden \in SUBSET Files
         /\ scan.stated \in Batches /\ scan.ready \in Batches /\ scan.saving \in Batches
         /\ scan.page \in SUBSET Files /\ scan.tomb \in SUBSET Files
         /\ scan.step \in ScanSteps /\ scan.failed \in BOOLEAN
         /\ scan.next \in 0..Cardinality(Files)
         /\ \A f \in DOMAIN scan.stated : f \in Files /\ scan.stated[f].mtime \in 0..MaxEdits
BY BatchType DEF Types, Scans, SafeResult

LEMMA FewPresent ==
  /\ IsFiniteSet(Present)
  /\ Cardinality(Present) \in Nat /\ Cardinality(Present) <= Cardinality(Files)
  /\ Cardinality(Files) \in Nat
<1>1. IsFiniteSet(Files) /\ Present \in SUBSET Files
  BY FileIndexAssumption DEF FileIndexAssumption, Present
<1>2. QED BY <1>1, FS_Subset, FS_CardinalityType

LEMMA ListPageType ==
  ASSUME Types, NEW offset \in Nat, ListPage(offset)
  PROVE  scan' \in Scans
<1> DEFINE last == offset + PageSize
           page == {f \in Present \ scan.seen : Place(f) \in offset + 1 .. last}
           next == IF Cardinality(Present) > last THEN last ELSE 0
<1>1. page \in SUBSET Files
  BY DEF Present
<1>2. next \in 0..Cardinality(Files)
  BY FewPresent, FileIndexAssumption DEF FileIndexAssumption
<1>3. scan' = [scan EXCEPT !.step = "tombstone", !.page = page, !.next = next]
  BY DEF ListPage, ScanStep
<1> HIDE DEF page, next
<1>4. QED BY <1>1, <1>2, <1>3 DEF Types, Scans, ScanSteps, TombstoneSteps

LEMMA ScanProgressTypes ==
  ASSUME Types, ScanProgress
  PROVE  scan' \in Scans
<1> USE DEF ScanStep
<1>0. "collect" \in ScanSteps /\ "graph" \in ScanSteps /\ "search" \in ScanSteps
      /\ "list" \in ScanSteps /\ "tombstone" \in ScanSteps /\ "tombGraph" \in ScanSteps
      /\ "tombSearch" \in ScanSteps
  BY DEF ScanSteps, CollectSteps, TombstoneSteps
<1>1. ASSUME NEW f \in Files, WalkFile(f) PROVE scan' \in Scans
  <2>1. disk[f].mtime \in 0..MaxEdits
    BY DEF Types, DiskTypes
  <2>2. With(scan.stated, f, [NoResult EXCEPT !.mtime = disk[f].mtime]) \in Batches
    BY <2>1, ScanFields, PlainResults, BatchWith
  <2>3. PICK b \in Batches : scan' = [scan EXCEPT !.todo = @ \ {f}, !.stated = b]
    BY <1>1, <2>2, ScanFields DEF WalkFile
  <2>4. QED BY <2>3 DEF Types, Scans
<1>2. ASSUME NEW f \in Files, WalkGoneFile(f) PROVE scan' \in Scans
  <2>1. With(scan.ready, f, [NoResult EXCEPT !.status = "skipped"]) \in Batches
    BY ScanFields, PlainResults, BatchWith
  <2>2. PICK b \in Batches : scan' = [scan EXCEPT !.todo = @ \ {f}, !.ready = b, !.seen = @ \cup {f}]
    BY <1>2, <2>1 DEF WalkGoneFile
  <2>3. QED BY <2>2 DEF Types, Scans
<1>3. ASSUME NEW f \in Files, PrepareFile(f) PROVE scan' \in Scans
  <2>1. Prepared(f, scan.stated[f].mtime) \in SafeResult
    BY <1>3, ScanFields, PreparedType DEF PrepareFile
  <2>2. /\ Without(scan.stated, f) \in Batches
        /\ With(scan.ready, f, Prepared(f, scan.stated[f].mtime)) \in Batches
    BY <2>1, ScanFields, BatchWith, BatchWithout
  <2>3. PICK b \in Batches, c \in Batches :
          scan' = [scan EXCEPT !.stated = b, !.ready = c, !.seen = @ \cup {f}]
    BY <1>3, <2>2 DEF PrepareFile
  <2>4. QED BY <2>3 DEF Types, Scans
<1>4. CASE SaveBatchStates
  <2>1. PICK b \in Batches, c \in Batches :
          scan' = [scan EXCEPT !.saving = b, !.ready = c, !.step = "graph"]
    BY <1>4, ScanFields, BatchType DEF SaveBatchStates
  <2>2. QED BY <1>0, <2>1 DEF Types, Scans
<1>5. CASE SaveBatchGraph
  BY <1>0, <1>5 DEF SaveBatchGraph, Types, Scans
<1>6. CASE SaveBatchSearch
  BY <1>0, <1>6, BatchType DEF SaveBatchSearch, Types, Scans
<1>7. CASE FailBatch
  <2>1. PICK b \in Batches, c \in Batches :
          scan' = [scan EXCEPT !.ready = b, !.saving = c, !.step = "collect", !.failed = TRUE]
    BY <1>7, ScanFields, BatchType, BatchMerged DEF FailBatch
  <2>2. QED BY <1>0, <2>1 DEF Types, Scans
<1>8. CASE BeginTombstones
  BY <1>0, <1>8 DEF BeginTombstones, Types, Scans
<1>9. CASE FirstPage
  BY <1>9, ListPageType DEF FirstPage
<1>10. CASE NextPage
  BY <1>10, ScanFields, ListPageType DEF NextPage
<1>11. CASE TombstoneState
  <2>1. PICK f \in Files :
          scan' = [scan EXCEPT !.step = "tombGraph", !.page = @ \ {f}, !.tomb = {f}]
    BY <1>11, ScanFields DEF TombstoneState
  <2>2. QED BY <1>0, <2>1 DEF Types, Scans
<1>12. CASE TombstoneGraph
  BY <1>0, <1>12 DEF TombstoneGraph, Types, Scans
<1>13. CASE TombstoneSearch
  BY <1>0, <1>13 DEF TombstoneSearch, Types, Scans
<1>14. ASSUME NEW D \in SUBSET Files, WalkUnreadableDirectory(D) PROVE scan' \in Scans
  BY <1>14 DEF WalkUnreadableDirectory, Types, Scans
<1>15. QED
  BY <1>1, <1>2, <1>3, <1>4, <1>5, <1>6, <1>7, <1>8, <1>9, <1>10, <1>11, <1>12, <1>13, <1>14
     DEF ScanProgress

LEMMA ScanProgressStores ==
  ASSUME Types, ScanProgress
  PROVE  StoreTypes'
<1> USE DEF ScanStep, stores
<1>0. None \in Eligible \cup {None}
  OBVIOUS
<1>1. /\ state \in [Files -> SafeState]
      /\ graph \in [Files -> Eligible \cup {None}]
      /\ search \in [Files -> Eligible \cup {None}]
  BY DEF Types, StoreTypes
<1>2. CASE UNCHANGED stores
  BY <1>1, <1>2 DEF StoreTypes
<1>3. CASE SaveBatchStates
  <2>1. \A f \in DOMAIN scan.ready : StateOf(scan.ready[f]) \in SafeState
    BY <1>0, ScanFields, BatchType, SavedType
  <2>2. state' \in [Files -> SafeState]
    BY <1>1, <1>3, <2>1 DEF SaveBatchStates
  <2>3. QED BY <1>1, <1>3, <2>2 DEF SaveBatchStates, StoreTypes
<1>4. ASSUME NEW st \in [Files -> Eligible \cup {None}]
      PROVE  [f \in Files |-> IF f \in DOMAIN scan.saving THEN Saved(st[f], scan.saving[f]) ELSE st[f]]
               \in [Files -> Eligible \cup {None}]
  <2>1. \A f \in DOMAIN scan.saving : Saved(st[f], scan.saving[f]) \in Eligible \cup {None}
    BY ScanFields, BatchType, SavedType
  <2>2. QED BY <2>1
<1>5. CASE SaveBatchGraph
  BY <1>1, <1>4, <1>5 DEF SaveBatchGraph, StoreTypes
<1>6. CASE SaveBatchSearch
  BY <1>1, <1>4, <1>6 DEF SaveBatchSearch, StoreTypes
<1>7. CASE TombstoneState
  <2>1. PICK f \in Files : state' = [state EXCEPT ![f] = [@ EXCEPT !.status = "absent", !.content = None]]
    BY <1>7, ScanFields DEF TombstoneState
  <2>2. [state[f] EXCEPT !.status = "absent", !.content = None] \in SafeState
    BY <1>1 DEF SafeState, FileStatuses
  <2>3. state' \in [Files -> SafeState]
    BY <1>1, <2>1, <2>2
  <2>4. QED BY <1>1, <1>7, <2>3 DEF TombstoneState, StoreTypes
<1>8. CASE TombstoneGraph
  BY <1>1, <1>8 DEF TombstoneGraph, StoreTypes
<1>9. CASE TombstoneSearch
  BY <1>1, <1>9 DEF TombstoneSearch, StoreTypes
<1>10. QED
  BY <1>2, <1>3, <1>5, <1>6, <1>7, <1>8, <1>9
     DEF ScanProgress, WalkFile, WalkGoneFile, WalkUnreadableDirectory, PrepareFile, FailBatch,
         BeginTombstones, FirstPage, NextPage, ListPage

LEMMA ScanProgressFrame ==
  ASSUME ScanProgress
  PROVE  UNCHANGED <<disk, edits, pc, file, result, touched>>
         /\ (failures' = failures \/ (failures < MaxFailures /\ failures' = failures + 1))
<1>1. CASE FailBatch \/ \E D \in SUBSET Files : WalkUnreadableDirectory(D)
  BY <1>1 DEF FailBatch, WalkUnreadableDirectory
<1>2. CASE \E f \in Files : WalkFile(f) \/ WalkGoneFile(f) \/ PrepareFile(f)
  BY <1>2 DEF WalkFile, WalkGoneFile, PrepareFile, ScanStep
<1>3. CASE SaveBatchStates \/ SaveBatchGraph \/ SaveBatchSearch \/ BeginTombstones
  BY <1>3 DEF SaveBatchStates, SaveBatchGraph, SaveBatchSearch, BeginTombstones, ScanStep
<1>4. CASE FirstPage \/ NextPage
  BY <1>4 DEF FirstPage, NextPage, ListPage, ScanStep
<1>5. CASE TombstoneState \/ TombstoneGraph \/ TombstoneSearch
  BY <1>5 DEF TombstoneState, TombstoneGraph, TombstoneSearch, ScanStep
<1>6. QED BY <1>1, <1>2, <1>3, <1>4, <1>5 DEF ScanProgress

LEMMA PathOverTypes ==
  ASSUME JobTypes, NEW w \in Workers, PathOver(w)
  PROVE  JobTypes'
<1>1. /\ pc' \in [Workers -> PathPCs \cup {"idle", "scan"}]
      /\ file' \in [Workers -> Files \cup {None}]
      /\ result' \in [Workers -> SafeResult]
  BY PlainResults DEF JobTypes, PathOver
<1>2. \A v \in Workers : pc'[v] \in PathPCs => file'[v] \in Files
  BY DEF JobTypes, PathOver, PathPCs
<1>3. QED BY <1>1, <1>2 DEF JobTypes

\* One step of a path task keeps the types.
LEMMA PathStepTypes ==
  ASSUME Types, NEW w \in Workers, PathStep(w)
  PROVE  Types'
<1>1. /\ disk \in [Files -> [content : Contents \cup {None}, mtime : 0..MaxEdits]]
      /\ state \in [Files -> SafeState]
      /\ graph \in [Files -> Eligible \cup {None}]
      /\ search \in [Files -> Eligible \cup {None}]
      /\ pc \in [Workers -> PathPCs \cup {"idle", "scan"}]
      /\ result \in [Workers -> SafeResult]
      /\ \A v \in Workers : pc[v] \in PathPCs => file[v] \in Files
      /\ failures \in 0..MaxFailures
      /\ scan \in Scans /\ JobTypes
  BY DEF Types, DiskTypes, StoreTypes, JobTypes
<1>2. result[w].mtime \in 0..MaxEdits /\ result[w] \in SafeResult
  BY <1>1 DEF SafeResult
<1>3. ASSUME NEW p \in PathPCs, NEW r \in SafeResult, pc[w] \in PathPCs,
             pc' = [pc EXCEPT ![w] = p], result' = [result EXCEPT ![w] = r], file' = file
      PROVE  JobTypes'
  BY <1>1, <1>3 DEF JobTypes
<1>4. ASSUME NEW p \in PathPCs, pc[w] \in PathPCs,
             pc' = [pc EXCEPT ![w] = p], UNCHANGED <<result, file>>
      PROVE  JobTypes'
  BY <1>1, <1>4 DEF JobTypes
<1>5. CASE Lstat(w)
  <2>1. pc[w] \in PathPCs /\ file[w] \in Files
    BY <1>1, <1>5 DEF Lstat, PathPCs
  <2>2. disk[file[w]].mtime \in 0..MaxEdits
    BY <1>1, <2>1
  <2>3. PICK p \in PathPCs, r \in SafeResult :
          pc' = [pc EXCEPT ![w] = p] /\ result' = [result EXCEPT ![w] = r]
    BY <1>5, <2>2, PlainResults DEF Lstat, PathPCs
  <2>4. JobTypes'
    BY <1>3, <1>5, <2>1, <2>3 DEF Lstat
  <2>5. QED BY <1>1, <1>5, <2>4 DEF Lstat, Types, DiskTypes, StoreTypes, stores
<1>6. CASE Read(w)
  <2>1. pc[w] \in PathPCs /\ file[w] \in Files /\ "saveState" \in PathPCs
    BY <1>1, <1>6 DEF Read, PathPCs
  <2>2. Prepared(file[w], result[w].mtime) \in SafeResult
    BY <1>2, <2>1, PreparedType
  <2>3. JobTypes'
    BY <1>3, <1>6, <2>1, <2>2 DEF Read
  <2>4. QED BY <1>1, <1>6, <2>3 DEF Read, Types, DiskTypes, StoreTypes, stores
<1>7. CASE SaveState(w)
  <2>1. pc[w] \in PathPCs /\ file[w] \in Files /\ "saveGraph" \in PathPCs
    BY <1>1, <1>7 DEF SaveState, PathPCs
  <2>2. JobTypes'
    BY <1>4, <1>7, <2>1 DEF SaveState
  <2>3. StateOf(result[w]) \in SafeState
    BY <1>2, SavedType
  <2>4. state' \in [Files -> SafeState]
    BY <1>1, <1>7, <2>1, <2>3 DEF SaveState
  <2>5. QED BY <1>1, <1>7, <2>2, <2>4 DEF SaveState, Types, DiskTypes, StoreTypes
<1>8. CASE SaveGraph(w)
  <2>1. pc[w] \in PathPCs /\ file[w] \in Files /\ "saveSearch" \in PathPCs
    BY <1>1, <1>8 DEF SaveGraph, PathPCs
  <2>2. JobTypes'
    BY <1>4, <1>8, <2>1 DEF SaveGraph
  <2>3. Saved(graph[file[w]], result[w]) \in Eligible \cup {None}
    BY <1>1, <1>2, <2>1, SavedType
  <2>4. graph' \in [Files -> Eligible \cup {None}]
    BY <1>1, <1>8, <2>1, <2>3 DEF SaveGraph
  <2>5. QED BY <1>1, <1>8, <2>2, <2>4 DEF SaveGraph, Types, DiskTypes, StoreTypes
<1>9. CASE SaveSearch(w)
  <2>1. pc[w] \in PathPCs /\ file[w] \in Files
    BY <1>1, <1>9 DEF SaveSearch, PathPCs
  <2>2. Saved(search[file[w]], result[w]) \in Eligible \cup {None}
    BY <1>1, <1>2, <2>1, SavedType
  <2>3. search' \in [Files -> Eligible \cup {None}]
    BY <1>1, <1>9, <2>1, <2>2 DEF SaveSearch
  <2>4. QED BY <1>1, <1>9, <2>3, PathOverTypes DEF SaveSearch, Types, DiskTypes, StoreTypes
<1>10. CASE FailPath(w)
  <2>1. failures' \in 0..MaxFailures
    BY <1>1, <1>10, FileIndexAssumption DEF FailPath, FileIndexAssumption
  <2>2. QED BY <1>1, <1>10, <2>1, PathOverTypes DEF FailPath, Types, DiskTypes, StoreTypes, stores
<1>11. QED BY <1>5, <1>6, <1>7, <1>8, <1>9, <1>10 DEF PathStep

LEMMA NextTypes == Types /\ [IndexNext]_indexVars => Types'
<1> SUFFICES ASSUME Types, [IndexNext]_indexVars PROVE Types'
  OBVIOUS
<1>1. /\ disk \in [Files -> [content : Contents \cup {None}, mtime : 0..MaxEdits]]
      /\ edits \in 0..MaxEdits /\ failures \in 0..MaxFailures /\ touched \subseteq Files
      /\ StoreTypes /\ JobTypes /\ scan \in Scans
      /\ pc \in [Workers -> PathPCs \cup {"idle", "scan"}]
      /\ file \in [Workers -> Files \cup {None}]
      /\ result \in [Workers -> SafeResult]
      /\ \A w \in Workers : pc[w] \in PathPCs => file[w] \in Files
  BY DEF Types, DiskTypes, JobTypes
<1>2. MaxEdits \in Nat /\ MaxFailures \in Nat
  BY FileIndexAssumption DEF FileIndexAssumption
<1>3. ASSUME failures' = failures \/ (failures < MaxFailures /\ failures' = failures + 1)
      PROVE  failures' \in 0..MaxFailures
  BY <1>1, <1>2, <1>3
<1>4. ASSUME UNCHANGED <<pc, file, result>> PROVE JobTypes'
  BY <1>1, <1>4 DEF JobTypes
<1>5. ASSUME UNCHANGED stores PROVE StoreTypes'
  BY <1>1, <1>5 DEF StoreTypes, stores
<1>6. ASSUME NEW f \in Files, NEW c \in Contents \cup {None}, Edit(f, c) PROVE Types'
  <2>1. edits + 1 \in 0..MaxEdits
    BY <1>1, <1>2, <1>6 DEF Edit
  <2>2. DiskTypes'
    BY <1>1, <1>6, <2>1 DEF Edit, DiskTypes
  <2>3. QED BY <1>1, <1>4, <1>5, <1>6, <2>2 DEF Edit, jobs, Types
<1>7. ASSUME NEW w \in Workers, NEW f \in Files, BeginPath(w, f) PROVE Types'
  <2>1. JobTypes'
    BY <1>1, <1>7 DEF BeginPath, JobTypes, PathPCs
  <2>2. QED BY <1>1, <1>5, <1>7, <2>1 DEF BeginPath, Types, DiskTypes
<1>8. ASSUME NEW w \in Workers, BeginScan(w) PROVE Types'
  <2>1. JobTypes'
    BY <1>1, <1>8 DEF BeginScan, JobTypes, PathPCs
  <2>2. scan' \in Scans
    BY <1>8, NoScanType DEF BeginScan
  <2>3. QED BY <1>1, <1>5, <1>8, <2>1, <2>2 DEF BeginScan, Types, DiskTypes
<1>9. ASSUME NEW w \in Workers, FinishScan(w) \/ FailScan(w) PROVE Types'
  <2>1. ScanOver(w) /\ failures' \in 0..MaxFailures
    BY <1>1, <1>3, <1>9 DEF FinishScan, FailScan
  <2>2. JobTypes'
    BY <1>1, <2>1 DEF ScanOver, JobTypes, PathPCs
  <2>3. QED BY <1>1, <1>5, <2>1, <2>2, NoScanType DEF ScanOver, Types, DiskTypes
<1>10. CASE ScanProgress
  BY <1>1, <1>3, <1>4, <1>10, ScanProgressFrame, ScanProgressStores, ScanProgressTypes
     DEF Types, DiskTypes
<1>11. CASE IndexCrash
  <2>1. JobTypes'
    BY <1>11, PlainResults DEF IndexCrash, JobTypes, PathPCs
  <2>2. QED BY <1>1, <1>5, <1>11, <2>1, NoScanType DEF IndexCrash, Types, DiskTypes
<1>12. CASE UNCHANGED indexVars
  BY <1>1, <1>4, <1>5, <1>12 DEF indexVars, jobs, Types, DiskTypes
<1>13. QED
  BY <1>6, <1>7, <1>8, <1>9, <1>10, <1>11, <1>12, PathStepTypes DEF IndexNext, IndexStep

LEMMA TypesHold == IndexSpec => []Types
<1>1. QED BY InitTypes, NextTypes, PTL DEF IndexSpec

LEMMA TypesGiveTypeOK == Types => IndexTypeOK
<1> SUFFICES ASSUME Types PROVE IndexTypeOK
  OBVIOUS
<1>1. \A r \in SafeResult : r \in Result
  BY FileIndexAssumption DEF FileIndexAssumption, SafeResult, Result
<1>2. \A g \in Batches : Results(g)
  BY <1>1, BatchType DEF Results
<1>3. \A s \in SafeState : s \in FileState
  BY FileIndexAssumption DEF FileIndexAssumption, SafeState, FileState
<1>4. state \in [Files -> FileState]
  BY <1>3 DEF Types, StoreTypes
<1>5. \A w \in Workers : pc[w] \in PathPCs => file[w] \in Files /\ result[w] \in Result
  BY <1>1 DEF Types, JobTypes
<1>6. QED BY <1>2, <1>4, <1>5, ScanFields DEF Types, DiskTypes, StoreTypes, JobTypes, ScanSteps, IndexTypeOK

\* Type correctness of the index. What is stored, and what the graph and the search
\* store hold, is never the content of a file that failed the safety checks.
THEOREM IndexTyped == IndexSpec => []IndexTypeOK
BY TypesGiveTypeOK, TypesHold, PTL

-----------------------------------------------------------------------------
(* What each step does to the scan, field by field. *)

LEMMA WalkEffect ==
  ASSUME Types, NEW f \in Files, WalkFile(f)
  PROVE  /\ f \in scan.todo /\ scan'.todo = scan.todo \ {f}
         /\ DOMAIN scan'.stated \subseteq DOMAIN scan.stated \cup {f}
         /\ DOMAIN scan.stated \subseteq DOMAIN scan'.stated
         /\ \A g \in DOMAIN scan'.stated \ {f} : scan'.stated[g] = scan.stated[g]
         /\ disk[f].content /= None =>
              /\ f \in DOMAIN scan'.stated
              /\ scan'.stated[f].mtime = disk[f].mtime
         /\ disk[f].content = None => scan'.stated = scan.stated
         /\ f \in DOMAIN scan'.stated =>
              \/ scan'.stated[f].status = "unknown" /\ scan'.stated[f].mtime = disk[f].mtime
              \/ f \in DOMAIN scan.stated /\ scan'.stated[f] = scan.stated[f]
         /\ scan'.ready = scan.ready /\ scan'.saving = scan.saving /\ scan'.seen = scan.seen
         /\ scan'.step = scan.step /\ scan'.page = scan.page /\ scan'.tomb = scan.tomb
         /\ UNCHANGED <<disk, edits, stores, pc, file, result, touched>>
<1> DEFINE r == [NoResult EXCEPT !.mtime = disk[f].mtime]
           b == IF disk[f].content = None THEN scan.stated ELSE With(scan.stated, f, r)
<1>1. r \in SafeResult /\ r.status = "unknown" /\ r.mtime = disk[f].mtime
  <2>1. disk[f].mtime \in 0..MaxEdits
    BY DEF Types, DiskTypes
  <2>2. QED BY <2>1, PlainResults DEF NoResult
<1> HIDE DEF r
<1>2. /\ disk[f].content = None => b = scan.stated
      /\ disk[f].content /= None =>
           /\ DOMAIN b = DOMAIN scan.stated \cup {f} /\ b[f] = r
           /\ \A g \in DOMAIN scan.stated \ {f} : b[g] = scan.stated[g]
  <2>1. scan.stated \in Batches
    BY ScanFields
  <2>2. /\ DOMAIN With(scan.stated, f, r) = DOMAIN scan.stated \cup {f}
        /\ With(scan.stated, f, r)[f] = r
        /\ \A g \in DOMAIN scan.stated \ {f} : With(scan.stated, f, r)[g] = scan.stated[g]
    BY ZenonT(40), <1>1, <2>1, BatchWith
  <2>3. CASE disk[f].content = None
    BY <2>3
  <2>4. CASE disk[f].content /= None
    <3>1. b = With(scan.stated, f, r)
      BY <2>4
    <3> HIDE DEF b
    <3>2. QED BY <2>2, <2>4, <3>1
  <2>5. QED BY <2>3, <2>4
<1>3. /\ f \in scan.todo
      /\ scan' = [scan EXCEPT !.todo = @ \ {f}, !.stated = b]
      /\ UNCHANGED <<disk, edits, stores, pc, file, result, touched>>
  BY DEF WalkFile, ScanStep, r
<1> HIDE DEF b
<1>4. /\ scan'.todo = scan.todo \ {f} /\ scan'.stated = b
      /\ scan'.ready = scan.ready /\ scan'.saving = scan.saving /\ scan'.seen = scan.seen
      /\ scan'.step = scan.step /\ scan'.page = scan.page /\ scan'.tomb = scan.tomb
  BY <1>3 DEF Types, Scans
<1>5. QED BY <1>1, <1>2, <1>3, <1>4

LEMMA UnreadableEffect ==
  ASSUME Types, NEW D \in SUBSET Files, WalkUnreadableDirectory(D)
  PROVE  /\ scan.todo /= {} /\ scan'.todo = scan.todo \ D
         /\ scan'.hidden = scan.hidden \cup D
         /\ scan'.stated = scan.stated /\ scan'.ready = scan.ready /\ scan'.saving = scan.saving
         /\ scan'.seen = scan.seen /\ scan'.step = scan.step
         /\ scan'.page = scan.page /\ scan'.tomb = scan.tomb
         /\ UNCHANGED <<disk, edits, stores, pc, file, result, touched>>
BY DEF WalkUnreadableDirectory, Types, Scans

LEMMA WalkGoneEffect ==
  ASSUME Types, NEW f \in Files, WalkGoneFile(f)
  PROVE  /\ f \in scan.todo /\ scan'.todo = scan.todo \ {f} /\ f \in touched
         /\ DOMAIN scan'.ready = DOMAIN scan.ready \cup {f}
         /\ scan'.ready[f].status = "skipped" /\ scan'.ready[f].mtime = 0
         /\ \A g \in DOMAIN scan.ready \ {f} : scan'.ready[g] = scan.ready[g]
         /\ scan'.seen = scan.seen \cup {f}
         /\ scan'.stated = scan.stated /\ scan'.saving = scan.saving
         /\ scan'.step = scan.step /\ scan'.page = scan.page /\ scan'.tomb = scan.tomb
         /\ UNCHANGED <<disk, edits, stores, pc, file, result, touched>>
<1> DEFINE r == [NoResult EXCEPT !.status = "skipped"]
           b == With(scan.ready, f, r)
<1>1. r \in SafeResult /\ r.status = "skipped" /\ r.mtime = 0
  BY PlainResults DEF NoResult
<1>2. /\ f \in scan.todo /\ f \in touched
      /\ scan' = [scan EXCEPT !.todo = @ \ {f}, !.ready = b, !.seen = @ \cup {f}]
      /\ UNCHANGED <<disk, edits, stores, pc, file, result, touched>>
  BY DEF WalkGoneFile, ScanStep
<1> HIDE DEF r
<1>3. /\ DOMAIN b = DOMAIN scan.ready \cup {f} /\ b[f] = r
      /\ \A g \in DOMAIN scan.ready \ {f} : b[g] = scan.ready[g]
  <2>1. scan.ready \in Batches
    BY ScanFields
  <2>2. QED BY ZenonT(40), <1>1, <2>1, BatchWith
<1> HIDE DEF b
<1>4. /\ scan'.todo = scan.todo \ {f} /\ scan'.ready = b /\ scan'.seen = scan.seen \cup {f}
      /\ scan'.stated = scan.stated /\ scan'.saving = scan.saving
      /\ scan'.step = scan.step /\ scan'.page = scan.page /\ scan'.tomb = scan.tomb
  BY <1>2 DEF Types, Scans
<1>5. QED BY <1>1, <1>2, <1>3, <1>4

LEMMA PrepareEffect ==
  ASSUME Types, NEW f \in Files, PrepareFile(f)
  PROVE  /\ f \in DOMAIN scan.stated
         /\ DOMAIN scan'.stated = DOMAIN scan.stated \ {f}
         /\ \A g \in DOMAIN scan'.stated : scan'.stated[g] = scan.stated[g]
         /\ DOMAIN scan'.ready = DOMAIN scan.ready \cup {f}
         /\ scan'.ready[f] = Prepared(f, scan.stated[f].mtime)
         /\ \A g \in DOMAIN scan.ready \ {f} : scan'.ready[g] = scan.ready[g]
         /\ scan'.seen = scan.seen \cup {f}
         /\ scan'.todo = scan.todo /\ scan'.saving = scan.saving
         /\ scan'.step = scan.step /\ scan'.page = scan.page /\ scan'.tomb = scan.tomb
         /\ UNCHANGED <<disk, edits, stores, pc, file, result, touched>>
<1> DEFINE r == Prepared(f, scan.stated[f].mtime)
           a == Without(scan.stated, f)
           b == With(scan.ready, f, r)
<1>1. /\ f \in DOMAIN scan.stated
      /\ scan' = [scan EXCEPT !.stated = a, !.ready = b, !.seen = @ \cup {f}]
      /\ UNCHANGED <<disk, edits, stores, pc, file, result, touched>>
  BY DEF PrepareFile, ScanStep
<1>2. r \in SafeResult
  BY <1>1, ScanFields, PreparedType
<1> HIDE DEF r
<1>3. /\ DOMAIN b = DOMAIN scan.ready \cup {f} /\ b[f] = r
      /\ \A g \in DOMAIN scan.ready \ {f} : b[g] = scan.ready[g]
      /\ DOMAIN a = DOMAIN scan.stated \ {f}
      /\ \A g \in DOMAIN scan.stated \ {f} : a[g] = scan.stated[g]
  <2>1. scan.ready \in Batches /\ scan.stated \in Batches
    BY ScanFields
  <2>2. /\ DOMAIN b = DOMAIN scan.ready \cup {f} /\ b[f] = r
        /\ \A g \in DOMAIN scan.ready \ {f} : b[g] = scan.ready[g]
    BY ZenonT(40), <1>2, <2>1, BatchWith
  <2>3. /\ DOMAIN a = DOMAIN scan.stated \ {f}
        /\ \A g \in DOMAIN scan.stated \ {f} : a[g] = scan.stated[g]
    BY <2>1, BatchWithout
  <2>4. QED BY <2>2, <2>3
<1> HIDE DEF a, b
<1>4. /\ scan'.stated = a /\ scan'.ready = b /\ scan'.seen = scan.seen \cup {f}
      /\ scan'.todo = scan.todo /\ scan'.saving = scan.saving
      /\ scan'.step = scan.step /\ scan'.page = scan.page /\ scan'.tomb = scan.tomb
  BY <1>1 DEF Types, Scans
<1>5. QED BY <1>1, <1>3, <1>4 DEF r

LEMMA FailBatchEffect ==
  ASSUME Types, FailBatch
  PROVE  /\ scan.step \in CollectSteps /\ scan'.step = "collect"
         /\ DOMAIN scan'.ready = DOMAIN scan.ready \cup DOMAIN scan.saving
         /\ \A f \in DOMAIN scan.ready : scan'.ready[f] = scan.ready[f]
         /\ \A f \in DOMAIN scan.saving \ DOMAIN scan.ready : scan'.ready[f] = scan.saving[f]
         /\ DOMAIN scan'.saving = {}
         /\ scan'.todo = scan.todo /\ scan'.stated = scan.stated /\ scan'.seen = scan.seen
         /\ scan'.page = scan.page /\ scan'.tomb = scan.tomb
         /\ UNCHANGED <<disk, edits, stores, pc, file, result, touched>>
<1> DEFINE b == Merged(scan.saving, scan.ready)
<1>1. /\ scan.step \in CollectSteps
      /\ scan' = [scan EXCEPT !.ready = b, !.saving = NoFiles, !.step = "collect", !.failed = TRUE]
      /\ UNCHANGED <<disk, edits, stores, pc, file, result, touched>>
  BY DEF FailBatch
<1>2. /\ DOMAIN b = DOMAIN scan.ready \cup DOMAIN scan.saving
      /\ \A f \in DOMAIN scan.ready : b[f] = scan.ready[f]
      /\ \A f \in DOMAIN scan.saving \ DOMAIN scan.ready : b[f] = scan.saving[f]
      /\ DOMAIN NoFiles = {}
  <2>1. scan.ready \in Batches /\ scan.saving \in Batches
    BY ScanFields
  <2>2. /\ DOMAIN b = DOMAIN scan.saving \cup DOMAIN scan.ready
        /\ \A f \in DOMAIN scan.ready : b[f] = scan.ready[f]
        /\ \A f \in DOMAIN scan.saving \ DOMAIN scan.ready : b[f] = scan.saving[f]
    BY <2>1, BatchMerged
  <2>3. DOMAIN scan.saving \cup DOMAIN scan.ready = DOMAIN scan.ready \cup DOMAIN scan.saving
    OBVIOUS
  <2> HIDE DEF b
  <2>4. QED BY <2>2, <2>3, BatchType
<1> HIDE DEF b
<1>3. /\ scan'.step = "collect" /\ scan'.ready = b /\ scan'.saving = NoFiles
      /\ scan'.todo = scan.todo /\ scan'.stated = scan.stated /\ scan'.seen = scan.seen
      /\ scan'.page = scan.page /\ scan'.tomb = scan.tomb
  BY <1>1 DEF Types, Scans
<1>4. QED BY <1>1, <1>2, <1>3

\* The fields that none of the saves, nor a tombstone, changes.
SameWalk == /\ scan'.todo = scan.todo /\ scan'.stated = scan.stated /\ scan'.seen = scan.seen
            /\ UNCHANGED <<disk, edits, pc, file, result, touched>>

LEMMA SaveEffect ==
  ASSUME Types
  PROVE  /\ SaveBatchStates =>
              /\ SameWalk /\ scan.step = "collect" /\ scan'.step = "graph"
              /\ scan'.saving = scan.ready /\ DOMAIN scan'.ready = {}
              /\ scan'.page = scan.page /\ scan'.tomb = scan.tomb
              /\ UNCHANGED <<graph, search>>
         /\ SaveBatchGraph =>
              /\ SameWalk /\ scan.step = "graph" /\ scan'.step = "search"
              /\ scan'.saving = scan.saving /\ scan'.ready = scan.ready
              /\ scan'.page = scan.page /\ scan'.tomb = scan.tomb
              /\ UNCHANGED <<state, search>>
         /\ SaveBatchSearch =>
              /\ SameWalk /\ scan.step = "search" /\ scan'.step = "collect"
              /\ DOMAIN scan'.saving = {} /\ scan'.ready = scan.ready
              /\ scan'.page = scan.page /\ scan'.tomb = scan.tomb
              /\ UNCHANGED <<state, graph>>
<1> USE DEF SameWalk, ScanStep
<1>1. DOMAIN NoFiles = {}
  BY BatchType
<1>2. ASSUME SaveBatchStates
      PROVE  scan' = [scan EXCEPT !.saving = scan.ready, !.ready = NoFiles, !.step = "graph"]
  BY <1>2 DEF SaveBatchStates
<1>3. ASSUME SaveBatchSearch
      PROVE  scan' = [scan EXCEPT !.saving = NoFiles, !.step = "collect"]
  BY <1>3 DEF SaveBatchSearch
<1>4. QED BY <1>1, <1>2, <1>3 DEF Types, Scans, SaveBatchStates, SaveBatchGraph, SaveBatchSearch

\* The steps that follow the walk.
AfterWalk == \/ BeginTombstones \/ FirstPage \/ NextPage
             \/ TombstoneState \/ TombstoneGraph \/ TombstoneSearch

LEMMA TombstoneEffect ==
  ASSUME Types, AfterWalk
  PROVE  /\ SameWalk /\ scan'.ready = scan.ready /\ scan'.saving = scan.saving
         /\ scan'.step \in TombstoneSteps
         /\ \/ /\ scan.step = "collect" /\ scan.todo = {}
               /\ DOMAIN scan.stated = {} /\ DOMAIN scan.ready = {}
            \/ scan.step \in TombstoneSteps
         /\ scan'.page \subseteq scan.page \cup (Files \ scan.seen)
         /\ scan'.tomb \subseteq scan.tomb \cup scan.page
<1> USE DEF SameWalk, ScanStep, TombstoneSteps
<1>1. CASE BeginTombstones
  BY <1>1 DEF BeginTombstones, Types, Scans
<1>2. ASSUME NEW offset, ListPage(offset)
      PROVE  /\ SameWalk /\ scan'.ready = scan.ready /\ scan'.saving = scan.saving
             /\ scan'.step = "tombstone" /\ scan'.tomb = scan.tomb
             /\ scan'.page \subseteq Files \ scan.seen
  <2> DEFINE last == offset + PageSize
             page == {f \in Present \ scan.seen : Place(f) \in offset + 1 .. last}
             next == IF Cardinality(Present) > last THEN last ELSE 0
  <2>1. page \subseteq Files \ scan.seen
    BY DEF Present
  <2>2. /\ scan' = [scan EXCEPT !.step = "tombstone", !.page = page, !.next = next]
        /\ UNCHANGED <<disk, edits, pc, file, result, touched>>
    BY <1>2 DEF ListPage
  <2> HIDE DEF page, next
  <2>3. QED BY <2>1, <2>2 DEF Types, Scans
<1>3. CASE FirstPage
  <2>1. scan.step = "list" /\ ListPage(0)
    BY <1>3 DEF FirstPage
  <2>2. QED BY <1>2, <2>1
<1>4. CASE NextPage
  <2>1. scan.step = "tombstone" /\ ListPage(scan.next)
    BY <1>4 DEF NextPage
  <2>2. QED BY <1>2, <2>1
<1>5. CASE TombstoneState
  <2>1. PICK f \in scan.page :
          scan' = [scan EXCEPT !.step = "tombGraph", !.page = @ \ {f}, !.tomb = {f}]
    BY <1>5 DEF TombstoneState
  <2>2. QED BY <1>5, <2>1 DEF TombstoneState, Types, Scans
<1>6. CASE TombstoneGraph
  BY <1>6 DEF TombstoneGraph, Types, Scans
<1>7. CASE TombstoneSearch
  BY <1>7 DEF TombstoneSearch, Types, Scans
<1>8. QED BY <1>1, <1>3, <1>4, <1>5, <1>6, <1>7 DEF AfterWalk

-----------------------------------------------------------------------------
(* A full scan is alone, and only while it runs is there a scan to speak of. *)

Alone ==
  /\ \A v, w \in Workers : pc[v] = "scan" /\ pc[w] /= "idle" => v = w
  /\ Scanning <=> scan.step /= "none"
  /\ scan.step = "none" => scan = NoScan

LEMMA ScanProgressCases ==
  ASSUME ScanProgress
  PROVE  \/ \E f \in Files : WalkFile(f) \/ WalkGoneFile(f) \/ PrepareFile(f)
         \/ \E D \in SUBSET Files : WalkUnreadableDirectory(D)
         \/ SaveBatchStates \/ SaveBatchGraph \/ SaveBatchSearch
         \/ FailBatch
         \/ AfterWalk
BY DEF ScanProgress, AfterWalk

LEMMA NoScanFields ==
  /\ NoScan.todo = {} /\ NoScan.stated = NoFiles /\ NoScan.ready = NoFiles
  /\ NoScan.saving = NoFiles /\ NoScan.seen = {} /\ NoScan.step = "none"
  /\ NoScan.page = {} /\ NoScan.tomb = {} /\ DOMAIN NoFiles = {}
BY BatchType DEF NoScan

LEMMA PathFrame ==
  ASSUME Types, NEW w \in Workers, PathStep(w)
  PROVE  /\ pc[w] \in PathPCs /\ UNCHANGED <<disk, edits, scan, touched>>
         /\ \E p \in PathPCs \cup {"idle"} : pc' = [pc EXCEPT ![w] = p]
BY DEF PathStep, Lstat, Read, SaveState, SaveGraph, SaveSearch, FailPath, PathOver, PathPCs, stores

LEMMA ProgressIsScanning ==
  ASSUME Types, Alone, ScanProgress
  PROVE  scan.step /= "none" /\ scan'.step /= "none"
<1>1. CASE \E f \in Files : WalkFile(f) \/ WalkGoneFile(f) \/ PrepareFile(f)
  BY <1>1, NoScanFields, WalkEffect, WalkGoneEffect, PrepareEffect DEF Alone
<1>2. CASE SaveBatchStates \/ SaveBatchGraph \/ SaveBatchSearch
  BY <1>2, SaveEffect
<1>3. CASE FailBatch
  BY <1>3, FailBatchEffect DEF CollectSteps
<1>4. CASE AfterWalk
  BY <1>4, TombstoneEffect DEF TombstoneSteps
<1>5. CASE \E D \in SUBSET Files : WalkUnreadableDirectory(D)
  BY <1>5, NoScanFields, UnreadableEffect DEF Alone
<1>6. QED BY <1>1, <1>2, <1>3, <1>4, <1>5, ScanProgressCases

LEMMA NextAlone == Types /\ Alone /\ [IndexNext]_indexVars => Alone'
<1> SUFFICES ASSUME Types, Alone, [IndexNext]_indexVars PROVE Alone'
  OBVIOUS
<1>1. pc \in [Workers -> PathPCs \cup {"idle", "scan"}]
  BY DEF Types, JobTypes
<1>2. CASE UNCHANGED <<pc, scan>>
  BY <1>2 DEF Alone, Scanning
<1>3. ASSUME NEW w \in Workers, NEW f \in Files, BeginPath(w, f) PROVE Alone'
  BY <1>1, <1>3 DEF BeginPath, Alone, Scanning
<1>4. ASSUME NEW w \in Workers, BeginScan(w) PROVE Alone'
  <2>1. \A v \in Workers : pc[v] = "idle"
    BY <1>4 DEF BeginScan, Active
  <2>2. scan'.step = "collect"
    BY <1>4 DEF BeginScan, NoScan
  <2>3. QED BY <1>1, <1>4, <2>1, <2>2 DEF BeginScan, Alone, Scanning
<1>5. ASSUME NEW w \in Workers, PathStep(w) PROVE Alone'
  <2>1. pc[w] \in PathPCs /\ scan' = scan
    BY <1>5, PathFrame
  <2>2. PICK p \in PathPCs \cup {"idle"} : pc' = [pc EXCEPT ![w] = p]
    BY <1>5, PathFrame
  <2>3. p /= "scan" /\ pc[w] /= "scan" /\ pc[w] /= "idle"
    BY <2>1 DEF PathPCs
  <2>4. \A v \in Workers : pc[v] /= "scan" /\ pc'[v] /= "scan"
    BY <1>1, <2>2, <2>3 DEF Alone
  <2>5. QED BY <2>1, <2>4 DEF Alone, Scanning
<1>6. ASSUME NEW w \in Workers, FinishScan(w) \/ FailScan(w) PROVE Alone'
  <2>1. pc[w] = "scan" /\ pc' = [pc EXCEPT ![w] = "idle"] /\ scan' = NoScan
    BY <1>6 DEF FinishScan, FailScan, ScanOver
  <2>2. \A v \in Workers : pc'[v] = "idle"
    BY <1>1, <2>1 DEF Alone
  <2>3. QED BY <2>1, <2>2, NoScanFields DEF Alone, Scanning
<1>7. CASE ScanProgress
  <2>1. pc' = pc
    BY <1>7, ScanProgressFrame
  <2>2. QED BY <1>7, <2>1, ProgressIsScanning DEF Alone, Scanning
<1>8. CASE IndexCrash
  BY <1>8, NoScanFields DEF IndexCrash, Alone, Scanning
<1>9. QED
  BY <1>2, <1>3, <1>4, <1>5, <1>6, <1>7, <1>8 DEF IndexNext, IndexStep, Edit, jobs, indexVars

LEMMA InitAlone == IndexInit => Alone
BY NoScanFields DEF IndexInit, Alone, Scanning

-----------------------------------------------------------------------------
(* What the walk, the file workers and the tombstones have at each stage.    *)

Phases ==
  /\ scan.step = "collect" => DOMAIN scan.saving = {}
  /\ scan.step \in TombstoneSteps =>
       /\ scan.todo = {} /\ DOMAIN scan.stated = {}
       /\ DOMAIN scan.ready = {} /\ DOMAIN scan.saving = {}
  /\ scan.step \notin TombstoneSteps => scan.page = {} /\ scan.tomb = {}
  /\ (scan.page \cup scan.tomb) \cap scan.seen = {}

LEMMA InitPhases == IndexInit => Phases
BY NoScanFields DEF IndexInit, Phases, TombstoneSteps

LEMMA NextPhases == Types /\ Phases /\ [IndexNext]_indexVars => Phases'
<1> SUFFICES ASSUME Types, Phases, [IndexNext]_indexVars PROVE Phases'
  OBVIOUS
<1>1. CASE UNCHANGED scan
  BY <1>1 DEF Phases
<1>2. CASE scan' = NoScan
  BY <1>2, NoScanFields DEF Phases, TombstoneSteps
<1>3. ASSUME NEW w \in Workers, BeginScan(w) PROVE Phases'
  <2>1. /\ scan'.step = "collect" /\ DOMAIN scan'.saving = {}
        /\ scan'.page = {} /\ scan'.tomb = {}
    BY <1>3, BatchType DEF BeginScan, NoScan
  <2>2. QED BY <2>1 DEF Phases, TombstoneSteps
<1>4. ASSUME NEW w \in Workers, PathStep(w) PROVE Phases'
  BY <1>1, <1>4, PathFrame
<1>5. ASSUME NEW f \in Files, WalkFile(f) PROVE Phases'
  <2>1. /\ f \in scan.todo /\ scan'.step = scan.step
        /\ scan'.saving = scan.saving /\ scan'.seen = scan.seen
        /\ scan'.page = scan.page /\ scan'.tomb = scan.tomb
    BY <1>5, WalkEffect
  <2>2. QED BY <2>1 DEF Phases
<1>6. ASSUME NEW f \in Files, WalkGoneFile(f) PROVE Phases'
  <2>1. /\ f \in scan.todo /\ scan'.step = scan.step /\ scan'.saving = scan.saving
        /\ scan'.page = scan.page /\ scan'.tomb = scan.tomb
    BY <1>6, WalkGoneEffect
  <2>2. QED BY <2>1 DEF Phases
<1>7. ASSUME NEW f \in Files, PrepareFile(f) PROVE Phases'
  <2>1. /\ f \in DOMAIN scan.stated /\ scan'.step = scan.step /\ scan'.saving = scan.saving
        /\ scan'.page = scan.page /\ scan'.tomb = scan.tomb
    BY <1>7, PrepareEffect
  <2>2. QED BY <2>1 DEF Phases
<1>8. CASE SaveBatchStates \/ SaveBatchGraph \/ SaveBatchSearch
  BY <1>8, SaveEffect DEF Phases, SameWalk, TombstoneSteps
<1>9. CASE FailBatch
  BY <1>9, FailBatchEffect DEF Phases, CollectSteps, TombstoneSteps
<1>10. CASE AfterWalk
  BY <1>10, TombstoneEffect DEF Phases, SameWalk, TombstoneSteps
<1>u. ASSUME NEW D \in SUBSET Files, WalkUnreadableDirectory(D) PROVE Phases'
  BY <1>u, UnreadableEffect DEF Phases
<1>11. CASE ScanProgress
  BY <1>5, <1>6, <1>7, <1>8, <1>9, <1>10, <1>u, <1>11, ScanProgressCases
<1>12. QED
  BY <1>1, <1>2, <1>3, <1>4, <1>11
     DEF IndexNext, IndexStep, Edit, BeginPath, FinishScan, FailScan, ScanOver, IndexCrash,
         jobs, indexVars

-----------------------------------------------------------------------------
(* The short cut for unchanged files trusts modification times. It may: a    *)
(* file state, or a result, that has the time of the file has its content.   *)

Honest(f, r) ==
  /\ r.mtime <= edits
  /\ r.status = "eligible" /\ r.mtime = disk[f].mtime => r.content = disk[f].content

AllHonest(g) == \A f \in DOMAIN g : Honest(f, g[f])

\* A path task has a result once it has taken the stat of its file.
ResultPCs == PathPCs \ {"lstat"}

Honesty ==
  /\ \A f \in Files : disk[f].mtime <= edits /\ Honest(f, state[f])
  /\ \A w \in Workers : pc[w] \in ResultPCs => Honest(file[w], result[w])
  /\ AllHonest(scan.stated) /\ AllHonest(scan.ready) /\ AllHonest(scan.saving)

LEMMA InitHonesty == IndexInit => Honesty
<1> SUFFICES ASSUME IndexInit PROVE Honesty
  OBVIOUS
<1>1. \A f \in Files : disk[f].mtime = 0
  BY DEF IndexInit
<1>2. ASSUME NEW f \in Files PROVE Honest(f, state[f])
  <2>1. CASE disk[f].content = None
    BY <1>1, <2>1 DEF IndexInit, Honest, NoState
  <2>2. CASE disk[f].content /= None /\ disk[f].content \in Eligible
    BY <1>1, <2>2 DEF IndexInit, Honest, Indexable
  <2>3. CASE disk[f].content /= None /\ disk[f].content \notin Eligible
    BY <1>1, <2>3 DEF IndexInit, Honest, Indexable
  <2>4. QED BY <2>1, <2>2, <2>3
<1>3. \A w \in Workers : pc[w] \notin ResultPCs
  BY DEF IndexInit, PathPCs, ResultPCs
<1>4. AllHonest(scan.stated) /\ AllHonest(scan.ready) /\ AllHonest(scan.saving)
  BY NoScanFields DEF IndexInit, AllHonest
<1>5. QED BY <1>1, <1>2, <1>3, <1>4 DEF IndexInit, Honesty

LEMMA ModificationTimes ==
  ASSUME Types
  PROVE  /\ edits \in Nat
         /\ \A f \in Files : disk[f].mtime \in Nat /\ state[f].mtime \in Nat
         /\ \A w \in Workers : result[w].mtime \in Nat
         /\ \A f \in DOMAIN scan.stated : f \in Files /\ scan.stated[f].mtime \in Nat
         /\ \A f \in DOMAIN scan.ready : f \in Files /\ scan.ready[f].mtime \in Nat
         /\ \A f \in DOMAIN scan.saving : f \in Files /\ scan.saving[f].mtime \in Nat
<1>1. \A m \in 0..MaxEdits : m \in Nat
  OBVIOUS
<1>2. \A r \in SafeResult : r.mtime \in Nat
  BY <1>1 DEF SafeResult
<1>3. \A g \in Batches : \A f \in DOMAIN g : f \in Files /\ g[f].mtime \in Nat
  BY <1>2, BatchType
<1>4. QED
  BY <1>1, <1>2, <1>3, ScanFields DEF Types, DiskTypes, StoreTypes, JobTypes, SafeState

LEMMA PreparedHonest ==
  ASSUME Types, Honesty, NEW f \in Files, NEW m \in Nat, m <= edits
  PROVE  Honest(f, Prepared(f, m))
<1>1. CASE MetadataUnchanged(f, m)
  BY <1>1 DEF Honesty, Honest, Prepared, MetadataUnchanged
<1>2. CASE ~MetadataUnchanged(f, m)
  BY <1>2 DEF Honest, Prepared
<1>3. QED BY <1>1, <1>2

\* A change gives the file a time that no state and no result has yet.
LEMMA EditHonesty ==
  ASSUME Types, Honesty, NEW g \in Files, NEW c, Edit(g, c)
  PROVE  Honesty'
<1>1. /\ edits' = edits + 1
      /\ disk'[g].mtime = edits + 1
      /\ \A f \in Files \ {g} : disk'[f] = disk[f]
      /\ UNCHANGED <<state, pc, file, result, scan>>
  BY DEF Edit, stores, jobs, Types, DiskTypes
<1>2. ASSUME NEW f \in Files, NEW r, r.mtime \in Nat, Honest(f, r)
      PROVE  r.mtime <= edits' /\ (r.status = "eligible" /\ r.mtime = disk'[f].mtime => r.content = disk'[f].content)
  BY <1>1, <1>2, ModificationTimes DEF Honest
<1>3. \A f \in Files : disk'[f].mtime <= edits'
  BY <1>1, ModificationTimes DEF Honesty
<1>4. \A f \in Files : Honest(f, state[f])'
  BY <1>1, <1>2, ModificationTimes DEF Honesty, Honest
<1>5. \A w \in Workers : pc[w] \in ResultPCs => file[w] \in Files
  BY DEF Types, JobTypes, ResultPCs
<1>6. \A w \in Workers : (pc[w] \in ResultPCs => Honest(file[w], result[w]))'
  BY <1>1, <1>2, <1>5, ModificationTimes DEF Honesty, Honest
<1>7. AllHonest(scan.stated)' /\ AllHonest(scan.ready)' /\ AllHonest(scan.saving)'
  BY <1>1, <1>2, ModificationTimes DEF Honesty, AllHonest, Honest
<1>8. QED BY <1>3, <1>4, <1>6, <1>7 DEF Honesty

LEMMA PathHonesty ==
  ASSUME Types, Honesty, NEW w \in Workers, PathStep(w)
  PROVE  Honesty'
<1>1. /\ pc \in [Workers -> PathPCs \cup {"idle", "scan"}]
      /\ result \in [Workers -> SafeResult]
      /\ file \in [Workers -> Files \cup {None}]
      /\ state \in [Files -> SafeState]
      /\ \A v \in Workers : pc[v] \in PathPCs => file[v] \in Files
  BY DEF Types, StoreTypes, JobTypes
<1>2. pc[w] \in PathPCs /\ file[w] \in Files /\ UNCHANGED <<disk, edits, scan>>
  BY <1>1, PathFrame
<1>3. AllHonest(scan.stated)' /\ AllHonest(scan.ready)' /\ AllHonest(scan.saving)'
  BY <1>2 DEF Honesty, AllHonest, Honest
<1>4. ASSUME UNCHANGED <<state, file>>,
             \A v \in Workers \ {w} : pc'[v] = pc[v] /\ result'[v] = result[v],
             Honest(file[w], result'[w])
      PROVE  Honesty'
  BY <1>2, <1>3, <1>4 DEF Honesty, Honest
<1>5. ASSUME UNCHANGED state,
             \A v \in Workers \ {w} : pc'[v] = pc[v] /\ result'[v] = result[v] /\ file'[v] = file[v],
             pc'[w] = "idle"
      PROVE  Honesty'
  BY <1>2, <1>3, <1>5 DEF Honesty, Honest, PathPCs, ResultPCs
<1>6. CASE Lstat(w)
  <2>1. /\ UNCHANGED <<state, file>>
        /\ \A v \in Workers \ {w} : pc'[v] = pc[v] /\ result'[v] = result[v]
    BY <1>1, <1>6 DEF Lstat, stores
  <2>2. \/ result'[w].status = "absent" /\ result'[w].mtime = 0
        \/ result'[w].status = "unknown" /\ result'[w].mtime = disk[file[w]].mtime
    BY <1>1, <1>6 DEF Lstat, NoResult
  <2>3. Honest(file[w], result'[w])
    BY <1>2, <2>2, ModificationTimes DEF Honesty, Honest
  <2>4. QED BY <1>4, <2>1, <2>3
<1>7. CASE Read(w)
  <2>1. /\ UNCHANGED <<state, file>>
        /\ \A v \in Workers \ {w} : pc'[v] = pc[v] /\ result'[v] = result[v]
        /\ result'[w] = Prepared(file[w], result[w].mtime)
    BY <1>1, <1>7 DEF Read, stores
  <2>2. result[w].mtime \in Nat /\ result[w].mtime <= edits
    BY <1>2, <1>7, ModificationTimes DEF Honesty, Honest, Read, PathPCs, ResultPCs
  <2>3. Honest(file[w], result'[w])
    BY <1>2, <2>1, <2>2, PreparedHonest
  <2>4. QED BY <1>4, <2>1, <2>3
<1>8. CASE SaveState(w)
  <2>1. /\ state' = [state EXCEPT ![file[w]] = StateOf(result[w])]
        /\ UNCHANGED <<file, result>>
        /\ \A v \in Workers \ {w} : pc'[v] = pc[v]
    BY <1>1, <1>8 DEF SaveState
  <2>2. Honest(file[w], result[w])
    BY <1>2, <1>8 DEF Honesty, SaveState, PathPCs, ResultPCs
  <2>3. Honest(file[w], StateOf(result[w]))
    BY <2>2 DEF Honest, StateOf
  <2>4. \A f \in Files : Honest(f, state'[f])
    BY <1>1, <2>1, <2>3 DEF Honesty
  <2>5. \A v \in Workers : pc'[v] \in ResultPCs => Honest(file[v], result[v])
    BY <2>1, <2>2 DEF Honesty
  <2>6. QED BY <1>2, <1>3, <2>1, <2>4, <2>5 DEF Honesty, Honest
<1>9. CASE SaveGraph(w)
  <2>1. /\ UNCHANGED <<state, file, result>>
        /\ \A v \in Workers \ {w} : pc'[v] = pc[v]
    BY <1>1, <1>9 DEF SaveGraph
  <2>2. Honest(file[w], result'[w])
    BY <1>2, <1>9, <2>1 DEF Honesty, SaveGraph, PathPCs, ResultPCs
  <2>3. QED BY <1>4, <2>1, <2>2
<1>10. CASE SaveSearch(w) \/ FailPath(w)
  <2>1. UNCHANGED state /\ PathOver(w)
    BY <1>10 DEF SaveSearch, FailPath, stores
  <2>2. QED BY <1>1, <1>5, <2>1 DEF PathOver
<1>11. QED BY <1>6, <1>7, <1>8, <1>9, <1>10 DEF PathStep

LEMMA ScanHonesty ==
  ASSUME Types, Honesty, ScanProgress
  PROVE  Honesty'
<1>1. UNCHANGED <<disk, edits, pc, file, result>>
  BY ScanProgressFrame
<1>2. /\ \A f \in Files : disk[f].mtime <= edits /\ Honest(f, state[f])
      /\ AllHonest(scan.stated) /\ AllHonest(scan.ready) /\ AllHonest(scan.saving)
      /\ edits \in Nat /\ \A f \in Files : disk[f].mtime \in Nat
      /\ \A f \in DOMAIN scan.stated : scan.stated[f].mtime \in Nat
  BY ModificationTimes DEF Honesty
<1>3. ASSUME \A f \in Files : Honest(f, state'[f]),
             AllHonest(scan'.stated), AllHonest(scan'.ready), AllHonest(scan'.saving)
      PROVE  Honesty'
  BY <1>1, <1>3 DEF Honesty, AllHonest, Honest
<1>4. ASSUME NEW f \in Files, WalkFile(f) PROVE Honesty'
  <2>1. /\ state' = state /\ scan'.ready = scan.ready /\ scan'.saving = scan.saving
        /\ DOMAIN scan'.stated \subseteq DOMAIN scan.stated \cup {f}
        /\ \A g \in DOMAIN scan'.stated \ {f} : scan'.stated[g] = scan.stated[g]
        /\ f \in DOMAIN scan'.stated =>
             \/ scan'.stated[f].status = "unknown" /\ scan'.stated[f].mtime = disk[f].mtime
             \/ f \in DOMAIN scan.stated /\ scan'.stated[f] = scan.stated[f]
    BY <1>4, WalkEffect DEF stores
  <2>2. f \in DOMAIN scan'.stated => Honest(f, scan'.stated[f])
    BY <1>2, <2>1 DEF AllHonest, Honest
  <2>3. AllHonest(scan'.stated)
    BY <1>2, <2>1, <2>2 DEF AllHonest
  <2>4. QED BY <1>2, <1>3, <2>1, <2>3
<1>5. ASSUME NEW f \in Files, WalkGoneFile(f) PROVE Honesty'
  <2>1. /\ state' = state /\ scan'.stated = scan.stated /\ scan'.saving = scan.saving
        /\ DOMAIN scan'.ready = DOMAIN scan.ready \cup {f}
        /\ scan'.ready[f].status = "skipped" /\ scan'.ready[f].mtime = 0
        /\ \A g \in DOMAIN scan.ready \ {f} : scan'.ready[g] = scan.ready[g]
    BY <1>5, WalkGoneEffect DEF stores
  <2>2. Honest(f, scan'.ready[f])
    BY <1>2, <2>1 DEF Honest
  <2>3. AllHonest(scan'.ready)
    BY <1>2, <2>1, <2>2 DEF AllHonest
  <2>4. QED BY <1>2, <1>3, <2>1, <2>3
<1>6. ASSUME NEW f \in Files, PrepareFile(f) PROVE Honesty'
  <2>1. /\ state' = state /\ scan'.saving = scan.saving /\ f \in DOMAIN scan.stated
        /\ DOMAIN scan'.stated = DOMAIN scan.stated \ {f}
        /\ \A g \in DOMAIN scan'.stated : scan'.stated[g] = scan.stated[g]
        /\ DOMAIN scan'.ready = DOMAIN scan.ready \cup {f}
        /\ scan'.ready[f] = Prepared(f, scan.stated[f].mtime)
        /\ \A g \in DOMAIN scan.ready \ {f} : scan'.ready[g] = scan.ready[g]
    BY <1>6, PrepareEffect DEF stores
  <2>2. scan.stated[f].mtime <= edits
    BY <1>2, <2>1 DEF AllHonest, Honest
  <2>3. Honest(f, scan'.ready[f])
    BY <1>2, <2>1, <2>2, PreparedHonest
  <2>4. AllHonest(scan'.ready) /\ AllHonest(scan'.stated)
    BY <1>2, <2>1, <2>3 DEF AllHonest
  <2>5. QED BY <1>2, <1>3, <2>1, <2>4
<1>7. CASE SaveBatchStates
  <2>1. /\ scan'.stated = scan.stated /\ scan'.saving = scan.ready /\ DOMAIN scan'.ready = {}
        /\ state' = [f \in Files |-> IF f \in DOMAIN scan.ready THEN StateOf(scan.ready[f]) ELSE state[f]]
    BY <1>7, SaveEffect DEF SameWalk, SaveBatchStates
  <2>2. ASSUME NEW f \in Files PROVE Honest(f, state'[f])
    BY <1>2, <2>1 DEF AllHonest, Honest, StateOf
  <2>3. AllHonest(scan'.ready)
    BY <2>1 DEF AllHonest
  <2>4. QED BY <1>2, <1>3, <2>1, <2>2, <2>3
<1>8. CASE SaveBatchGraph
  BY <1>2, <1>3, <1>8, SaveEffect DEF SameWalk
<1>9. CASE SaveBatchSearch
  <2>1. /\ state' = state /\ scan'.stated = scan.stated /\ scan'.ready = scan.ready
        /\ DOMAIN scan'.saving = {}
    BY <1>9, SaveEffect DEF SameWalk
  <2>2. AllHonest(scan'.saving)
    BY <2>1 DEF AllHonest
  <2>3. QED BY <1>2, <1>3, <2>1, <2>2
<1>10. CASE FailBatch
  <2>1. /\ state' = state /\ scan'.stated = scan.stated /\ DOMAIN scan'.saving = {}
        /\ DOMAIN scan'.ready = DOMAIN scan.ready \cup DOMAIN scan.saving
        /\ \A f \in DOMAIN scan.ready : scan'.ready[f] = scan.ready[f]
        /\ \A f \in DOMAIN scan.saving \ DOMAIN scan.ready : scan'.ready[f] = scan.saving[f]
    BY <1>10, FailBatchEffect DEF stores
  <2>2. AllHonest(scan'.ready) /\ AllHonest(scan'.saving)
    BY <1>2, <2>1 DEF AllHonest
  <2>3. QED BY <1>2, <1>3, <2>1, <2>2
<1>11. CASE AfterWalk
  <2>1. scan'.stated = scan.stated /\ scan'.ready = scan.ready /\ scan'.saving = scan.saving
    BY <1>11, TombstoneEffect DEF SameWalk
  <2>2. ASSUME NEW f \in Files PROVE Honest(f, state'[f])
    <3>1. CASE TombstoneState
      <4>1. PICK g \in Files : state' = [state EXCEPT ![g] = [@ EXCEPT !.status = "absent", !.content = None]]
        BY <3>1, ScanFields DEF TombstoneState
      <4>2. CASE f /= g
        BY <1>2, <4>1, <4>2 DEF Types, StoreTypes
      <4>3. CASE f = g
        <5>1. state'[f].status = "absent" /\ state'[f].mtime = state[f].mtime
          BY <4>1, <4>3 DEF Types, StoreTypes, SafeState
        <5>2. QED BY <1>2, <5>1 DEF Honest
      <4>4. QED BY <4>2, <4>3
    <3>2. CASE ~TombstoneState
      <4>1. state' = state
        BY <1>11, <3>2 DEF AfterWalk, BeginTombstones, FirstPage, NextPage, ListPage,
             TombstoneGraph, TombstoneSearch, stores
      <4>2. QED BY <1>2, <4>1
    <3>3. QED BY <3>1, <3>2
  <2>3. QED BY <1>2, <1>3, <2>1, <2>2
<1>12. ASSUME NEW D \in SUBSET Files, WalkUnreadableDirectory(D) PROVE Honesty'
  <2>1. /\ state' = state /\ scan'.stated = scan.stated /\ scan'.ready = scan.ready
        /\ scan'.saving = scan.saving
    BY <1>12, UnreadableEffect DEF stores
  <2>2. QED BY <1>2, <1>3, <2>1
<1>13. QED BY <1>4, <1>5, <1>6, <1>7, <1>8, <1>9, <1>10, <1>11, <1>12, ScanProgressCases

LEMMA NextHonesty == Types /\ Honesty /\ [IndexNext]_indexVars => Honesty'
<1> SUFFICES ASSUME Types, Honesty, [IndexNext]_indexVars PROVE Honesty'
  OBVIOUS
<1>1. /\ pc \in [Workers -> PathPCs \cup {"idle", "scan"}]
      /\ file \in [Workers -> Files \cup {None}]
      /\ result \in [Workers -> SafeResult]
  BY DEF Types, JobTypes
<1>2. CASE UNCHANGED <<disk, edits, state, pc, file, result, scan>>
  BY <1>2 DEF Honesty, AllHonest, Honest
<1>3. ASSUME UNCHANGED <<disk, edits, state>>,
             \A w \in Workers : pc'[w] \in ResultPCs =>
               pc[w] \in ResultPCs /\ file'[w] = file[w] /\ result'[w] = result[w],
             /\ DOMAIN scan'.stated = {} /\ DOMAIN scan'.ready = {} /\ DOMAIN scan'.saving = {}
      PROVE  Honesty'
  BY <1>3 DEF Honesty, AllHonest, Honest
<1>4. ASSUME NEW w \in Workers, NEW f \in Files, BeginPath(w, f) PROVE Honesty'
  <2>1. UNCHANGED <<disk, edits, state, result, scan>>
    BY <1>4 DEF BeginPath, stores
  <2>2. ASSUME NEW v \in Workers, pc'[v] \in ResultPCs PROVE Honest(file[v], result[v])'
    <3>1. CASE v /= w
      BY <1>1, <1>4, <2>1, <2>2, <3>1 DEF BeginPath, Honesty, Honest
    <3>2. CASE v = w
      BY <1>1, <1>4, <2>2, <3>2 DEF BeginPath, ResultPCs
    <3>3. QED BY <3>1, <3>2
  <2>3. QED BY <2>1, <2>2 DEF Honesty, AllHonest, Honest
<1>5. ASSUME NEW w \in Workers, BeginScan(w) PROVE Honesty'
  <2>1. UNCHANGED <<disk, edits, state, file, result>>
    BY <1>5 DEF BeginScan, stores
  <2>2. DOMAIN scan'.stated = {} /\ DOMAIN scan'.ready = {} /\ DOMAIN scan'.saving = {}
    BY <1>5, BatchType DEF BeginScan, NoScan
  <2>3. \A v \in Workers : pc'[v] \in ResultPCs => pc[v] \in ResultPCs
    BY <1>1, <1>5 DEF BeginScan, PathPCs, ResultPCs
  <2>4. QED BY <1>3, <2>1, <2>2, <2>3
<1>6. ASSUME NEW w \in Workers, FinishScan(w) \/ FailScan(w) PROVE Honesty'
  <2>1. /\ UNCHANGED <<disk, edits, state, file, result>>
        /\ scan' = NoScan /\ pc' = [pc EXCEPT ![w] = "idle"]
    BY <1>6 DEF FinishScan, FailScan, ScanOver, stores
  <2>2. \A v \in Workers : pc'[v] \in ResultPCs => pc[v] \in ResultPCs
    BY <1>1, <2>1 DEF PathPCs, ResultPCs
  <2>3. QED BY <1>3, <2>1, <2>2, NoScanFields
<1>7. CASE IndexCrash
  <2>1. /\ UNCHANGED <<disk, edits, state>> /\ scan' = NoScan
        /\ \A w \in Workers : pc'[w] \notin ResultPCs
    BY <1>7 DEF IndexCrash, PathPCs, ResultPCs, stores
  <2>2. QED BY <1>3, <2>1, NoScanFields
<1>8. QED
  BY <1>2, <1>4, <1>5, <1>6, <1>7, EditHonesty, PathHonesty, ScanHonesty
     DEF IndexNext, IndexStep, indexVars, stores, jobs

-----------------------------------------------------------------------------
(* What a full scan has achieved so far, for the files that exist, do not    *)
(* change under it, and are not below an unreadable directory.               *)

Steady == {f \in Files \ (touched \cup scan.hidden) : disk[f].content /= None}

Right(f, r) == r.content = Indexable(disk[f].content) /\ (r.unchanged => Fresh(f))

Waiting(f) == f \in scan.todo \/ f \in DOMAIN scan.stated
Underway(f) == f \in DOMAIN scan.ready \/ f \in DOMAIN scan.saving

CoveredFile(f) ==
  /\ f \in DOMAIN scan.stated => scan.stated[f].mtime = disk[f].mtime
  /\ f \in DOMAIN scan.ready => Right(f, scan.ready[f])
  /\ f \in DOMAIN scan.saving =>
       /\ Right(f, scan.saving[f])
       /\ scan.step = "search" => graph[f] = Indexable(disk[f].content)
  /\ Waiting(f) \/ f \in scan.seen
  /\ Waiting(f) \/ Underway(f) \/ Fresh(f)

Repairing == scan.step /= "none" => \A f \in Steady : CoveredFile(f)

\* The short cut for unchanged files is right, whatever was in the stores.
LEMMA PreparedRight ==
  ASSUME Types, Honesty, NEW f \in Files, disk[f].content /= None
  PROVE  Right(f, Prepared(f, disk[f].mtime))
<1>1. CASE MetadataUnchanged(f, disk[f].mtime)
  <2>1. state[f].content = disk[f].content /\ Stored(f, state[f].content)
    BY <1>1 DEF MetadataUnchanged, Honesty, Honest
  <2>2. disk[f].content \in Eligible
    BY <2>1 DEF Types, StoreTypes, SafeState
  <2>3. QED BY <1>1, <2>1, <2>2 DEF Right, Prepared, Indexable, Fresh, Stored
<1>2. CASE ~MetadataUnchanged(f, disk[f].mtime)
  BY <1>2 DEF Right, Prepared, VersionUnchanged, Stored, Indexable, Fresh
<1>3. QED BY <1>1, <1>2

LEMMA SavedRight ==
  ASSUME NEW f, NEW r, Right(f, r)
  PROVE  /\ Saved(graph[f], r) = Indexable(disk[f].content)
         /\ Saved(search[f], r) = Indexable(disk[f].content)
BY DEF Right, Saved, Fresh

\* A file that is not among the ones tombstoned keeps what the index has of it.
LEMMA TombstonesSpare ==
  ASSUME Types, AfterWalk, NEW f \in Files, f \notin scan.tomb
  PROVE  graph'[f] = graph[f] /\ search'[f] = search[f]
<1>1. CASE TombstoneGraph
  BY <1>1 DEF TombstoneGraph
<1>2. CASE TombstoneSearch
  BY <1>2 DEF TombstoneSearch
<1>3. CASE ~TombstoneGraph /\ ~TombstoneSearch
  BY <1>3 DEF AfterWalk, BeginTombstones, FirstPage, NextPage, ListPage, TombstoneState, stores
<1>4. QED BY <1>1, <1>2, <1>3

\* Only the walk passes files over.
LEMMA HiddenGrows ==
  ASSUME Types, ScanProgress
  PROVE  scan.hidden \subseteq scan'.hidden
<1> USE DEF Types, Scans, ScanStep
<1>1. CASE \E D \in SUBSET Files : WalkUnreadableDirectory(D)
  BY <1>1, UnreadableEffect
<1>2. CASE \E f \in Files : WalkFile(f) \/ WalkGoneFile(f) \/ PrepareFile(f)
  BY <1>2 DEF WalkFile, WalkGoneFile, PrepareFile
<1>3. CASE SaveBatchStates \/ SaveBatchGraph \/ SaveBatchSearch \/ FailBatch
  BY <1>3 DEF SaveBatchStates, SaveBatchGraph, SaveBatchSearch, FailBatch
<1>4. CASE BeginTombstones \/ FirstPage \/ NextPage
  BY <1>4 DEF BeginTombstones, FirstPage, NextPage, ListPage
<1>5. CASE TombstoneState \/ TombstoneGraph \/ TombstoneSearch
  BY <1>5 DEF TombstoneState, TombstoneGraph, TombstoneSearch
<1>6. QED BY <1>1, <1>2, <1>3, <1>4, <1>5 DEF ScanProgress

LEMMA ScanCovered ==
  ASSUME Types, Honesty, Phases, ScanProgress,
         NEW f \in Steady, f \notin scan'.hidden, CoveredFile(f)
  PROVE  CoveredFile(f)'
<1>1. UNCHANGED <<disk, touched>> /\ f \in Files /\ f \notin touched /\ disk[f].content /= None
  BY ScanProgressFrame DEF Steady
<1>3. ASSUME NEW g \in Files, WalkFile(g) PROVE CoveredFile(f)'
  <2>1. /\ g \in scan.todo /\ scan'.todo = scan.todo \ {g}
        /\ DOMAIN scan'.stated \subseteq DOMAIN scan.stated \cup {g}
        /\ DOMAIN scan.stated \subseteq DOMAIN scan'.stated
        /\ \A h \in DOMAIN scan'.stated \ {g} : scan'.stated[h] = scan.stated[h]
        /\ disk[g].content /= None => g \in DOMAIN scan'.stated /\ scan'.stated[g].mtime = disk[g].mtime
        /\ scan'.ready = scan.ready /\ scan'.saving = scan.saving /\ scan'.seen = scan.seen
        /\ scan'.step = scan.step /\ UNCHANGED stores
    BY <1>3, WalkEffect
  <2>2. Waiting(f) => Waiting(f)'
    BY <1>1, <2>1 DEF Waiting
  <2>3. f \in DOMAIN scan'.stated => scan'.stated[f].mtime = disk'[f].mtime
    BY <1>1, <2>1 DEF CoveredFile
  <2>4. QED BY <1>1, <2>1, <2>2, <2>3 DEF CoveredFile, Right, Underway, Fresh, stores
<1>4. ASSUME NEW g \in Files, WalkGoneFile(g) PROVE CoveredFile(f)'
  <2>1. /\ g \in touched /\ scan'.todo = scan.todo \ {g}
        /\ DOMAIN scan'.ready = DOMAIN scan.ready \cup {g}
        /\ \A h \in DOMAIN scan.ready \ {g} : scan'.ready[h] = scan.ready[h]
        /\ scan'.seen = scan.seen \cup {g}
        /\ scan'.stated = scan.stated /\ scan'.saving = scan.saving
        /\ scan'.step = scan.step /\ UNCHANGED stores
    BY <1>4, WalkGoneEffect
  <2>2. f /= g
    BY <1>1, <2>1
  <2>3. QED BY <1>1, <2>1, <2>2 DEF CoveredFile, Right, Waiting, Underway, Fresh, stores
<1>5. ASSUME NEW g \in Files, PrepareFile(g) PROVE CoveredFile(f)'
  <2>1. /\ g \in DOMAIN scan.stated
        /\ DOMAIN scan'.stated = DOMAIN scan.stated \ {g}
        /\ \A h \in DOMAIN scan'.stated : scan'.stated[h] = scan.stated[h]
        /\ DOMAIN scan'.ready = DOMAIN scan.ready \cup {g}
        /\ scan'.ready[g] = Prepared(g, scan.stated[g].mtime)
        /\ \A h \in DOMAIN scan.ready \ {g} : scan'.ready[h] = scan.ready[h]
        /\ scan'.seen = scan.seen \cup {g}
        /\ scan'.todo = scan.todo /\ scan'.saving = scan.saving
        /\ scan'.step = scan.step /\ UNCHANGED stores
    BY <1>5, PrepareEffect
  <2>2. CASE f = g
    <3>1. scan'.ready[f] = Prepared(f, disk[f].mtime)
      BY <2>1, <2>2 DEF CoveredFile
    <3>2. Right(f, scan'.ready[f])
      BY <1>1, <3>1, PreparedRight
    <3>3. QED BY <1>1, <2>1, <2>2, <3>2 DEF CoveredFile, Right, Waiting, Underway, Fresh, stores
  <2>3. CASE f /= g
    BY <1>1, <2>1, <2>3 DEF CoveredFile, Right, Waiting, Underway, Fresh, stores
  <2>4. QED BY <2>2, <2>3
<1>6. CASE SaveBatchStates
  <2>1. /\ scan'.todo = scan.todo /\ scan'.stated = scan.stated /\ scan'.seen = scan.seen
        /\ scan.step = "collect" /\ scan'.step = "graph"
        /\ scan'.saving = scan.ready /\ DOMAIN scan'.ready = {}
        /\ UNCHANGED <<graph, search>>
    BY <1>6, SaveEffect DEF SameWalk
  <2>2. DOMAIN scan.saving = {}
    BY <2>1 DEF Phases
  <2>3. QED BY <1>1, <2>1, <2>2 DEF CoveredFile, Right, Waiting, Underway, Fresh
<1>7. CASE SaveBatchGraph
  <2>1. /\ scan'.todo = scan.todo /\ scan'.stated = scan.stated /\ scan'.seen = scan.seen
        /\ scan'.saving = scan.saving /\ scan'.ready = scan.ready
        /\ UNCHANGED <<state, search>>
        /\ graph' = [h \in Files |-> IF h \in DOMAIN scan.saving
                                     THEN Saved(graph[h], scan.saving[h]) ELSE graph[h]]
    BY <1>7, SaveEffect DEF SameWalk, SaveBatchGraph
  <2>2. f \in DOMAIN scan.saving => graph'[f] = Indexable(disk[f].content)
    BY <1>1, <2>1, SavedRight DEF CoveredFile
  <2>3. f \notin DOMAIN scan.saving => graph'[f] = graph[f]
    BY <1>1, <2>1
  <2>4. Fresh(f) => Fresh(f)'
    BY <1>1, <2>1, <2>2, <2>3 DEF Fresh
  <2>5. QED BY <1>1, <2>1, <2>2, <2>4 DEF CoveredFile, Right, Waiting, Underway
<1>8. CASE SaveBatchSearch
  <2>1. /\ scan'.todo = scan.todo /\ scan'.stated = scan.stated /\ scan'.seen = scan.seen
        /\ scan.step = "search" /\ DOMAIN scan'.saving = {} /\ scan'.ready = scan.ready
        /\ UNCHANGED <<state, graph>>
        /\ search' = [h \in Files |-> IF h \in DOMAIN scan.saving
                                      THEN Saved(search[h], scan.saving[h]) ELSE search[h]]
    BY <1>8, SaveEffect DEF SameWalk, SaveBatchSearch
  <2>2. f \in DOMAIN scan.saving => search'[f] = Indexable(disk[f].content)
    BY <1>1, <2>1, SavedRight DEF CoveredFile
  <2>3. f \notin DOMAIN scan.saving => search'[f] = search[f]
    BY <1>1, <2>1
  <2>4. Fresh(f) => Fresh(f)'
    BY <1>1, <2>1, <2>2, <2>3 DEF Fresh
  <2>5. f \in DOMAIN scan.saving => Fresh(f)'
    BY <1>1, <2>1, <2>2 DEF CoveredFile, Fresh
  <2>6. QED BY <1>1, <2>1, <2>4, <2>5 DEF CoveredFile, Right, Waiting, Underway
<1>9. CASE FailBatch
  <2>1. /\ scan'.todo = scan.todo /\ scan'.stated = scan.stated /\ scan'.seen = scan.seen
        /\ DOMAIN scan'.ready = DOMAIN scan.ready \cup DOMAIN scan.saving
        /\ \A h \in DOMAIN scan.ready : scan'.ready[h] = scan.ready[h]
        /\ \A h \in DOMAIN scan.saving \ DOMAIN scan.ready : scan'.ready[h] = scan.saving[h]
        /\ DOMAIN scan'.saving = {} /\ UNCHANGED stores
    BY <1>9, FailBatchEffect
  <2>2. QED BY <1>1, <2>1 DEF CoveredFile, Right, Waiting, Underway, Fresh, stores
<1>10. CASE AfterWalk
  <2>1. /\ scan'.todo = scan.todo /\ scan'.stated = scan.stated /\ scan'.seen = scan.seen
        /\ scan'.ready = scan.ready /\ scan'.saving = scan.saving
        /\ \/ scan.step = "collect" /\ scan.todo = {} /\ DOMAIN scan.stated = {}
           \/ scan.step \in TombstoneSteps
    BY <1>10, TombstoneEffect DEF SameWalk
  <2>2. ~Waiting(f) /\ DOMAIN scan.saving = {}
    BY <2>1 DEF Waiting, Phases
  <2>3. f \in scan.seen
    BY <2>2 DEF CoveredFile
  <2>4. f \notin scan.tomb
    BY <2>3 DEF Phases
  <2>5. graph'[f] = graph[f] /\ search'[f] = search[f]
    BY <1>1, <1>10, <2>4, TombstonesSpare
  <2>6. QED BY <1>1, <2>1, <2>2, <2>3, <2>5 DEF CoveredFile, Right, Waiting, Underway, Fresh
<1>11. ASSUME NEW D \in SUBSET Files, WalkUnreadableDirectory(D) PROVE CoveredFile(f)'
  <2>1. f \notin D /\ scan'.todo = scan.todo \ D /\ UNCHANGED stores
    BY <1>11, UnreadableEffect
  <2>2. QED
    BY <1>1, <1>11, <2>1, UnreadableEffect
       DEF CoveredFile, Right, Waiting, Underway, Fresh, stores
<1>12. QED BY <1>3, <1>4, <1>5, <1>6, <1>7, <1>8, <1>9, <1>10, <1>11, ScanProgressCases

LEMMA InitCovered == IndexInit => Repairing
BY NoScanFields DEF IndexInit, Repairing

LEMMA NextCovered ==
  Types /\ Alone /\ Phases /\ Honesty /\ Repairing /\ [IndexNext]_indexVars => Repairing'
<1> SUFFICES ASSUME Types, Alone, Phases, Honesty, Repairing, [IndexNext]_indexVars PROVE Repairing'
  OBVIOUS
<1>1. CASE scan'.step = "none"
  BY <1>1 DEF Repairing
<1>2. CASE UNCHANGED indexVars
  BY <1>2 DEF Repairing, Steady, CoveredFile, Right, Waiting, Underway, Fresh, indexVars, stores, jobs
<1>3. ASSUME NEW g \in Files, NEW c \in Contents \cup {None}, Edit(g, c) PROVE Repairing'
  <2> SUFFICES ASSUME scan'.step /= "none" PROVE Repairing'
    BY <1>1
  <2>0. scan' = scan
    BY <1>3 DEF Edit, jobs
  <2>1. /\ touched' = touched \cup {g} /\ UNCHANGED <<graph, search, scan>>
        /\ \A f \in Files \ {g} : disk'[f] = disk[f]
    BY <1>3, <2>0 DEF Edit, stores, jobs, Types, DiskTypes, Alone
  <2>2. \A f \in Steady' : f \in Steady /\ disk'[f] = disk[f]
    BY <2>1 DEF Steady
  <2>3. QED BY <2>1, <2>2 DEF Repairing, CoveredFile, Right, Waiting, Underway, Fresh
<1>4. ASSUME NEW w \in Workers, NEW f \in Files, BeginPath(w, f) PROVE Repairing'
  BY <1>1, <1>4 DEF BeginPath, Alone
<1>5. ASSUME NEW w \in Workers, BeginScan(w) PROVE Repairing'
  <2>1. scan'.todo = Files /\ scan'.stated = NoFiles /\ scan'.ready = NoFiles /\ scan'.saving = NoFiles
    BY <1>5 DEF BeginScan, NoScan
  <2>2. QED BY <2>1, BatchType DEF Repairing, Steady, CoveredFile, Waiting
<1>6. ASSUME NEW w \in Workers, PathStep(w) PROVE Repairing'
  <2>1. pc[w] \in PathPCs /\ scan' = scan
    BY <1>6, PathFrame
  <2>2. scan.step = "none"
    BY <2>1 DEF Alone, Scanning, PathPCs
  <2>3. QED BY <1>1, <2>1, <2>2
<1>7. ASSUME NEW w \in Workers, FinishScan(w) \/ FailScan(w) PROVE Repairing'
  BY <1>1, <1>7, NoScanFields DEF FinishScan, FailScan, ScanOver
<1>8. CASE ScanProgress
  <2>1. scan.step /= "none" /\ \A f \in Steady' : f \in Steady /\ f \notin scan'.hidden
    BY <1>8, ProgressIsScanning, ScanProgressFrame, HiddenGrows DEF Steady
  <2>2. QED BY <1>8, <2>1, ScanCovered DEF Repairing
<1>9. CASE IndexCrash
  BY <1>1, <1>9, NoScanFields DEF IndexCrash
<1>10. QED BY <1>2, <1>3, <1>4, <1>5, <1>6, <1>7, <1>8, <1>9 DEF IndexNext, IndexStep

IndexInv == Types /\ Alone /\ Phases /\ Honesty /\ Repairing

LEMMA IndexInvHolds == IndexSpec => []IndexInv
<1>1. IndexInit => IndexInv
  BY InitTypes, InitAlone, InitPhases, InitHonesty, InitCovered DEF IndexInv
<1>2. IndexInv /\ [IndexNext]_indexVars => IndexInv'
  BY NextTypes, NextAlone, NextPhases, NextHonesty, NextCovered DEF IndexInv
<1>3. QED BY <1>1, <1>2, PTL DEF IndexSpec

\* Before the first page is listed every other file has been recorded as seen.
LEMMA OnlyMissingStep ==
  ASSUME IndexInv, IndexNext, NEW f \in Files, scan'.tomb \ scan.tomb = {f}
  PROVE  disk[f].content = None \/ f \in touched \cup scan.hidden
<1>1. f \in scan'.tomb /\ f \notin scan.tomb
  OBVIOUS
<1>2. TombstoneState
  <2>1. ~(UNCHANGED scan) /\ scan' /= NoScan
    BY <1>1, NoScanFields
  <2>2. ~\E w \in Workers : BeginScan(w) \/ PathStep(w)
    BY <1>1, <2>1, PathFrame DEF BeginScan, NoScan, IndexInv
  <2>3. ScanProgress
    BY <2>1, <2>2 DEF IndexNext, IndexStep, Edit, BeginPath, FinishScan, FailScan, ScanOver,
       IndexCrash, jobs
  <2>4. ~\E g \in Files : WalkFile(g) \/ WalkGoneFile(g) \/ PrepareFile(g)
    BY <1>1, WalkEffect, WalkGoneEffect, PrepareEffect DEF IndexInv
  <2>u. ~\E D \in SUBSET Files : WalkUnreadableDirectory(D)
    BY <1>1, UnreadableEffect DEF IndexInv
  <2>5. ~(SaveBatchStates \/ SaveBatchGraph \/ SaveBatchSearch \/ FailBatch)
    BY <1>1, SaveEffect, FailBatchEffect DEF IndexInv
  <2>6. ASSUME BeginTombstones \/ FirstPage \/ NextPage \/ TombstoneGraph \/ TombstoneSearch
        PROVE  scan'.tomb \subseteq scan.tomb
    BY <2>6 DEF BeginTombstones, FirstPage, NextPage, ListPage, TombstoneGraph, TombstoneSearch,
       ScanStep, IndexInv, Types, Scans
  <2>7. QED BY <1>1, <2>3, <2>4, <2>5, <2>6, <2>u DEF ScanProgress
<1>3. f \in scan.page /\ scan.step \in TombstoneSteps
  <2>1. scan'.tomb \subseteq scan.tomb \cup scan.page
    BY <1>2, TombstoneEffect DEF AfterWalk, IndexInv
  <2>2. QED BY <1>1, <1>2, <2>1 DEF TombstoneState, TombstoneSteps
<1>4. f \notin scan.seen /\ ~Waiting(f)
  BY <1>3 DEF IndexInv, Phases, Waiting
<1>5. f \notin Steady
  BY <1>3, <1>4 DEF IndexInv, Repairing, CoveredFile, TombstoneSteps
<1>6. QED BY <1>5 DEF Steady

\* A file is tombstoned only if it was missing, changed meanwhile or lies below a
\* directory that could not be read: before the first page is listed every other file
\* has been recorded as seen (tombstoneMissingFiles).
THEOREM OnlyMissingTombstoned == IndexSpec => TombstonesOnlyMissing
<1> DEFINE Step == \A f \in Files :
                     scan'.tomb \ scan.tomb = {f} =>
                       disk[f].content = None \/ f \in touched \cup scan.hidden
<1>1. IndexInv /\ [IndexNext]_indexVars => [Step]_indexVars
  BY OnlyMissingStep DEF indexVars, stores, jobs
<1>2. QED BY <1>1, IndexInvHolds, PTL DEF IndexSpec, TombstonesOnlyMissing

LEMMA FinishedScanIsFresh ==
  ASSUME IndexInv, NEW w \in Workers, FinishScan(w),
         NEW f \in Files \ (touched \cup scan.hidden), disk[f].content /= None
  PROVE  Fresh(f)'
<1>1. scan.step = "tombstone" /\ f \in Steady /\ UNCHANGED <<disk, graph, search>>
  BY DEF FinishScan, ScanOver, Steady, stores
<1>2. Fresh(f)
  BY <1>1 DEF IndexInv, Repairing, CoveredFile, Phases, Waiting, Underway, TombstoneSteps
<1>3. QED BY <1>1, <1>2 DEF Fresh

\* A full scan that completes leaves the graph and the search store right for every
\* existing file that did not change meanwhile and is not below an unreadable
\* directory, whatever they held before.
THEOREM ScansRepair == IndexSpec => ScanRepairs
<1> DEFINE Step == FinishesScan =>
                     \A f \in Files \ (touched \cup scan.hidden) :
                       disk[f].content /= None => Fresh(f)'
<1>1. IndexInv /\ [IndexNext]_indexVars => [Step]_indexVars
  BY FinishedScanIsFresh DEF FinishesScan
<1>2. QED BY <1>1, IndexInvHolds, PTL DEF IndexSpec, ScanRepairs
=============================================================================
