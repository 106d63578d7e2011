------------------------- MODULE FileIndexProperties -------------------------
(***************************************************************************)
(* What must hold of the index of a project.                               *)
(***************************************************************************)
EXTENDS FileIndex

FinishesScan == \E w \in Workers : FinishScan(w)

\* A full scan that completes leaves the graph and the search store with what is
\* on disk, for every existing file that did not change meanwhile and is not below a
\* directory that the walk could not read: whatever mix of old and new an earlier
\* failure, crash or overlap left in the three stores. (metadataUnchangedFile takes a
\* short cut for unchanged files.)
ScanRepairs ==
  [][ FinishesScan =>
        \A f \in Files \ (touched \cup scan.hidden) :
          disk[f].content /= None => Fresh(f)' ]_indexVars

\* A file is tombstoned only if it was missing, or changed meanwhile, or lies below a
\* directory that the walk could not read and passed over (service.go:883): never for
\* being still in the hands of a file worker or the result loop, which run
\* concurrently with the walk (docs/architecture/system-architecture.md:473: after
\* enumeration and workers drain).
TombstonesOnlyMissing ==
  [][ \A f \in Files :
        scan'.tomb \ scan.tomb = {f} =>
          disk[f].content = None \/ f \in touched \cup scan.hidden ]_indexVars

\* docs/reports/tests/2026-05-30-agent-mcp-ingestion-performance-reliability-review.md:99:
\* tombstone all previously present states not seen in a full scan. (tombstoneMissingFiles
\* lists them page by page while its own writes shrink the list.)
ScanTombstonesAllMissing ==
  [][ FinishesScan =>
        \A f \in Files \ (scan.seen \cup touched) : state'[f].status \in {"unknown", "absent"} ]_indexVars
=============================================================================
