---------------------------- MODULE SearchRebuild ----------------------------
(***************************************************************************)
(* RebuildSearchIndex (executeSearchIndexRebuild in                        *)
(* internal/projectingestion/service.go) on top of the file index: a       *)
(* project-wide task that brings the search rows back in line with the     *)
(* file states. It runs alone, as the scheduler admits it; files change    *)
(* under it.                                                               *)
(*                                                                         *)
(* Next uses none of the operators under a "Faulty" comment: each is a     *)
(* variant of the definition after it with a plausible bug.                *)
(***************************************************************************)
EXTENDS FileIndex

VARIABLE rebuild  \* whether a rebuild runs, the files it has still to repair, its stored run

rebuildVars == <<indexVars, rebuild>>

NoRebuild == [on |-> FALSE, todo |-> {}, run |-> "none"]

RebuildInit == IndexInit /\ rebuild = NoRebuild

-----------------------------------------------------------------------------
\* The rows that go with a file state.
Rows(s) == IF s.status = "eligible" THEN s.content ELSE None

\* Faulty: every eligible file is repaired.
NeedsRepairAlways(f) == state[f].status = "eligible"

\* searchFileNeedsRepair
NeedsRepair(f) == state[f].status = "eligible" /\ search[f] /= state[f].content

\* ReconcileSearchIndex, in one transaction: rows of no eligible file are deleted,
\* and the eligible files are returned whose rows are not the ones of their state.
BeginRebuild ==
  /\ ~rebuild.on /\ Active = {}
  /\ search' = [f \in Files |-> IF state[f].status = "eligible" THEN search[f] ELSE None]
  /\ rebuild' = [on |-> TRUE, todo |-> {f \in Files : NeedsRepair(f)}, run |-> "running"]
  /\ UNCHANGED <<disk, edits, failures, state, graph, jobs, touched>>

\* repairSearchIndexFile: one file after the other, as a path task would do it.
RepairFile(w, f) ==
  /\ f \in rebuild.todo /\ Active = {}
  /\ BeginPath(w, f)
  /\ rebuild' = [rebuild EXCEPT !.todo = @ \ {f}]

\* saveSearchIndexRepairResult does not ask whether the result is unchanged. Such a
\* result comes without chunks, and PutEligibleFile would remove those in the graph.
RepairGraph(w) ==
  /\ pc[w] = "saveGraph"
  /\ graph' = [graph EXCEPT ![file[w]] = IF result[w].unchanged THEN None ELSE result[w].content]
  /\ pc' = [pc EXCEPT ![w] = "saveSearch"]
  /\ UNCHANGED <<disk, edits, failures, state, search, file, result, scan, touched>>

RepairStep(w) == Lstat(w) \/ Read(w) \/ SaveState(w) \/ RepairGraph(w) \/ SaveSearch(w)

\* A store write fails, and the rebuild with it.
FailRebuild(w) == rebuild.on /\ FailPath(w) /\ rebuild' = NoRebuild

Repaired == rebuild.on /\ rebuild.todo = {} /\ Active = {}

\* The run is stored as completed; that write may fail, and the rebuild with it.
FinishRebuild ==
  /\ Repaired /\ rebuild.run = "running"
  /\ \/ rebuild' = [rebuild EXCEPT !.run = "completed"] /\ UNCHANGED failures
     \/ failures < MaxFailures /\ failures' = failures + 1 /\ rebuild' = NoRebuild
  /\ UNCHANGED <<disk, edits, stores, jobs, touched>>

\* The degraded mark is cleared, and the checkpoint after it fails: the completed run
\* is stored again, as failed.
FailCheckpoint ==
  /\ rebuild.run = "completed"
  /\ failures < MaxFailures
  /\ failures' = failures + 1
  /\ rebuild' = [rebuild EXCEPT !.run = "failed"]
  /\ UNCHANGED <<disk, edits, stores, jobs, touched>>

\* The task returns, in the end or because the mark could not be cleared.
ReturnFromRebuild ==
  /\ rebuild.run \in {"completed", "failed"}
  /\ rebuild' = NoRebuild
  /\ UNCHANGED indexVars

-----------------------------------------------------------------------------
RebuildNext ==
  \/ \E f \in Files, c \in Contents \cup {None} : Edit(f, c) /\ UNCHANGED rebuild
  \/ \E w \in Workers, f \in Files : ~rebuild.on /\ BeginPath(w, f) /\ UNCHANGED rebuild
  \/ \E w \in Workers : ~rebuild.on /\ BeginScan(w) /\ UNCHANGED rebuild
  \/ ~rebuild.on /\ IndexStep /\ UNCHANGED rebuild
  \/ BeginRebuild
  \/ \E w \in Workers, f \in Files : RepairFile(w, f)
  \/ \E w \in Workers : rebuild.on /\ RepairStep(w) /\ UNCHANGED rebuild
  \/ \E w \in Workers : FailRebuild(w)
  \/ FinishRebuild \/ FailCheckpoint \/ ReturnFromRebuild
  \/ IndexCrash /\ rebuild' = NoRebuild

RebuildSpec == RebuildInit /\ [][RebuildNext]_rebuildVars

-----------------------------------------------------------------------------
(* Properties. *)

\* A rebuild whose run is stored as completed has left the search rows in line with
\* the file states, whatever failures and crashes left behind and whatever changes
\* under it (service_test.go:1071); this is still so when its last checkpoint turns
\* the run to failed. And it costs the graph nothing: a repair writes the chunks that
\* go with the state, though it ignores that a result may be unchanged.
RebuildRepairs ==
  [][ /\ rebuild'.run \in {"completed", "failed"} => \A f \in Files : search'[f] = Rows(state'[f])
      /\ rebuild.on => \A f \in Files : graph'[f] \in {graph[f], Rows(state[f])} ]_rebuildVars
=============================================================================
