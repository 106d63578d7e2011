------------------------ MODULE MCIngestionScheduler ------------------------
(***************************************************************************)
(* Small instances of the ingestion scheduler. A task is a record, so that *)
(* its project and its kind are part of its name.                          *)
(***************************************************************************)
EXTENDS IngestionSchedulerProperties, TLC

CONSTANTS pA, pB, MCTaskNames

Task(n, p, wide, prepared, recovery) ==
  [name |-> n, project |-> p, wide |-> wide, prepared |-> prepared, recovery |-> recovery]

AllTasks ==
  { Task("scanA",    pA, TRUE,  TRUE,  FALSE),   \* SubmitFullScanAsync
    Task("rebuildA", pA, TRUE,  FALSE, FALSE),   \* RebuildSearchIndex, synchronous
    Task("rebuildRunA", pA, TRUE, TRUE, FALSE),  \* SubmitRebuildSearchIndex
    Task("scanB",    pB, TRUE,  TRUE,  FALSE),
    Task("recoverA", pA, TRUE,  TRUE,  TRUE),    \* restart recovery scan
    Task("pathA1",   pA, FALSE, FALSE, FALSE),   \* SubmitPath
    Task("pathA2",   pA, FALSE, FALSE, FALSE),
    Task("pathB",    pB, FALSE, FALSE, FALSE) }

MCTasks    == {t \in AllTasks : t.name \in MCTaskNames}
MCProject  == [t \in MCTasks |-> t.project]
MCWide     == {t \in MCTasks : t.wide}
MCPrepared == {t \in MCTasks : t.prepared}
MCRecovery == {t \in MCTasks : t.recovery}
MCRebuilds == {t \in MCPrepared : t.name = "rebuildRunA"}

\* Workers are interchangeable; used by the runs without liveness properties.
WorkerSymmetry == Permutations(Workers)
=============================================================================
