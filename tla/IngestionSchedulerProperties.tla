-------------------- MODULE IngestionSchedulerProperties --------------------
(***************************************************************************)
(* What must hold of the ingestion scheduler.                              *)
(***************************************************************************)
EXTENDS IngestionScheduler

InPhase(ps, p) == {t \in Tasks : Project[t] = p /\ phase[t] \in ps}

ActiveIn(p) == InPhase({"active"}, p)
\* Registered as pending and neither acquired nor unregistered.
PendingPhases == {"sending", "refused", "queued", "claimed"}
PendingIn(p) == InPhase(PendingPhases, p) \cap Wide

-----------------------------------------------------------------------------
(* Safety. *)

\* A project-wide task runs alone: while a full scan or an index rebuild of a
\* project executes (runTask between acquireProject and releaseProject), no
\* other task of that project does.
WideRunsAlone ==
  \A p \in Projects : \A t, u \in ActiveIn(p) : t \in Wide => u = t

\* No project ever has more tasks executing than per_project_worker_limit.
ProjectLimitRespected ==
  \A p \in Projects : Cardinality(ActiveIn(p)) <= PerProjectWorkerLimit

\* The counters of schedulerProjectState agree with the tasks they count, on
\* every path that moves a task: enqueue, refusal, acquisition, cancellation,
\* release. A counter left too high would hold path work back for ever.
CountersMatchTasks ==
  \A p \in Projects :
    /\ active[p] = Cardinality(ActiveIn(p))
    /\ wideActive[p] = (ActiveIn(p) \cap Wide /= {})
    /\ widePending[p] = Cardinality(PendingIn(p))

\* No lost wakeup: a worker that waits on the changed channel in acquireProject
\* waits for a task that really cannot have its project now.
ParkedWorkersMustWait ==
  \A w \in Workers : pc[w] = "parked" => ~CanAcquire(work[w])

\* A task accepted by a channel is never lost or handled twice: it is in one slot
\* of one channel, or with one worker, as its phase says.
TaskInOnePlace ==
  LET slots == {<<"live", i>> : i \in 1..Len(liveCh)}
          \cup {<<"full", i>> : i \in 1..Len(fullCh)}
      At(s) == IF s[1] = "live" THEN liveCh[s[2]] ELSE fullCh[s[2]]
  IN \A t \in Tasks :
       /\ Cardinality({s \in slots : At(s) = t}) = IF phase[t] = "queued" THEN 1 ELSE 0
       /\ Cardinality({w \in Workers : work[w] = t})
            = IF phase[t] \in {"claimed", "active", "abandoned"} THEN 1 ELSE 0

\* While a server is up, a stored run that says pending or running belongs to a
\* submission this very server is still handling: a client that polls the run
\* ID it was given (docs/configuration/local-projects.md) waits for something.
NoOrphanRuns ==
  server = "up" =>
    \A t \in Tasks : run[t] \in ActiveStatuses => phase[t] \notin {"new", "over"}

\* The only way every worker of a running scheduler can be blocked inside
\* acquireProject: all of them hold path tasks, and for each of these a
\* project-wide task of the same project is registered but not yet dequeued.
AllParked == \A w \in Workers : pc[w] = "parked"
OnlyPathsBlockThePool ==
  AllParked =>
    \A w \in Workers :
      /\ work[w] \notin Wide
      /\ InPhase({"sending", "refused", "queued"}, Project[work[w]]) \cap Wide /= {}

-----------------------------------------------------------------------------
(* Action properties. *)

\* Path work is held behind project-wide work: a path task does not start while
\* a full scan or rebuild of its project is registered, queued, held by a worker
\* or executing. (The runs check this as part of ImplementsAdmission.)
PathsHeldBehindWideWork ==
  [][\A t \in Tasks \ Wide :
       phase[t] /= "active" /\ phase'[t] = "active" =>
         (PendingIn(Project[t]) \cup ActiveIn(Project[t])) \cap Wide = {}]_vars

RunRank == [s \in RunStatuses |->
              CASE s = "none" -> 0 [] s = "pending" -> 1 [] s = "running" -> 2
                [] OTHER -> 3]

\* The stored status of a run only moves forward, and a finished run does not change
\* again: not by a late worker, a withdrawn caller or a restart. There is one way out:
\* a rebuild that was stored as completed is stored as failed by the very worker that
\* completed it, before it gives up the project, when the last checkpoint fails
\* (executeSearchIndexRebuild).
RunsMoveForward ==
  [][\A t \in Tasks : run'[t] /= run[t] =>
       \/ RunRank[run[t]] < RunRank[run'[t]]
       \/ /\ run[t] = "completed" /\ run'[t] = "failed"
          /\ \E w \in Workers : pc[w] = "checkpoint" /\ work[w] = t]_vars

-----------------------------------------------------------------------------
(* Refinement. *)
Stage(t) ==
  CASE phase[t] \in {"new", "admitted", "prepared"} -> "outside"
    [] phase[t] \in PendingPhases -> "waiting"
    [] phase[t] = "active" -> "active"
    [] OTHER -> "over"

Admission == INSTANCE TaskAdmission WITH
  Limit <- PerProjectWorkerLimit, stage <- [t \in Tasks |-> Stage(t)]

\* The channels, workers, counters and wakeups of scheduler.go implement the
\* admission discipline of TaskAdmission.
ImplementsAdmission == Admission!Spec

-----------------------------------------------------------------------------
(* Liveness. *)

\* Stop's wg.Wait returns: once the context is cancelled every worker leaves
\* workerLoop, whatever it was blocked on, unless the process ends first.
WorkersExitAfterStop ==
  server = "stopping" ~>
    (server = "down" \/ \A w \in Workers : pc[w] = "exited")

\* A run handed out by an asynchronous submission reaches a final status, unless
\* the server stops first.
PreparedRunsSettle ==
  \A t \in Prepared :
    run[t] = "pending" ~> (server /= "up" \/ run[t] \in {"completed", "failed"})

\* A submission that reached a channel is executed and finished, unless the
\* server stops first.
QueuedTasksFinish ==
  \A t \in Tasks : phase[t] = "queued" ~> (server /= "up" \/ phase[t] = "over")

\* A boot after a process that left runs pending or running gets a recovery scan
\* through the whole scheduler: it is submitted, executed and settled, unless the
\* server stops.
Interrupted == server = "down" /\ \E t \in Tasks : run[t] \in ActiveStatuses

RecoveryScanSettles ==
  \A t \in Recovery :
    [](Interrupted =>
         [](server = "up" => <>(server /= "up" \/ run[t] \in {"completed", "failed"})))

-----------------------------------------------------------------------------
(* What documents and tests say, and the scheduler does not do. *)

\* scheduler_test.go:244, TestSchedulerPendingProjectWideWorkRunsBeforeSameProjectPath:
\* pending project-wide work runs (and same-project path work is held behind it).
PendingProjectWideWorkRuns ==
  \A t \in Wide :
    phase[t] = "queued" ~> (server /= "up" \/ phase[t] \in {"active", "over"})
=============================================================================
