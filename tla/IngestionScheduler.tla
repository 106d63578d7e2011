------------------------- MODULE IngestionScheduler -------------------------
(***************************************************************************)
(* The ingestion scheduler of internal/projectingestion/scheduler.go: a    *)
(* pool of workers that drains two bounded channels (live path work and    *)
(* project-wide work) and admits tasks per project with a gate: a          *)
(* project-wide task (full scan or search index rebuild) runs alone in its *)
(* project, path tasks share a per-project limit and are held behind a     *)
(* project-wide task that is active or pending.                            *)
(*                                                                         *)
(* Three kinds of process take steps: the callers of Submit*, the worker   *)
(* goroutines, and the server process, which stops, dies and boots again.  *)
(* An action is one critical section of scheduler.mu, one channel          *)
(* operation, or one write of a run record.                                *)
(*                                                                         *)
(* Next uses none of the operators under a "Faulty" comment: each is a     *)
(* variant of the definition after it with a plausible bug, and breaks a   *)
(* property that the definition itself satisfies.                          *)
(***************************************************************************)
EXTENDS Integers, Sequences, FiniteSets

CONSTANTS
  Workers,               \* the GlobalWorkerCount goroutines of the pool
  Projects,
  Tasks,                 \* submissions; each is submitted at most once
  Project,               \* Project[t]: the project t is about
  Wide,                  \* tasks for which projectWide() is true
  Prepared,              \* wide tasks submitted asynchronously, with a run record
  Recovery,              \* the prepared scans main.go submits after an interrupted run
  Rebuilds,              \* the prepared search index rebuilds
  QueueDepth,            \* capacity of each channel
  PerProjectWorkerLimit,
  LivePathPriority,
  MaxRestarts,           \* bound: boots after the first
  NoTask                 \* a worker's task when it has none

ASSUME SchedulerAssumption ==
  /\ IsFiniteSet(Tasks)
  /\ IsFiniteSet(Workers)
  /\ Project \in [Tasks -> Projects]
  /\ Wide \subseteq Tasks
  /\ Prepared \subseteq Wide
  /\ Recovery \subseteq Prepared /\ Rebuilds \subseteq Prepared \ Recovery
  /\ QueueDepth \in Nat \ {0}
  /\ PerProjectWorkerLimit \in Nat \ {0}
  /\ LivePathPriority \in BOOLEAN
  /\ MaxRestarts \in Nat
  /\ NoTask \notin Tasks

VARIABLES
  server,       \* "up", "stopping" (context cancelled, Stop called), "down"
  restarts,     \* boots so far
  recovering,   \* this boot found interrupted runs and submits Recovery
  phase,        \* phase[t]: how far submission t has got
  run,          \* run[t]: the stored status of the run record of t
  liveCh,       \* the channel of path tasks
  fullCh,       \* the channel of project-wide tasks
  active,       \* schedulerProjectState.active of each project
  wideActive,   \* schedulerProjectState.projectWideActive
  widePending,  \* schedulerProjectState.projectWidePending
  pc,           \* where each worker is in workerLoop
  work          \* the task each worker has dequeued

serverVars == <<server, restarts, recovering>>
gateVars   == <<active, wideActive, widePending>>
vars == <<serverVars, phase, run, liveCh, fullCh, gateVars, pc, work>>

Phases ==
  { "new",        \* not submitted
    "admitted",   \* the scheduler was seen started
    "prepared",   \* its pending run is stored
    "sending",    \* registered as pending if wide; at the channel send
    "refused",    \* the send did not happen; still registered
    "failing",    \* withdrawn; its caller is about to fail the stored run
    "queued",     \* in a channel
    "claimed",    \* dequeued by a worker that has not acquired the project
    "active",     \* its worker holds the project
    "abandoned",  \* withdrawn by a cancelled worker that will fail the run
    "over" }

\* Idle workers look for a task, waiting ones want the project, holders have it.
IdlePCs    == {"poll", "tryFull", "tryLive", "select", "exited"}
WaitingPCs == {"acquire", "parked", "woken", "unregister"}
HoldingPCs == {"run", "executing", "checkpoint", "release"}
RunStatuses == {"none", "pending", "running", "completed", "failed"}
ActiveStatuses == {"pending", "running"}

TypeOK ==
  /\ server \in {"up", "stopping", "down"} /\ restarts \in Nat /\ recovering \in BOOLEAN
  /\ phase \in [Tasks -> Phases] /\ run \in [Tasks -> RunStatuses]
  /\ liveCh \in Seq(Tasks) /\ Len(liveCh) <= QueueDepth
  /\ fullCh \in Seq(Tasks) /\ Len(fullCh) <= QueueDepth
  /\ active \in [Projects -> Nat]
  /\ wideActive \in [Projects -> BOOLEAN]
  /\ widePending \in [Projects -> Nat]
  /\ pc \in [Workers -> IdlePCs \cup WaitingPCs \cup HoldingPCs \cup {"failrun"}]
  /\ work \in [Workers -> Tasks \cup {NoTask}]

Init ==
  /\ server = "up"
  /\ restarts = 0
  /\ recovering = FALSE
  /\ phase = [t \in Tasks |-> "new"]
  /\ run = [t \in Tasks |-> "none"]
  /\ liveCh = <<>>
  /\ fullCh = <<>>
  /\ active = [p \in Projects |-> 0]
  /\ wideActive = [p \in Projects |-> FALSE]
  /\ widePending = [p \in Projects |-> 0]
  /\ pc = [w \in Workers |-> "poll"]
  /\ work = [w \in Workers |-> NoTask]

-----------------------------------------------------------------------------
(***************************************************************************)
(* The gate of a project.                                                  *)
(***************************************************************************)

\* close(state.changed): every worker parked on the project wakes up.
Woken(p) ==
  [w \in Workers |->
     IF pc[w] = "parked" /\ Project[work[w]] = p THEN "woken" ELSE pc[w]]

\* Faulty.
CanAcquireIgnoringActive(t) ==
  IF t \in Wide THEN ~wideActive[Project[t]]
  ELSE /\ ~wideActive[Project[t]] /\ widePending[Project[t]] = 0
       /\ active[Project[t]] < PerProjectWorkerLimit

CanAcquireOffByOne(t) ==
  IF t \in Wide THEN active[Project[t]] = 0 /\ ~wideActive[Project[t]]
  ELSE /\ ~wideActive[Project[t]] /\ widePending[Project[t]] = 0
       /\ active[Project[t]] <= PerProjectWorkerLimit

CanAcquireIgnoringPending(t) ==
  IF t \in Wide THEN active[Project[t]] = 0 /\ ~wideActive[Project[t]]
  ELSE ~wideActive[Project[t]] /\ active[Project[t]] < PerProjectWorkerLimit

\* canAcquireProjectLocked
CanAcquire(t) ==
  LET p == Project[t] IN
  IF t \in Wide
  THEN active[p] = 0 /\ ~wideActive[p]
  ELSE ~wideActive[p] /\ widePending[p] = 0 /\ active[p] < PerProjectWorkerLimit

Decremented(n) == IF n > 0 THEN n - 1 ELSE 0

-----------------------------------------------------------------------------
(***************************************************************************)
(* Callers: SubmitFullScanAsync and SubmitRebuildSearchIndex (prepared     *)
(* tasks), SubmitFullScan and RebuildSearchIndex (other wide tasks),       *)
(* SubmitPath.                                                             *)
(***************************************************************************)

\* The asynchronous submissions refuse a scheduler that is not started.
Admit(t) ==
  /\ t \in Prepared
  /\ phase[t] = "new"
  /\ server = "up"
  /\ t \in Recovery => recovering
  /\ phase' = [phase EXCEPT ![t] = "admitted"]
  /\ UNCHANGED <<serverVars, run, liveCh, fullCh, gateVars, pc, work>>

\* PrepareProjectRun stores a pending run; a failed storage checkpoint fails it.
PrepareProjectRun(t) ==
  /\ server /= "down"
  /\ phase[t] = "admitted"
  /\ \/ /\ phase' = [phase EXCEPT ![t] = "prepared"]
        /\ run' = [run EXCEPT ![t] = "pending"]
     \/ /\ phase' = [phase EXCEPT ![t] = "over"]
        /\ run' = [run EXCEPT ![t] = "failed"]
  /\ UNCHANGED <<serverVars, liveCh, fullCh, gateVars, pc, work>>

\* enqueueTask, first half: a wide task is registered as pending before the
\* send. The synchronous submissions start here, whether or not the scheduler
\* is started.
RegisterPendingProjectWide(t) ==
  LET p == Project[t] IN
  /\ server /= "down"
  /\ phase[t] = (IF t \in Prepared THEN "prepared" ELSE "new")
  /\ phase' = [phase EXCEPT ![t] = "sending"]
  /\ IF t \in Wide
     THEN /\ widePending' = [widePending EXCEPT ![p] = @ + 1]
          /\ pc' = Woken(p)
     ELSE UNCHANGED <<widePending, pc>>
  /\ UNCHANGED <<serverVars, run, liveCh, fullCh, active, wideActive, work>>

\* Faulty.
EnqueueOffByOne(t) ==
  /\ server /= "down"
  /\ phase[t] = "sending"
  /\ IF t \in Wide
     THEN Len(fullCh) <= QueueDepth /\ fullCh' = Append(fullCh, t) /\ liveCh' = liveCh
     ELSE Len(liveCh) <= QueueDepth /\ liveCh' = Append(liveCh, t) /\ fullCh' = fullCh
  /\ phase' = [phase EXCEPT ![t] = "queued"]
  /\ UNCHANGED <<serverVars, run, gateVars, pc, work>>

\* enqueueTask, the send.
Enqueue(t) ==
  /\ server /= "down"
  /\ phase[t] = "sending"
  /\ \/ /\ t \in Wide
        /\ Len(fullCh) < QueueDepth
        /\ fullCh' = Append(fullCh, t)
        /\ UNCHANGED liveCh
     \/ /\ t \notin Wide
        /\ Len(liveCh) < QueueDepth
        /\ liveCh' = Append(liveCh, t)
        /\ UNCHANGED fullCh
  /\ phase' = [phase EXCEPT ![t] = "queued"]
  /\ UNCHANGED <<serverVars, run, gateVars, pc, work>>

\* Faulty.
GiveUpSendStillRegistered(t) ==
  /\ phase' = [phase EXCEPT ![t] = "over"]
  /\ UNCHANGED <<serverVars, run, liveCh, fullCh, gateVars, pc, work>>

\* The send is given up: unregisterPendingProjectWide follows for a wide task.
GiveUpSend(t) ==
  /\ phase' = [phase EXCEPT ![t] = IF t \in Wide THEN "refused" ELSE "over"]
  /\ UNCHANGED <<serverVars, run, liveCh, fullCh, gateVars, pc, work>>

\* The default branch of the non-blocking send of a prepared task.
QueueFull(t) ==
  /\ server /= "down"
  /\ phase[t] = "sending"
  /\ t \in Prepared
  /\ Len(fullCh) >= QueueDepth
  /\ GiveUpSend(t)

\* The ctx.Done branch of either send.
CallerCanceled(t) ==
  /\ server /= "down"
  /\ phase[t] = "sending"
  /\ GiveUpSend(t)

UnregisterPendingProjectWide(t) ==
  LET p == Project[t] IN
  /\ server /= "down"
  /\ t \in Wide
  /\ phase[t] = "refused"
  /\ widePending' = [widePending EXCEPT ![p] = Decremented(@)]
  /\ pc' = Woken(p)
  /\ phase' = [phase EXCEPT ![t] = IF t \in Prepared THEN "failing" ELSE "over"]
  /\ UNCHANGED <<serverVars, run, liveCh, fullCh, active, wideActive, work>>

\* Faulty.
FailPreparedRunNotStored(t) ==
  /\ server /= "down"
  /\ phase[t] = "failing"
  /\ phase' = [phase EXCEPT ![t] = "over"]
  /\ UNCHANGED <<serverVars, run, liveCh, fullCh, gateVars, pc, work>>

\* FailPreparedProjectRun with "queue_full" or "enqueue_canceled".
FailPreparedRun(t) ==
  /\ server /= "down"
  /\ phase[t] = "failing"
  /\ phase' = [phase EXCEPT ![t] = "over"]
  /\ run' = [run EXCEPT ![t] = "failed"]
  /\ UNCHANGED <<serverVars, liveCh, fullCh, gateVars, pc, work>>

-----------------------------------------------------------------------------
(***************************************************************************)
(* Workers: nextTask.                                                      *)
(***************************************************************************)
AfterFull == IF LivePathPriority THEN "tryLive" ELSE "select"

Goto(w, label) ==
  /\ pc' = [pc EXCEPT ![w] = label]
  /\ UNCHANGED <<serverVars, phase, run, liveCh, fullCh, gateVars, work>>

Take(w, t) ==
  /\ pc' = [pc EXCEPT ![w] = "acquire"]
  /\ work' = [work EXCEPT ![w] = t]
  /\ phase' = [phase EXCEPT ![t] = "claimed"]
  /\ UNCHANGED <<serverVars, run, gateVars>>

\* Faulty.
TakeFullWithoutReceiving(w) ==
  /\ fullCh /= <<>>
  /\ Take(w, Head(fullCh))
  /\ UNCHANGED <<fullCh, liveCh>>

TakeFull(w) ==
  /\ fullCh /= <<>>
  /\ Take(w, Head(fullCh))
  /\ fullCh' = Tail(fullCh)
  /\ UNCHANGED liveCh

TakeLive(w) ==
  /\ liveCh /= <<>>
  /\ Take(w, Head(liveCh))
  /\ liveCh' = Tail(liveCh)
  /\ UNCHANGED fullCh

\* hasPendingProjectWide reads the counters of every project.
Poll(w) ==
  /\ pc[w] = "poll"
  /\ Goto(w, IF \E p \in Projects : widePending[p] > 0
             THEN "tryFull" ELSE AfterFull)

\* The two non-blocking receives. Neither looks at the context.
TryFull(w) ==
  /\ pc[w] = "tryFull"
  /\ \/ TakeFull(w)
     \/ fullCh = <<>> /\ Goto(w, AfterFull)

TryLive(w) ==
  /\ pc[w] = "tryLive"
  /\ \/ TakeLive(w)
     \/ liveCh = <<>> /\ Goto(w, "select")

\* The blocking select.
Select(w) ==
  /\ pc[w] = "select"
  /\ \/ TakeFull(w)
     \/ TakeLive(w)
     \/ server = "stopping" /\ Goto(w, "exited")

-----------------------------------------------------------------------------
(***************************************************************************)
(* Workers: runTask, acquireProject, releaseProject.                       *)
(***************************************************************************)

\* Faulty.
TryAcquireStillPending(w) ==
  LET t == work[w] IN
  /\ pc[w] \in {"acquire", "woken"}
  /\ CanAcquire(t)
  /\ active' = [active EXCEPT ![Project[t]] = @ + 1]
  /\ wideActive' = [wideActive EXCEPT ![Project[t]] = t \in Wide]
  /\ phase' = [phase EXCEPT ![t] = "active"]
  /\ pc' = [pc EXCEPT ![w] = "run"]
  /\ UNCHANGED <<serverVars, run, liveCh, fullCh, widePending, work>>

\* One round of acquireProject. A wide task that gets the project stops being
\* pending, which wakes the others; a path task that gets it wakes nobody.
TryAcquire(w) ==
  LET t == work[w]
      p == Project[t] IN
  /\ pc[w] \in {"acquire", "woken"}
  /\ CanAcquire(t)
  /\ active' = [active EXCEPT ![p] = @ + 1]
  /\ phase' = [phase EXCEPT ![t] = "active"]
  /\ IF t \in Wide
     THEN /\ wideActive' = [wideActive EXCEPT ![p] = TRUE]
          /\ widePending' = [widePending EXCEPT ![p] = Decremented(@)]
          /\ pc' = [Woken(p) EXCEPT ![w] = "run"]
     ELSE /\ UNCHANGED <<wideActive, widePending>>
          /\ pc' = [pc EXCEPT ![w] = "run"]
  /\ UNCHANGED <<serverVars, run, liveCh, fullCh, work>>

\* The round fails: the worker waits for the changed channel it just read.
Park(w) ==
  /\ pc[w] \in {"acquire", "woken"}
  /\ ~CanAcquire(work[w])
  /\ Goto(w, "parked")

\* Faulty.
CancelAcquireOnlyWhenWoken(w) ==
  /\ pc[w] = "woken"
  /\ server = "stopping"
  /\ Goto(w, "unregister")

\* The ctx.Done branch of that wait.
CancelAcquire(w) ==
  /\ pc[w] \in {"parked", "woken"}
  /\ server = "stopping"
  /\ Goto(w, "unregister")

\* runTask when acquireProject returned false.
AbandonTask(w) ==
  LET t == work[w]
      p == Project[t] IN
  /\ pc[w] = "unregister"
  /\ IF t \in Wide
     THEN widePending' = [widePending EXCEPT ![p] = Decremented(@)]
     ELSE UNCHANGED widePending
  /\ IF t \in Prepared
     THEN /\ phase' = [phase EXCEPT ![t] = "abandoned"]
          /\ pc' = [Woken(p) EXCEPT ![w] = "failrun"]
          /\ UNCHANGED work
     ELSE /\ phase' = [phase EXCEPT ![t] = "over"]
          /\ pc' = [(IF t \in Wide THEN Woken(p) ELSE pc) EXCEPT ![w] = "poll"]
          /\ work' = [work EXCEPT ![w] = NoTask]
  /\ UNCHANGED <<serverVars, run, liveCh, fullCh, active, wideActive>>

\* failPreparedRun with "execution_canceled".
FailAbandonedRun(w) ==
  LET t == work[w] IN
  /\ pc[w] = "failrun"
  /\ run' = [run EXCEPT ![t] = "failed"]
  /\ phase' = [phase EXCEPT ![t] = "over"]
  /\ work' = [work EXCEPT ![w] = NoTask]
  /\ pc' = [pc EXCEPT ![w] = "poll"]
  /\ UNCHANGED <<serverVars, liveCh, fullCh, gateVars>>

\* ExecutePreparedProjectRun stores the running status first; under a cancelled
\* context the write may be refused, and the runner returns with the run as it was.
BeginRun(w) ==
  LET t == work[w] IN
  /\ pc[w] = "run"
  /\ \/ /\ run' = IF t \in Prepared THEN [run EXCEPT ![t] = "running"] ELSE run
        /\ pc' = [pc EXCEPT ![w] = "executing"]
     \/ /\ server = "stopping"
        /\ pc' = [pc EXCEPT ![w] = "release"]
        /\ UNCHANGED run
  /\ UNCHANGED <<serverVars, phase, liveCh, fullCh, gateVars, work>>

\* executeProjectRun or executeSearchIndexRebuild stores the outcome; the write is
\* lost when its context is cancelled. Only a completed rebuild goes on.
FinishRun(w) ==
  LET t == work[w] IN
  /\ pc[w] = "executing"
  /\ \/ /\ t \in Prepared
        /\ \E status \in {"completed", "failed"} :
             /\ run' = [run EXCEPT ![t] = status]
             /\ pc' = [pc EXCEPT ![w] = IF t \in Rebuilds /\ status = "completed"
                                       THEN "checkpoint" ELSE "release"]
     \/ /\ t \notin Prepared \/ server = "stopping"
        /\ pc' = [pc EXCEPT ![w] = "release"]
        /\ UNCHANGED run
  /\ UNCHANGED <<serverVars, phase, liveCh, fullCh, gateVars, work>>

\* The rest of executeSearchIndexRebuild: the completed run stays so, or is stored as
\* failed when the checkpoint of the storage fails.
Checkpoint(w) ==
  /\ pc[w] = "checkpoint"
  /\ \/ UNCHANGED run
     \/ run' = [run EXCEPT ![work[w]] = "failed"]
  /\ pc' = [pc EXCEPT ![w] = "release"]
  /\ UNCHANGED <<serverVars, phase, liveCh, fullCh, gateVars, work>>

\* Faulty.
ReleaseProjectSilently(w) ==
  LET t == work[w] IN
  /\ pc[w] = "release"
  /\ active' = [active EXCEPT ![Project[t]] = Decremented(@)]
  /\ wideActive' = IF t \in Wide THEN [wideActive EXCEPT ![Project[t]] = FALSE]
                                 ELSE wideActive
  /\ phase' = [phase EXCEPT ![t] = "over"]
  /\ work' = [work EXCEPT ![w] = NoTask]
  /\ pc' = [pc EXCEPT ![w] = "poll"]
  /\ UNCHANGED <<serverVars, run, liveCh, fullCh, widePending>>

ReleaseProject(w) ==
  LET t == work[w]
      p == Project[t] IN
  /\ pc[w] = "release"
  /\ active' = [active EXCEPT ![p] = Decremented(@)]
  /\ wideActive' = IF t \in Wide THEN [wideActive EXCEPT ![p] = FALSE]
                                 ELSE wideActive
  /\ phase' = [phase EXCEPT ![t] = "over"]
  /\ work' = [work EXCEPT ![w] = NoTask]
  /\ pc' = [Woken(p) EXCEPT ![w] = "poll"]
  /\ UNCHANGED <<serverVars, run, liveCh, fullCh, widePending>>

-----------------------------------------------------------------------------
(***************************************************************************)
(* The server process.                                                     *)
(***************************************************************************)

\* Scheduler.Stop: started is cleared and the workers' context cancelled. The
\* channels are not drained.
Stop ==
  /\ server = "up"
  /\ server' = "stopping"
  /\ UNCHANGED <<restarts, recovering, phase, run, liveCh, fullCh, gateVars, pc, work>>

\* The process ends: after Stop, when Stop's own timeout expires, or in a crash.
\* Everything but the stored runs is gone.
Exit ==
  /\ server \in {"up", "stopping"}
  /\ server' = "down"
  /\ phase' = [t \in Tasks |-> IF phase[t] = "new" THEN "new" ELSE "over"]
  /\ liveCh' = <<>>
  /\ fullCh' = <<>>
  /\ active' = [p \in Projects |-> 0]
  /\ wideActive' = [p \in Projects |-> FALSE]
  /\ widePending' = [p \in Projects |-> 0]
  /\ pc' = [w \in Workers |-> "exited"]
  /\ work' = [w \in Workers |-> NoTask]
  /\ UNCHANGED <<restarts, recovering, run>>

\* Faulty.
BootKeepingRuns ==
  /\ server = "down"
  /\ restarts < MaxRestarts
  /\ server' = "up"
  /\ restarts' = restarts + 1
  /\ recovering' = \E t \in Tasks : run[t] \in ActiveStatuses
  /\ pc' = [w \in Workers |-> "poll"]
  /\ UNCHANGED <<phase, run, liveCh, fullCh, gateVars, work>>

BootFailingEveryRun ==
  /\ server = "down"
  /\ restarts < MaxRestarts
  /\ server' = "up"
  /\ restarts' = restarts + 1
  /\ recovering' = \E t \in Tasks : run[t] \in ActiveStatuses
  /\ run' = [t \in Tasks |-> IF run[t] = "none" THEN "none" ELSE "failed"]
  /\ pc' = [w \in Workers |-> "poll"]
  /\ UNCHANGED <<phase, liveCh, fullCh, gateVars, work>>

BootCountingAfterFailing ==
  /\ server = "down"
  /\ restarts < MaxRestarts
  /\ server' = "up"
  /\ restarts' = restarts + 1
  /\ run' = [t \in Tasks |-> IF run[t] \in ActiveStatuses THEN "failed" ELSE run[t]]
  /\ recovering' = \E t \in Tasks : run'[t] \in ActiveStatuses
  /\ pc' = [w \in Workers |-> "poll"]
  /\ UNCHANGED <<phase, liveCh, fullCh, gateVars, work>>

\* main.go: FailInterruptedRuns, then NewScheduler and Start; a recovery scan of
\* every project is submitted when some run had been interrupted.
Boot ==
  LET interrupted == {t \in Tasks : run[t] \in ActiveStatuses} IN
  /\ server = "down"
  /\ restarts < MaxRestarts
  /\ server' = "up"
  /\ restarts' = restarts + 1
  /\ recovering' = (interrupted /= {})
  /\ run' = [t \in Tasks |-> IF t \in interrupted THEN "failed" ELSE run[t]]
  /\ pc' = [w \in Workers |-> "poll"]
  /\ UNCHANGED <<phase, liveCh, fullCh, gateVars, work>>

-----------------------------------------------------------------------------
Caller(t) ==
  \/ Admit(t)
  \/ PrepareProjectRun(t)
  \/ RegisterPendingProjectWide(t)
  \/ Enqueue(t)
  \/ QueueFull(t)
  \/ CallerCanceled(t)
  \/ UnregisterPendingProjectWide(t)
  \/ FailPreparedRun(t)

Worker(w) ==
  \/ Poll(w)
  \/ TryFull(w)
  \/ TryLive(w)
  \/ Select(w)
  \/ TryAcquire(w)
  \/ Park(w)
  \/ CancelAcquire(w)
  \/ AbandonTask(w)
  \/ FailAbandonedRun(w)
  \/ BeginRun(w)
  \/ FinishRun(w)
  \/ Checkpoint(w)
  \/ ReleaseProject(w)

Next ==
  \/ \E t \in Tasks : Caller(t)
  \/ \E w \in Workers : Worker(w)
  \/ Stop
  \/ Exit
  \/ Boot

Spec == Init /\ [][Next]_vars

(***************************************************************************)
(* Fairness. The Go runtime runs every goroutine that can run, and a       *)
(* runner returns (FinishRun). A submission once begun goes on; whether it *)
(* begins, whether its caller cancels, and when the process stops, dies or *)
(* is started is up to the environment. The recovery scans are submitted   *)
(* by main.go itself.                                                      *)
(***************************************************************************)
CallerFairness(t) ==
  /\ WF_vars(PrepareProjectRun(t))
  /\ WF_vars(t \in Prepared /\ RegisterPendingProjectWide(t))
  /\ WF_vars(Enqueue(t) \/ QueueFull(t))
  /\ WF_vars(UnregisterPendingProjectWide(t))
  /\ WF_vars(FailPreparedRun(t))
  /\ WF_vars(t \in Recovery /\ Admit(t))

Fairness ==
  /\ \A t \in Tasks : CallerFairness(t)
  /\ \A w \in Workers : WF_vars(Worker(w))

FairSpec == Spec /\ Fairness
=============================================================================
