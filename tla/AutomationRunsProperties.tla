----------------------- MODULE AutomationRunsProperties -----------------------
(***************************************************************************)
(* What the automation service promises of the runs of one task.           *)
(***************************************************************************)
EXTENDS AutomationRuns

Steps == {"idle", "list", "each", "pass", "put", "verify", "close", "recheck", "release", "queue", "create",
          "block", "claim", "start", "grant", "reply", "renewed", "durable", "next"}

Call == [at : Steps, phase : 0..(Len(ClaimPhases) + 1), todo : SUBSET (RunIds \X Run), id : RunIds \cup {NoRun},
         run : Run, seen : Statuses \cup {"none"}, pardoned : SUBSET RunIds, stamp : Stamps, then : Steps]

\* The stored task and runs, the copies that calls hold of them and what the runners know
\* are well formed (model.go; FailureCategory and Status are not mixed up on the way).
TypeOK ==
  /\ task \in Task /\ marked \in BOOLEAN /\ forgiven \in SUBSET RunIds
  /\ runs \in [RunIds -> Run]
  /\ call \in [Callers -> Call]
  /\ runner \in [Runners -> [run : RunIds \cup {NoRun}, claim : Stamps, beat : Stamps, moved : BOOLEAN]]
  /\ stamp \in Stamps /\ now \in Stamps
  /\ faults \in 0..MaxFaults /\ polls \in 0..MaxClientCalls

-----------------------------------------------------------------------------
(* Safety. *)

\* A run is recorded as completed only when its Work Task is done, whichever of
\* CompleteAttempt, reconcileRunningRun, reconcileVerifyingRun and the recovery phases
\* recorded it, with faults and unlocked ListRuns calls in between.
CompletedMeansDone == \A id \in RunIds : runs[id].status = "completed" => task.status = "done"

\* As long as runs change only under claimMu and no operator offers a blocked task again, at
\* most one run is starting or running for the task: an abandoned run is out before its
\* replacement starts (requeueAbandonedRunningRun, queueReadyDependentAutomation, HeartbeatRun).
OneActiveOwner == Cardinality({id \in RunIds : runs[id].status \in {"starting", "running"}}) <= 1

\* Of the runs that the service queued by itself, no more fail for good than replacements are
\* allowed (replacementRetryLimitReached): the next is blocked with its task, 'Automatic
\* replacements stop at the configured cap'. A task that lists an orchestrator requeue or
\* system fix, an explicit rerun that the cap must not block, counts only the failures since
\* its own last write (countTerminalReplacementFailures), and so does this property. Under
\* the conditions of OneActiveOwner it holds for any number of attempts; where a run is not
\* tried again, clients may submit runs, two calls queue a replacement at once and operators
\* offer the task again.
ReplacementsCapped == Cardinality({id \in Counted(forgiven) : runs[id].automatic}) <= MaxReplacements

-----------------------------------------------------------------------------
(* Heartbeats. *)

\* Runner w executes an active run, and its last accepted claim or heartbeat has not run out.
Fresh(w) ==
  LET id == runner[w].run
  IN  /\ runner[w] # Unassigned /\ runner[w].beat > now
      /\ runs[id].status \in Active /\ runs[id].claim = runner[w].claim /\ ~runs[id].old

\* The documented claim: a live runner with fresh heartbeat is never expired
\* (requeueAbandonedRunningRun never times its run out).
FreshRunnersNotExpired ==
  [][\A w \in Runners : Fresh(w) => runs'[runner[w].run].cat # "interrupted"]_vars

\* The claim holds of every run but those started again by claimPreExecutionRecovery.
FreshRunnersKeepTheirRuns ==
  [][\A w \in Runners : Fresh(w) /\ ~runs[runner[w].run].recovery => runs'[runner[w].run].cat # "interrupted"]_vars

-----------------------------------------------------------------------------
(* Refinement. *)

Recoverable(r) == r.status \in {"failed", "blocked"} /\ r.cat = "recoverable"

\* A run that is to be started, is executed or may be tried again.
Pending(r) == r.status \in {"queued"} \cup Active \/ (Recoverable(r) /\ CanRetry(r))

Stage(r) ==
  CASE r.status = "absent"  -> "none"
    [] r.status = "running" -> "executing"
    [] r.status # "running" /\ Pending(r) -> "waiting"
    [] OTHER -> "over"

Succession == INSTANCE RunSuccession WITH
  Ids <- RunIds, MaxTries <- MaxRetries,
  stage <- [id \in RunIds |-> Stage(runs[id])], tries <- [id \in RunIds |-> runs[id].attempts]

\* With copies of runs, leases, late reports and the repairs of every ClaimNextRun, the runs
\* of the task still succeed one another (queueReadyDependentAutomation, CompleteAttempt,
\* claimPreExecutionRecovery), under the conditions of OneActiveOwner.
ImplementsSuccession == Succession!Spec

-----------------------------------------------------------------------------
(* Progress, of runners that may die. *)

\* The bound on claims keeps the run from being claimed.
Refused(id) == stamp = MaxStamps /\ (runs[id].claim = 0 \/ runs[id].cat = "recoverable")

\* Every run that was claimed settles: it is verified, ends, or is timed out when its
\* runner is gone, in a poll of whichever runner comes next (reconcileRunningRuns).
ActiveRunsSettle ==
  \A id \in RunIds : runs[id].status \in Active ~> runs[id].status \notin Active \/ Refused(id)

\* The task is held by a run whose runner has not reported a failure that is left to an operator.
TaskHeld ==
  \E id \in RunIds :
    /\ task.claim = id /\ task.status \in {"claimed", "in_progress"}
    /\ runs[id].cat # "other" /\ ~Refused(id)

\* A dead or failed runner does not hold its task forever: the task is handed on, released
\* for another run or blocked (requeueAbandonedRunningRun, reconcileExhaustedPreExecution,
\* claimPreExecutionRecovery).
HeldTasksMoveOn == TaskHeld ~> ~TaskHeld
=============================================================================
