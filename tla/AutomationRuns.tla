--------------------------- MODULE AutomationRuns ---------------------------
(***************************************************************************)
(* The runs of one automatic automation on one Work Task, driven by        *)
(* external runners (internal/projectautomation/service.go and store/).    *)
(*                                                                         *)
(* A runner polls ClaimNextRun, which first repairs what earlier runs left *)
(* (leases that ran out, tasks that progressed, recoveries used up) and    *)
(* then claims: it starts the task and gives the run a claim and a lease.  *)
(* The runner heartbeats, its agent moves the task, and it reports with    *)
(* CompleteAttempt. These three calls hold claimMu. ListRuns repairs too,  *)
(* and RunNow writes a run twice, both without it.                         *)
(*                                                                         *)
(* Every call reads runs and the task, decides, and writes whole runs; one *)
(* step is at most one write with the reads that come just before it. The  *)
(* task's own calls are atomic here: WorkTasks models their interleavings. *)
(*                                                                         *)
(* Left out: GitOps and review recovery, dirty scopes, governance records, *)
(* other tasks of the plan and the executor inside the server.             *)
(*                                                                         *)
(* Next uses none of the operators under a "Faulty" comment: each is a     *)
(* variant of the definition after it with a plausible bug.                *)
(***************************************************************************)
EXTENDS TaskLifecycle, Integers, FiniteSets, Sequences

CONSTANTS
  Runners,         \* external runner processes
  Clients,         \* clients that list runs and submit them
  MaxRetries,      \* automationMaxRetries: attempts of a run
  MaxReplacements, \* defaultAutomationMaxReplacementRunsPerTask
  MaxRuns,         \* bound: runs created; CreateRun fails after that
  MaxClientCalls,  \* bound: calls of clients
  MaxStamps,       \* bound: claims and lease renewals; such calls fail after that
  MaxFaults,       \* bound: faults
  FaultKinds,      \* bound: the faults that may happen
  OperatorMoves    \* bound: what operators do with the task by hand

ASSUME AutomationRunsAssumption ==
  /\ {MaxRetries, MaxReplacements, MaxRuns, MaxStamps} \subseteq Nat \ {0}
  /\ {MaxClientCalls, MaxFaults} \subseteq Nat
  /\ NoRun \notin 1..MaxRuns
  /\ Runners \cap Clients = {}
  /\ OperatorMoves \subseteq {"requeue", "rerun", "cancel"}
  /\ FaultKinds \subseteq {"cut", "death", "restart"}

VARIABLES
  task,    \* the stored Work Task
  marked,  \* it lists an orchestrator-requeue- or orchestrator-system-fix- run
  forgiven,\* the runs that failed for good before the last write of a marked task
  runs,    \* the stored runs
  call,    \* the call in progress of each runner and client
  runner,  \* what each runner is executing
  stamp,   \* the last claim or lease that was issued
  now,     \* leases up to this stamp have run out
  faults,  \* faults so far
  polls    \* calls of clients so far

vars == <<task, marked, forgiven, runs, call, runner, stamp, now, faults, polls>>

RunIds == 1..MaxRuns
Stamps == 0..MaxStamps
Callers == Runners \cup Clients
Evidence == {"verified"}

RunStatuses == {"absent", "queued", "claiming", "starting", "running", "verifying", "completed",
                "failed", "timeout", "blocked", "policy_denied", "cancelled"}
Active == {"claiming", "starting", "running"}

\* FailureCategory: recoverable is any of isRecoverablePreExecutionFailure, exhausted is
\* pre_execution_recovery_failed_requires_implementation, interrupted external_runner_interrupted.
Categories == {"none", "recoverable", "exhausted", "interrupted", "task_not_ready", "work_task_blocked", "other"}

Run == [
  status    : RunStatuses,
  cat       : Categories,
  automatic : BOOLEAN,              \* isQueuedReplacementRun
  recovery  : BOOLEAN,              \* SafeSummary is pre_execution_recovery
  attempts  : Nat,                  \* AttemptCount
  claim     : Stamps,               \* ClaimID, 0 for none
  lease     : Stamps,               \* LeaseExpiresAt, 0 for none
  seen      : Statuses \cup {"none"}, \* WorkTaskStatus
  old       : BOOLEAN]              \* it is active since before the service started (UpdatedAt)

Task == [status : Statuses, claim : RunIds \cup {NoRun}, verifiers : SUBSET Evidence, reviews : {{}},
         exempt : BOOLEAN, started : BOOLEAN, decomposed : {TRUE}]

Absent == [status |-> "absent", cat |-> "none", automatic |-> FALSE, recovery |-> FALSE,
           attempts |-> 0, claim |-> 0, lease |-> 0, seen |-> "none", old |-> FALSE]

\* A runner executes run under claim; beat is the last lease it was granted, moved
\* says that its agent has moved the task.
Unassigned == [run |-> NoRun, claim |-> 0, beat |-> 0, moved |-> FALSE]

-----------------------------------------------------------------------------
(* Calls in progress. *)

\* What ClaimNextRun does, in order, and what ListRuns does.
ClaimPhases ==
  <<"starting", "running", "verifying", "interrupted", "recoverable", "exhausted", "repair", "recover",
    "starting", "ready", "queued",
    "running", "verifying", "interrupted", "recoverable", "exhausted", "repair", "starting", "ready", "queued">>
ListPhases == <<"running", "verifying">>

Phases(p) == IF p \in Clients THEN ListPhases ELSE ClaimPhases

\* A call in progress: at is its next step, in phase number phase, with the copies todo of
\* the runs this phase has left. id and run are the run in hand and its copy, seen is the
\* task status the call goes by and pardoned the failures that this copy of the task leaves
\* uncounted, stamp the claim or lease it has issued, and then the step after a put.
Step(at, phase, todo, id, run, seen, st, then) ==
  [at |-> at, phase |-> phase, todo |-> todo, id |-> id, run |-> run, seen |-> seen, pardoned |-> {},
   stamp |-> st, then |-> then]

AtPhase(n) == Step("list", n, {}, NoRun, Absent, "none", 0, "next")
Idle == Step("idle", 0, {}, NoRun, Absent, "none", 0, "next")

Phase(p) == Phases(p)[call[p].phase]

\* After the run in hand the call goes on with the next one, or the next phase.
GoOn(c) == IF c.todo = {} THEN AtPhase(c.phase + 1)
           ELSE Step("each", c.phase, c.todo, NoRun, Absent, "none", 0, "next")

\* An error ends a ClaimNextRun, and only the phase of a ListRuns.
Fail(p) == IF p \in Clients THEN AtPhase(call[p].phase + 1) ELSE Idle

Goto(p, c) == call' = [call EXCEPT ![p] = c]

Locked == \E w \in Runners : call[w].at # "idle"

-----------------------------------------------------------------------------
(* Runs. *)

\* UpdateRun, with the store's shouldPreserveExistingRun.
Stored(existing, next) ==
  IF next.status = "running" /\ existing.status # "failed" /\ next.recovery
  THEN existing ELSE [next EXCEPT !.old = FALSE]

\* Faulty: a lease runs out one step too early.
AbandonedEarly(r) == (r.lease # 0 /\ r.lease <= now + 1) \/ r.old

\* Faulty: only a restart of the service abandons a run.
AbandonedByRestart(r) == r.old

\* externalRunLeaseExpired, or runStartedBeforeService
Abandoned(r) == (r.lease # 0 /\ r.lease <= now) \/ r.old

Terminal == {"blocked", "failed", "cancelled", "superseded"}
Held == {"ready", "claimed", "in_progress"}
Handed == {"needs_review", "verifying"}

CompletedCopy(r, s) == [r EXCEPT !.status = "completed", !.seen = s, !.recovery = FALSE, !.cat = "none"]

TerminalCopy(r, s) ==
  [r EXCEPT !.seen = s, !.recovery = FALSE,
            !.status = IF s \in {"blocked", "failed"} THEN s ELSE "cancelled",
            !.cat = IF s = "blocked" THEN "work_task_blocked" ELSE "other"]

VerifyingCopy(r, s) == [r EXCEPT !.status = "verifying", !.seen = s, !.recovery = FALSE, !.cat = "none"]

InterruptedCopy(r, s) == [r EXCEPT !.status = "timeout", !.seen = s, !.recovery = FALSE, !.cat = "interrupted"]

\* Faulty: status and category in the wrong order.
FailedCopySwapped(r, status, cat) == [r EXCEPT !.status = cat, !.cat = status]

FailedCopy(r, status, cat) == [r EXCEPT !.status = status, !.cat = cat]

\* applyExternalClaim with the attempt it starts.
RunningCopy(r, recovering) ==
  [r EXCEPT !.status = "running", !.seen = "in_progress", !.cat = "none", !.attempts = @ + 1,
            !.recovery = @ \/ recovering, !.claim = stamp + 1, !.lease = stamp + 1]

CanRetry(r) == r.attempts < MaxRetries

\* Whether a run leaves room for a replacement when the task is seen with status s.
Replaceable(r, s) ==
  \/ r.status = "failed" /\ r.cat \in {"recoverable", "exhausted"}
  \/ r.status = "timeout" /\ r.cat = "interrupted"
  \/ s = "ready" /\ r.status = "policy_denied" /\ r.cat = "task_not_ready"
  \/ s = "ready" /\ r.status = "blocked" /\ r.cat = "work_task_blocked"

Existing == {id \in RunIds : runs[id].status # "absent"}
TerminalFailures == {id \in RunIds : runs[id].status = "failed" /\ runs[id].cat = "exhausted"}

\* countTerminalReplacementFailures, for a copy of the task that pardons some: a marked task
\* counts only the failures stored after its own last write.
Counted(pardoned) == TerminalFailures \ (pardoned \cap forgiven)

\* Faulty: one replacement too many.
LimitPassed(pardoned) == Cardinality(Counted(pardoned)) > MaxReplacements

LimitReached(pardoned) == Cardinality(Counted(pardoned)) >= MaxReplacements

\* What a write of the task does to UpdatedAt and the marker; every write is later than all
\* failures stored so far. Other writes than the modelled ones do the same and are left out.
Refresh(mark) ==
  /\ marked' = mark
  /\ forgiven' = IF mark THEN TerminalFailures ELSE {}

-----------------------------------------------------------------------------
(* What a phase does with a run: [at, run, seen, then], or nothing. *)

Do(at, r, s, then) == [at |-> at, run |-> r, seen |-> s, then |-> then]
Nothing(r, s) == Do("pass", r, s, "next")

\* Faulty: the run is completed before its task is.
VerifyingStepEarly(r, s) ==
  IF s \in Handed \cup {"done"} /\ MayBeDone(task) THEN Do("put", CompletedCopy(r, s), s, "next") ELSE Nothing(r, s)

\* reconcileVerifyingRun
VerifyingStep(r, s) ==
  CASE s = "done"     -> Do("put", CompletedCopy(r, s), s, "next")
    [] s \in Terminal -> Do("put", TerminalCopy(r, s), s, "next")
    [] s \in Handed /\ MayBeDone(task) -> Do("close", r, s, "next")
    [] OTHER -> IF r.seen = s THEN Nothing(r, s) ELSE Do("put", [r EXCEPT !.seen = s], s, "next")

\* What reconcileInterruptedRunsWithProgressedTasks and reconcileRecoverablePreExecutionRuns
\* do with a run that ended while its task went on.
ProgressedStep(id, r, s) ==
  CASE task.claim # id -> Nothing(r, s)
    [] task.claim = id /\ s = "done"     -> Do("put", CompletedCopy(r, s), s, "next")
    [] task.claim = id /\ s \in Terminal -> Do("put", TerminalCopy(r, s), s, "next")
    [] task.claim = id /\ s \in Handed   -> Do("put", VerifyingCopy(r, s), s, "verify")
    [] OTHER -> Nothing(r, s)

\* reconcileRunningRun
RunningStep(r, s) ==
  CASE s = "done"     -> Do("put", CompletedCopy(r, s), s, "next")
    [] s \in Terminal -> Do("put", TerminalCopy(r, s), s, "next")
    [] s \in Handed   -> Do("put", VerifyingCopy(r, s), s, "verify")
    [] OTHER -> IF Abandoned(r) THEN Do("recheck", r, s, "next")
                ELSE IF r.status = "running" /\ r.seen # s THEN Do("put", [r EXCEPT !.seen = s], s, "next")
                ELSE Nothing(r, s)

\* claimInterruptedStartingRun: a run that lost its claimer before it was claimed.
StartingStep(id, r, s) ==
  IF r.claim # 0 \/ r.lease # 0 \/ task.claim # id \/ s \notin Held THEN Nothing(r, s)
  ELSE Do(IF s = "in_progress" THEN "grant" ELSE "start", r, s, "next")

\* claimPreExecutionRecovery
RecoverStep(id, r, s) ==
  IF ~CanRetry(r) \/ task.claim \notin {NoRun, id} \/ ~(s = "ready" \/ (s \in {"claimed", "in_progress"} /\ task.claim = id))
  THEN Nothing(r, s)
  ELSE Do(IF task.claim # id THEN "claim" ELSE IF s = "in_progress" THEN "grant" ELSE "start", r, s, "next")

\* prepareRunForExecution, up to its first write.
PrepareStep(r, s) ==
  CASE r.automatic /\ LimitReached(forgiven) -> Do("block", r, s, "next")
    [] ~(r.automatic /\ LimitReached(forgiven)) /\ s # "ready" -> Do("put", FailedCopy(r, "policy_denied", "task_not_ready"), s, "next")
    [] OTHER -> Do("put", [r EXCEPT !.status = "claiming", !.seen = s], s, "claim")

Picks(phase, r) ==
  CASE phase = "starting"    -> r.status \in {"claiming", "starting"}
    [] phase = "running"     -> r.status \in Active
    [] phase = "verifying"   -> r.status = "verifying"
    [] phase = "interrupted" -> r.status = "timeout" /\ r.cat = "interrupted"
    [] phase \in {"recoverable", "exhausted", "recover"} -> r.status \in {"failed", "blocked"} /\ r.cat = "recoverable"
    [] phase = "repair"      -> r.status = "failed" /\ r.cat = "exhausted" /\ r.seen = "ready"
    [] phase = "queued"      -> r.status = "queued"
    [] OTHER                 -> FALSE

Decide(phase, id, r) ==
  LET s == task.status
  IN  CASE phase = "starting"    -> StartingStep(id, r, s)
        [] phase = "running"     -> RunningStep(r, s)
        [] phase = "verifying"   -> VerifyingStep(r, s)
        [] phase \in {"interrupted", "recoverable"} -> ProgressedStep(id, r, s)
        [] phase = "exhausted"   -> IF CanRetry(r) \/ task.claim # id \/ s \notin Held THEN Nothing(r, s)
                                    ELSE Do("release", r, s, "next")
        [] phase = "repair"      -> IF task.claim # id \/ s \in {"ready", "done"} \cup Terminal THEN Nothing(r, s)
                                    ELSE Do("release", r, s, "next")
        [] phase = "recover"     -> RecoverStep(id, r, s)
        [] OTHER                 -> PrepareStep(r, s)

-----------------------------------------------------------------------------
(* The steps of a call. *)

\* ClaimNextRun and ListRuns. The lists of runs that find none are passed over in one step.
BeginClaim(w) ==
  /\ ~Locked /\ runner[w] = Unassigned
  /\ Goto(w, AtPhase(1))
  /\ UNCHANGED <<task, marked, forgiven, runs, runner, stamp, now, faults, polls>>

BeginList(l) ==
  /\ call[l] = Idle
  /\ polls < MaxClientCalls /\ polls' = polls + 1
  /\ Goto(l, AtPhase(1))
  /\ UNCHANGED <<task, marked, forgiven, runs, runner, stamp, now, faults>>

Picked(phase) == {id \in RunIds : Picks(phase, runs[id])}

\* A phase has work: runs to look at, or a ready task to queue a run for.
HasWork(phase) == Picked(phase) # {} \/ (phase = "ready" /\ task.status = "ready")

List(p) ==
  /\ call[p].at = "list"
  /\ LET later == {n \in call[p].phase..Len(Phases(p)) : HasWork(Phases(p)[n])}
     IN  IF later = {} THEN Goto(p, Idle)
         ELSE LET n == CHOOSE n \in later : \A m \in later : n <= m
                  phase == Phases(p)[n]
              IN  Goto(p, IF phase = "ready"
                          THEN [Step("queue", n, {}, NoRun, Absent, task.status, 0, "next") EXCEPT !.pardoned = forgiven]
                          ELSE Step("each", n, {<<id, runs[id]>> : id \in Picked(phase)}, NoRun, Absent, "none", 0, "next"))
  /\ UNCHANGED <<task, marked, forgiven, runs, runner, stamp, now, faults, polls>>

\* The next run of a phase, in any order (the code's is that of UpdatedAt), with the
\* task as it is now.
Each(p) ==
  /\ call[p].at = "each"
  /\ \E item \in call[p].todo :
       LET d    == Decide(Phase(p), item[1], item[2])
           rest == [call[p] EXCEPT !.todo = @ \ {item}]
       IN  Goto(p, IF d.at = "pass" THEN GoOn(rest)
                   ELSE [rest EXCEPT !.at = d.at, !.id = item[1], !.run = d.run, !.seen = d.seen, !.then = d.then])
  /\ UNCHANGED <<task, marked, forgiven, runs, runner, stamp, now, faults, polls>>

\* UpdateRun. A claim that the store did not take is not answered, except by
\* prepareRunForExecution.
Put(p) ==
  /\ call[p].at = "put"
  /\ LET c == call[p]
         stored == Stored(runs[c.id], c.run)
         rest == [c EXCEPT !.run = stored, !.at = c.then, !.then = "next"]
     IN  /\ runs' = [runs EXCEPT ![c.id] = stored]
         /\ forgiven' = forgiven \ {c.id}
         /\ Goto(p, CASE c.then = "next" -> GoOn(c)
                      [] c.then = "reply" /\ Phase(p) \in {"starting", "recover"} /\ stored.claim # c.stamp -> GoOn(c)
                      [] OTHER -> rest)
  /\ UNCHANGED <<task, marked, runner, stamp, now, faults, polls>>

\* reconcileVerifyingRun, from another phase or a report.
Verify(p) ==
  /\ call[p].at = "verify"
  /\ LET c == call[p]
         d == VerifyingStep(c.run, task.status)
     IN  Goto(p, IF c.run.status # "verifying" \/ d.at = "pass" THEN GoOn(c)
                 ELSE [c EXCEPT !.at = d.at, !.run = d.run, !.seen = d.seen, !.then = d.then])
  /\ UNCHANGED <<task, marked, forgiven, runs, runner, stamp, now, faults, polls>>

\* CompleteWorkTask, then completeRunAfterTaskDone.
Close(p) ==
  /\ call[p].at = "close"
  /\ LET c == call[p]
         new == Changed(task, c.id, "done", {}, {}, FALSE)
     IN  IF Permitted(task, c.id, "done") /\ MayBeDone(new)
         THEN /\ task' = new /\ Refresh(marked)
              /\ Goto(p, [c EXCEPT !.at = "put", !.run = CompletedCopy(c.run, "done"), !.seen = "done"])
         ELSE UNCHANGED <<task, marked, forgiven>> /\ Goto(p, Fail(p))
  /\ UNCHANGED <<runs, runner, stamp, now, faults, polls>>

SameRun(current, r) == current.status = r.status /\ current.claim = r.claim /\ current.lease = r.lease

\* Faulty: the run is timed out and its task stays with it.
RecheckKeepingTask(p) ==
  /\ call[p].at = "recheck"
  /\ Goto(p, [call[p] EXCEPT !.at = "put", !.run = InterruptedCopy(@, call[p].seen), !.then = "next"])
  /\ UNCHANGED <<task, marked, forgiven, runs, runner, stamp, now, faults, polls>>

\* requeueAbandonedRunningRun reads the run again before it times it out.
Recheck(p) ==
  /\ call[p].at = "recheck"
  /\ LET c == call[p]
         current == runs[c.id]
     IN  Goto(p, IF SameRun(current, c.run)
                 THEN [c EXCEPT !.at = "put", !.run = InterruptedCopy(current, c.seen), !.then = "release"]
                 ELSE GoOn(c))
  /\ UNCHANGED <<task, marked, forgiven, runs, runner, stamp, now, faults, polls>>

\* UpdateWorkTaskStatus(ready) by a call for run id: a late release changes nothing.
ReleaseIsStale == task.status \in {"verifying"} \cup Finished
Released(id) == IF ReleaseIsStale THEN task ELSE Changed(task, id, "ready", {}, {}, FALSE)

\* The task is released for another run: of a run that was timed out, whose recoveries are
\* used up (its failure is stored next), or whose earlier release was overtaken.
Release(p) ==
  /\ call[p].at = "release"
  /\ LET c == call[p]
         new == Released(c.id)
     IN  IF ReleaseIsStale \/ Permitted(task, c.id, "ready")
         THEN /\ task' = new
              /\ IF ReleaseIsStale THEN UNCHANGED <<marked, forgiven>> ELSE Refresh(marked)
              /\ Goto(p, IF Phase(p) = "exhausted"
                         THEN [c EXCEPT !.at = "put", !.seen = new.status, !.pardoned = forgiven', !.then = "queue",
                                        !.run = [FailedCopy(@, "failed", "exhausted") EXCEPT !.seen = new.status, !.recovery = FALSE]]
                         ELSE [c EXCEPT !.at = "queue", !.seen = new.status, !.pardoned = forgiven', !.run = Absent])
         ELSE /\ UNCHANGED <<task, marked, forgiven>>
              /\ Goto(p, IF Phase(p) = "running" THEN GoOn(c) ELSE Fail(p))
  /\ UNCHANGED <<runs, runner, stamp, now, faults, polls>>

\* queueReadyDependentAutomation, for the task as the call has seen it.
Queue(p) ==
  /\ call[p].at = "queue"
  /\ LET c == call[p]
         blocking == \E id \in Existing : runs[id].status \in Active \cup {"queued", "verifying"} /\ ~runs[id].automatic
     IN  Goto(p, CASE blocking -> GoOn(c)
                   [] ~blocking /\ LimitReached(c.pardoned) -> [c EXCEPT !.at = "block"]
                   [] ~blocking /\ ~LimitReached(c.pardoned) /\ \E id \in Existing : ~Replaceable(runs[id], c.seen) -> GoOn(c)
                   [] OTHER -> [c EXCEPT !.at = "create"])
  /\ UNCHANGED <<task, marked, forgiven, runs, runner, stamp, now, faults, polls>>

NewRun(automatic) == [Absent EXCEPT !.status = "queued", !.automatic = automatic]

\* CreateRun, with the next identifier.
Created(automatic) ==
  IF Existing = RunIds THEN runs
  ELSE [runs EXCEPT ![CHOOSE id \in RunIds \ Existing : \A other \in RunIds \ Existing : id <= other] = NewRun(automatic)]

Create(p) ==
  /\ call[p].at = "create"
  /\ runs' = Created(TRUE)
  /\ Goto(p, GoOn(call[p]))
  /\ UNCHANGED <<task, marked, forgiven, runner, stamp, now, faults, polls>>

\* blockTaskAfterReplacementRetryLimit; the queued run that met the limit is blocked too.
Block(p) ==
  /\ call[p].at = "block"
  /\ LET c == call[p]
         blocked == [FailedCopy(c.run, "blocked", "other") EXCEPT !.seen = "blocked", !.recovery = FALSE]
     IN  IF Permitted(task, NoRun, "blocked")
         THEN /\ task' = Changed(task, NoRun, "blocked", {}, {}, FALSE) /\ Refresh(marked)
              /\ Goto(p, IF Phase(p) = "queued" THEN [c EXCEPT !.at = "put", !.run = blocked] ELSE GoOn(c))
         ELSE /\ UNCHANGED <<task, marked, forgiven>>
              /\ Goto(p, IF Phase(p) \in {"ready", "repair"} THEN Fail(p) ELSE GoOn(c))
  /\ UNCHANGED <<runs, runner, stamp, now, faults, polls>>

\* ClaimWorkTask, by prepareRunForExecution and by a recovery.
Claim(p) ==
  /\ call[p].at = "claim"
  /\ LET c == call[p]
         starting == [c EXCEPT !.at = "put", !.run = [@ EXCEPT !.status = "starting", !.seen = "claimed"], !.then = "start"]
         blocked  == [c EXCEPT !.at = "put", !.run = FailedCopy(@, "blocked", "recoverable")]
     IN  IF Permitted(task, c.id, "claimed")
         THEN /\ task' = Changed(task, c.id, "claimed", {}, {}, FALSE) /\ Refresh(marked)
              /\ Goto(p, IF Phase(p) = "queued" THEN starting ELSE [c EXCEPT !.at = "start"])
         ELSE /\ UNCHANGED <<task, marked, forgiven>>
              /\ Goto(p, IF Phase(p) = "queued" THEN blocked ELSE GoOn(c))
  /\ UNCHANGED <<runs, runner, stamp, now, faults, polls>>

\* StartWorkTask
Start(p) ==
  /\ call[p].at = "start"
  /\ LET c == call[p]
         blocked == [c EXCEPT !.at = "put", !.run = FailedCopy(@, "blocked", "recoverable")]
     IN  IF Permitted(task, c.id, "in_progress")
         THEN /\ task' = Changed(task, c.id, "in_progress", {}, {}, FALSE) /\ Refresh(marked)
              /\ Goto(p, [c EXCEPT !.at = "grant"])
         ELSE /\ UNCHANGED <<task, marked, forgiven>>
              /\ Goto(p, IF Phase(p) = "queued" THEN blocked ELSE GoOn(c))
  /\ UNCHANGED <<runs, runner, stamp, now, faults, polls>>

\* The claim id and lease that the started run is stored with.
Grant(p) ==
  /\ call[p].at = "grant"
  /\ IF stamp < MaxStamps
     THEN /\ stamp' = stamp + 1
          /\ Goto(p, [call[p] EXCEPT !.at = "put", !.run = RunningCopy(@, Phase(p) = "recover"),
                                     !.stamp = stamp + 1, !.then = "reply"])
     ELSE UNCHANGED stamp /\ Goto(p, Idle)
  /\ UNCHANGED <<task, marked, forgiven, runs, runner, now, faults, polls>>

\* The runner has the claimed run.
Reply(w) ==
  /\ call[w].at = "reply"
  /\ runner' = [runner EXCEPT ![w] = [run |-> call[w].id, claim |-> call[w].stamp, beat |-> call[w].stamp, moved |-> FALSE]]
  /\ Goto(w, Idle)
  /\ UNCHANGED <<task, marked, forgiven, runs, stamp, now, faults, polls>>

-----------------------------------------------------------------------------
(* Runners and their agents. *)

\* A call of runner w that is not a claim: it ends after its last step.
Locking(w, at, id, r, st, then) == Step(at, Len(ClaimPhases), {}, id, r, "none", st, then)

\* HeartbeatRun's checks.
MayRenew(r, claim) == r.status \in Active /\ r.claim # 0 /\ r.claim = claim

\* HeartbeatRun, up to its write; a rejected heartbeat changes nothing and the runner
\* ignores it.
Beat(w) ==
  /\ runner[w] # Unassigned /\ stamp < MaxStamps
  /\ LET id == runner[w].run
     IN  /\ MayRenew(runs[id], runner[w].claim)
         /\ stamp' = stamp + 1
         /\ Goto(w, Locking(w, "put", id, [runs[id] EXCEPT !.lease = stamp + 1], stamp + 1, "renewed"))
  /\ UNCHANGED <<task, marked, forgiven, runs, runner, now, faults, polls>>

\* Faulty: without claimMu.
HeartbeatUnlocked(w) == call[w] = Idle /\ Beat(w)

Heartbeat(w) == ~Locked /\ Beat(w)

\* The runner knows that the heartbeat was accepted.
Renewed(w) ==
  /\ call[w].at = "renewed"
  /\ runner' = [runner EXCEPT ![w] = IF @ = Unassigned THEN @ ELSE [@ EXCEPT !.beat = call[w].stamp]]
  /\ Goto(w, Idle)
  /\ UNCHANGED <<task, marked, forgiven, runs, stamp, now, faults, polls>>

\* The agent of runner w hands the task in, with evidence or without, blocks it or fails it.
AgentMoves(w) ==
  /\ runner[w] # Unassigned /\ call[w] = Idle
  /\ \E next \in {"needs_review", "verifying", "blocked", "failed"}, proof \in {{}, Evidence} :
       /\ proof # {} => next \in Handed
       /\ Permitted(task, runner[w].run, next)
       /\ task' = Changed(task, runner[w].run, next, proof, {}, proof # {})
  /\ task' # task /\ Refresh(marked)
  /\ runner' = [runner EXCEPT ![w].moved = TRUE]
  /\ UNCHANGED <<runs, call, stamp, now, faults, polls>>

\* What a runner reports, as status and category. It reports completion only of a task
\* that has its closeout, and a failure before execution only if no agent has run.
Reports(w) ==
  {o \in {<<"completed", "none">>, <<"failed", "recoverable">>, <<"failed", "other">>, <<"timeout", "other">>} :
     /\ o[1] = "completed" => runner[w].moved /\ task.status \in Handed \cup {"done"} /\ MayBeDone(task)
     /\ o[2] = "recoverable" => ~runner[w].moved}

\* CompleteAttempt has the outcome already, or cannot take it.
Recorded(r, id, status, claim) ==
  \/ r.status = status /\ r.claim \in {0, claim}
  \/ /\ status = "failed" /\ r.status \in {"verifying", "completed"}
     /\ task.claim = id /\ task.status \in Handed \cup {"done"}

\* Faulty: the report of a run that is over is taken too.
AcceptedLate(r, id, status, claim) == r.claim \in {0, claim}

Accepted(r, id, status, claim) ==
  \/ r.status = "running" /\ r.claim \in {0, claim}
  \/ r.status \in {"claiming", "starting"} /\ task.claim = id
  \/ status = "completed" /\ r.status = "verifying"
  \/ /\ status = "completed" /\ r.status = "blocked" /\ r.cat = "recoverable"
     /\ task.claim = id /\ task.status \in Handed \cup {"done"}

\* CompleteAttempt, up to its write. The runner makes one report and goes on.
Report(w) ==
  /\ ~Locked /\ runner[w] # Unassigned
  /\ \E o \in Reports(w) :
       LET id  == runner[w].run
           r   == runs[id]
           new == IF o[1] = "completed" THEN [VerifyingCopy(r, r.seen) EXCEPT !.cat = o[2]] ELSE FailedCopy(r, o[1], o[2])
       IN  IF ~(r.status # "running" /\ Recorded(r, id, o[1], runner[w].claim)) /\ Accepted(r, id, o[1], runner[w].claim)
           THEN Goto(w, Locking(w, "put", id, new, 0, "durable"))
           ELSE UNCHANGED call
  /\ runner' = [runner EXCEPT ![w] = Unassigned]
  /\ UNCHANGED <<task, marked, forgiven, runs, stamp, now, faults, polls>>

\* CompleteAttempt reads the run again and then closes a completed one.
Durable(w) ==
  /\ call[w].at = "durable"
  /\ LET c == call[w]
         r == runs[c.id]
     IN  Goto(w, IF r.status = "verifying" /\ r.cat = c.run.cat /\ r.claim = c.run.claim /\ c.run.status = "verifying"
                 THEN [c EXCEPT !.at = "verify", !.run = r] ELSE Idle)
  /\ UNCHANGED <<task, marked, forgiven, runs, runner, stamp, now, faults, polls>>

-----------------------------------------------------------------------------
(* Clients, reviewers, time and faults. *)

\* RunNow: SubmitRun creates the run, and the call then writes its copy again.
Submit(l) ==
  /\ call[l] = Idle
  /\ polls < MaxClientCalls /\ polls' = polls + 1
  /\ Existing # RunIds
  /\ runs' = Created(FALSE)
  /\ \E id \in RunIds \ Existing :
       /\ runs'[id] # Absent
       /\ Goto(l, Step("put", Len(ListPhases), {}, id, NewRun(FALSE), "none", 0, "next"))
  /\ UNCHANGED <<task, marked, forgiven, runner, stamp, now, faults>>

\* Another agent supplies what a task that was handed in lacks.
Reviewed ==
  /\ task.status \in Handed /\ ~MayBeDone(task)
  /\ task' = Changed(task, NoRun, "verifying", Evidence, {}, TRUE) /\ Refresh(marked)
  /\ UNCHANGED <<runs, call, runner, stamp, now, faults, polls>>

\* An operator requeues a blocked task, as a rerun under a run id with an orchestrator prefix
\* or not, or cancels a task.
Operator ==
  /\ \E move \in OperatorMoves :
       LET next == IF move = "cancel" THEN "cancelled" ELSE "ready"
       IN  /\ next = "ready" => task.status = "blocked"
           /\ task.status # next /\ Permitted(task, NoRun, next)
           /\ task' = Changed(task, NoRun, next, {}, {}, FALSE)
           /\ Refresh(marked \/ move = "rerun")
  /\ UNCHANGED <<runs, call, runner, stamp, now, faults, polls>>

TimePasses ==
  /\ now < stamp
  /\ now' = now + 1
  /\ UNCHANGED <<task, marked, forgiven, runs, call, runner, stamp, faults, polls>>

Fault(kind) == kind \in FaultKinds /\ faults < MaxFaults /\ faults' = faults + 1

\* The request is cancelled, the store fails or the answer is lost.
Cut(p) ==
  /\ call[p] # Idle /\ Fault("cut")
  /\ Goto(p, Idle)
  /\ UNCHANGED <<task, marked, forgiven, runs, runner, stamp, now, polls>>

RunnerDies(w) ==
  /\ runner[w] # Unassigned /\ Fault("death")
  /\ runner' = [runner EXCEPT ![w] = Unassigned]
  /\ UNCHANGED <<task, marked, forgiven, runs, call, stamp, now, polls>>

\* The service stops in the middle of its calls and starts again.
Restart ==
  /\ Fault("restart")
  /\ call' = [p \in Callers |-> Idle]
  /\ runs' = [id \in RunIds |-> [runs[id] EXCEPT !.old = runs[id].status \in Active]]
  /\ UNCHANGED <<task, marked, forgiven, runner, stamp, now, polls>>

-----------------------------------------------------------------------------
Init ==
  /\ task = NewTask("ready", TRUE) /\ marked = FALSE /\ forgiven = {}
  /\ runs = [id \in RunIds |-> Absent]
  /\ call = [p \in Callers |-> Idle]
  /\ runner = [w \in Runners |-> Unassigned]
  /\ stamp = 0 /\ now = 0 /\ faults = 0 /\ polls = 0

Continue(p) ==
  \/ List(p) \/ Each(p) \/ Put(p) \/ Verify(p) \/ Close(p) \/ Recheck(p) \/ Release(p)
  \/ Queue(p) \/ Create(p) \/ Block(p)

ContinueRunner(w) ==
  Continue(w) \/ Claim(w) \/ Start(w) \/ Grant(w) \/ Reply(w) \/ Renewed(w) \/ Durable(w)

Next ==
  \/ \E w \in Runners :
       \/ BeginClaim(w) \/ ContinueRunner(w)
       \/ Heartbeat(w) \/ AgentMoves(w) \/ Report(w) \/ RunnerDies(w)
  \/ \E l \in Clients : BeginList(l) \/ Submit(l) \/ Continue(l)
  \/ Reviewed \/ Operator \/ TimePasses \/ Restart
  \/ \E p \in Callers : Cut(p)

\* The service works its calls off, runners poll and end what they execute (an agent's
\* run time is limited), and time passes. claimMu does not starve a caller.
Fairness ==
  /\ WF_vars(\E w \in Runners : ContinueRunner(w))
  /\ \A w \in Runners : SF_vars(Report(w))
  /\ \A l \in Clients : WF_vars(Continue(l))
  /\ WF_vars(\E w \in Runners : BeginClaim(w))
  /\ WF_vars(TimePasses)

Spec == Init /\ [][Next]_vars
FairSpec == Spec /\ Fairness
=============================================================================
