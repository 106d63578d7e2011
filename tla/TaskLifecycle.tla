--------------------------- MODULE TaskLifecycle ---------------------------
(***************************************************************************)
(* The lifecycle of one Work Task as transitionTask decides it: which      *)
(* status may follow which, who may ask, and what a change writes          *)
(* (internal/projectworkplan/service.go). WorkTasks models the calls that  *)
(* read and write a task with it, AutomationRuns the automation service    *)
(* that drives the task through it.                                        *)
(***************************************************************************)
CONSTANT NoRun  \* the empty run identifier

Finished == {"done", "failed", "cancelled", "superseded"}
Statuses == {"planned", "ready", "claimed", "in_progress", "blocked", "needs_review", "verifying"} \cup Finished

NewTask(status, decomposed) ==
  [status |-> status, claim |-> NoRun, verifiers |-> {}, reviews |-> {},
   exempt |-> FALSE, started |-> FALSE, decomposed |-> decomposed]

AllowedNext(from) ==
  CASE from = "planned"      -> {"ready", "cancelled", "superseded"}
    [] from = "ready"        -> {"claimed", "blocked", "cancelled", "superseded"}
    [] from = "claimed"      -> {"in_progress", "ready", "blocked", "cancelled", "superseded"}
    [] from = "in_progress"  -> {"ready", "blocked", "needs_review", "verifying", "failed", "cancelled", "superseded"}
    [] from = "blocked"      -> {"ready", "cancelled", "superseded"}
    [] from = "needs_review" -> {"ready", "verifying", "done", "failed", "cancelled", "superseded"}
    [] from = "verifying"    -> {"done", "failed", "blocked", "cancelled", "superseded"}
    [] from \in {"done", "failed", "cancelled"} -> {"superseded"}
    [] OTHER                 -> {}

\* The claimant of a verifying task may requeue it after a failed GitOps recovery.
RecoveryRerun(t, run, next) ==
  /\ t.status = "verifying" /\ next = "ready"
  /\ run # NoRun /\ t.claim \in {NoRun, run}

\* transitionTask's checks of the task it has read, up to its first assignment.
\* (A stale release, from verifying or a finished status, returns unchanged.)
Permitted(t, run, next) ==
  /\ \/ RecoveryRerun(t, run, next)
     \/ next \in AllowedNext(t.status) \cup {t.status}
  /\ next = "claimed" => run # NoRun /\ t.claim \in {NoRun, run}
  /\ next = "in_progress" => t.status = "claimed"
  /\ next = "ready" => t.decomposed

\* Faulty.
ChangedKeepingClaim(t, run, next, verifiers, reviews, exempt) ==
  [t EXCEPT !.status = next, !.claim = IF run # NoRun THEN run ELSE @,
            !.verifiers = IF verifiers # {} THEN verifiers ELSE @,
            !.reviews = IF exempt THEN {} ELSE IF reviews # {} THEN reviews ELSE @,
            !.exempt = @ \/ exempt, !.started = @ \/ next = "in_progress"]

\* The task that transitionTask writes: lists given replace those of the task.
Changed(t, run, next, verifiers, reviews, exempt) ==
  [t EXCEPT !.status = next,
            !.claim = IF next = "ready" THEN NoRun ELSE IF run # NoRun THEN run ELSE @,
            !.verifiers = IF verifiers # {} THEN verifiers ELSE @,
            !.reviews = IF exempt THEN {} ELSE IF reviews # {} THEN reviews ELSE @,
            !.exempt = @ \/ exempt,
            !.started = @ \/ next = "in_progress"]

MayBeDone(t) == t.verifiers # {} /\ (t.reviews # {} \/ t.exempt)
=============================================================================
