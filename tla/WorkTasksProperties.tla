------------------------- MODULE WorkTasksProperties -------------------------
(***************************************************************************)
(* What the gates of a Work Task promise, although calls overlap.          *)
(***************************************************************************)
EXTENDS WorkTasks

\* Stored tasks, attachments and the copies that calls hold are well formed.
TypeOK ==
  /\ task \in WorkTask
  /\ attachments \subseteq Reviews
  /\ call \in [Callers -> Calls]

\* The task t passes the completion gate, given the attachments known.
Gated(t, known) ==
  /\ t.verifiers # {}
  /\ \/ t.exempt
     \/ \E a \in known :
          a.ref \in t.reviews /\ (t.claim = NoRun \/ a.by \notin {NoRun, t.claim})

\* A done task has a verifier result, and a review attached by another run than its
\* claimant or a reason for none, whatever calls overlap its completion or follow it
\* (transitionTask, validateIndependentReviewRefs, attach on a done task).
CompletionGate == task.status = "done" => Gated(task, attachments)

\* Where t is in the lifecycle, its claimant and its start are recorded.
Begun(t) ==
  /\ t.status \in {"claimed", "in_progress", "needs_review", "verifying", "done", "failed"} => t.claim # NoRun
  /\ t.status \in {"in_progress", "needs_review", "verifying", "done", "failed"} => t.started

\* A task created planned or ready is reviewed, verified, done or failed only after a
\* run has claimed and started it, so the independence check always has a claimant to
\* compare with (transitionTask's table and addAttachmentRef's implicit changes).
WorkPrecedesCompletion == InitialStatuses \subseteq {"planned", "ready"} => Begun(task)

\* A ready task has no claimant: GetNextWorkTask offers it and any run can claim it,
\* whichever call wrote it last.
ReadyIsClaimable == task.status = "ready" => task.claim = NoRun

\* The writer of a step, when nothing has changed the task since it read it.
FreshWriter(c) == call[c].at \in {"put", "store"} /\ ~call[c].stale /\ call'[c].at # call[c].at

\* What a call may do to the task it has read.
InOrder(from, to) ==
  /\ \/ to.status \in AllowedNext(from.status) \cup {from.status}
     \/ from.status = "verifying" /\ to.status = "ready"
  /\ to.status = "claimed" => from.claim \in {NoRun, to.claim}
  /\ from.verifiers # {} => to.verifiers # {}

\* Without an overlapping write, every write follows the lifecycle: a finished task is
\* at most superseded, a claim is not taken over by a second claim, and the verifier
\* results do not vanish. So only a stale copy can undo a completion.
FreshWritesKeepOrder ==
  [][\A c \in Callers : FreshWriter(c) => InOrder(task, task')]_vars

\* A finished task stays finished: done, failed and cancelled tasks can only be
\* superseded (validateTaskTransition; releaseIsStale ignores late releases).
FinishedStaysFinished ==
  [][task.status \in Finished => task'.status \in {task.status, "superseded"}]_vars
=============================================================================
