----------------------------- MODULE WorkTasks -----------------------------
(***************************************************************************)
(* One Work Task and the calls that change it (internal/projectworkplan/   *)
(* service.go and store/ladybug.go). A call reads the task, decides, and   *)
(* writes the whole task back: no lock is held in between and the store    *)
(* compares nothing, so calls of agents, of the automation service and of  *)
(* the workflow compiler overlap. Tasks share no state, so one is enough.  *)
(*                                                                         *)
(* A rejected call changes nothing and is not a step. Fields that decide   *)
(* nothing here (texts, times, evidence and context refs) are left out; a  *)
(* call that only changes such fields still writes the copy it read.       *)
(*                                                                         *)
(* Next uses none of the operators under a "Faulty" comment: each is a     *)
(* variant of the definition after it with a plausible bug.                *)
(***************************************************************************)
EXTENDS TaskLifecycle

CONSTANTS
  Callers,         \* bound: calls that may be in progress at a time
  Runs,            \* run identifiers that callers pass
  Refs,            \* verifier and review result refs
  InitialStatuses, \* statuses a task is created with
  Qualities,       \* whether a created task is decomposed enough to be ready
  Requested,       \* bound: the statuses that calls ask for
  Exemptions,      \* bound: whether a call may give a ReviewExemptReason
  Attachers,       \* bound: the callers that attach results
  Compilers        \* bound: the callers that may still write the task they created

VARIABLES
  task,         \* the stored task
  attachments,  \* the stored review_result_ref attachments
  call          \* the call in progress of each caller

vars == <<task, attachments, call>>

ASSUME WorkTasksAssumption ==
  /\ NoRun \notin Runs
  /\ InitialStatuses \subseteq Statuses \ Finished /\ Requested \subseteq Statuses
  /\ Qualities \subseteq BOOLEAN /\ Exemptions \subseteq BOOLEAN

AnyRun == Runs \cup {NoRun}

WorkTask == [
  status     : Statuses,
  claim      : AnyRun,        \* ClaimedByRunID
  verifiers  : SUBSET Refs,   \* VerifierResultRefs
  reviews    : SUBSET Refs,   \* ReviewResultRefs
  exempt     : BOOLEAN,       \* ReviewExemptReason is given
  started    : BOOLEAN,       \* StartedAt is set
  decomposed : BOOLEAN]       \* DecompositionQuality is ready

Reviews == [ref : Refs, by : AnyRun]
Attachments == [kind : {"evidence", "verifier", "review"}, ref : Refs, by : AnyRun]

\* The fields of a step's call: at is "check" before validateIndependentReviewRefs,
\* "reread" and "store" in store.attach, "put" before UpdateWorkTask writes copy.
\* stale is history: the task has changed since the call read copy.
Calls ==
  [at : {"idle"}] \cup
  [at : {"check", "put"}, copy : WorkTask, stale : BOOLEAN] \cup
  [at : {"reread"}, copy : WorkTask, add : Attachments, stale : BOOLEAN] \cup
  [at : {"store"}, copy : WorkTask, add : Attachments, fresh : WorkTask, stale : BOOLEAN]

Idle == [at |-> "idle"]

\* The compiler that created the task may still have to write it once more,
\* with the dependencies it has learned since.
Init ==
  /\ \E s \in InitialStatuses, d \in Qualities : task = NewTask(s, d)
  /\ attachments = {}
  /\ call \in [Callers -> {Idle, [at |-> "put", copy |-> task, stale |-> FALSE]}]
  /\ \A c, d \in Callers : call[c] # Idle /\ call[d] # Idle => c = d /\ c \in Compilers

-----------------------------------------------------------------------------
\* Status changes.

\* transitionTask, up to its last check or its write.
BeginTransition(c) ==
  /\ call[c] = Idle
  /\ \E run \in AnyRun, next \in Requested :
       /\ Permitted(task, run, next)
       /\ \E verifiers, reviews \in SUBSET Refs, exempt \in Exemptions :
            LET new == Changed(task, run, next, verifiers, reviews, exempt)
                at  == IF next = "done" /\ new.reviews # {} THEN "check" ELSE "put"
            IN  /\ next = "done" => MayBeDone(new)
                /\ call' = [call EXCEPT ![c] = [at |-> at, copy |-> new, stale |-> FALSE]]
  /\ UNCHANGED <<task, attachments>>

\* Faulty.
IndependentOfNobody(t) ==
  \A ref \in t.reviews : \E a \in attachments : a.ref = ref /\ (t.claim = NoRun \/ a.by # NoRun)

\* validateIndependentReviewRefs, on the attachments stored by now.
Independent(t) ==
  \A ref \in t.reviews :
    \E a \in attachments : a.ref = ref /\ (t.claim = NoRun \/ a.by \notin {NoRun, t.claim})

CheckReviews(c) ==
  /\ call[c].at = "check"
  /\ call' = [call EXCEPT ![c] = IF Independent(@.copy) THEN [@ EXCEPT !.at = "put"] ELSE Idle]
  /\ UNCHANGED <<task, attachments>>

\* ExpandWorkTaskScope: files to edit and resume instructions.
BeginExpandScope(c) ==
  /\ call[c] = Idle
  /\ call' = [call EXCEPT ![c] = [at |-> "put", copy |-> task, stale |-> FALSE]]
  /\ UNCHANGED <<task, attachments>>

-----------------------------------------------------------------------------
\* Attachments.

\* attach, up to the store. Only a review's run is read again.
BeginAttach(c) ==
  /\ call[c] = Idle
  /\ c \in Attachers
  /\ \E a \in Attachments :
       /\ IF a.kind = "review" THEN a.by = NoRun \/ a.by # task.claim ELSE a.by = NoRun
       /\ call' = [call EXCEPT ![c] = [at |-> "reread", copy |-> task, add |-> a, stale |-> FALSE]]
  /\ UNCHANGED <<task, attachments>>

\* store.attach reads the task again.
Reread(c) ==
  /\ call[c].at = "reread"
  /\ call' = [call EXCEPT ![c] =
       [at |-> "store", copy |-> @.copy, add |-> @.add, fresh |-> task, stale |-> @.stale]]
  /\ UNCHANGED <<task, attachments>>

\* Faulty: kind and ref swapped.
WithRefSwapped(t, a) ==
  [t EXCEPT !.verifiers = IF a.kind = "verifier" THEN @ \cup {a.kind} ELSE @,
            !.reviews   = IF a.kind = "review" THEN @ \cup {a.ref} ELSE @]

WithRef(t, a) ==
  [t EXCEPT !.verifiers = IF a.kind = "verifier" THEN @ \cup {a.ref} ELSE @,
            !.reviews   = IF a.kind = "review" THEN @ \cup {a.ref} ELSE @]

\* Faulty.
AttachedWhenClaimed(t, a) ==
  [WithRef(t, a) EXCEPT !.status =
     CASE t.status \in {"claimed", "in_progress"} /\ a.kind = "verifier" -> "verifying"
       [] t.status = "in_progress" /\ a.kind = "review"   -> "needs_review"
       [] OTHER -> @]

\* Faulty.
AttachedAnyStatus(t, a) ==
  [WithRef(t, a) EXCEPT !.status = IF a.kind = "review" THEN "needs_review" ELSE @]

\* The task that addAttachmentRef writes.
Attached(t, a) ==
  [WithRef(t, a) EXCEPT !.status =
     CASE t.status = "in_progress" /\ a.kind = "verifier" -> "verifying"
       [] t.status = "in_progress" /\ a.kind = "review"   -> "needs_review"
       [] OTHER -> @]

\* The calls after c has written new and goes on with rest.
Wrote(c, new, rest) ==
  [d \in Callers |-> IF d = c THEN rest
                     ELSE IF call[d] # Idle /\ new # task THEN [call[d] EXCEPT !.stale = TRUE]
                     ELSE call[d]]

\* store.attach's batch: the attachment and the task read in Reread with its ref.
\* addAttachmentRef then writes the copy that attach read first.
StoreAttachment(c) ==
  /\ call[c].at = "store"
  /\ LET a == call[c].add
         new == WithRef(call[c].fresh, a)
     IN  /\ task' = new
         /\ attachments' = IF a.kind = "review"
                           THEN attachments \cup {[ref |-> a.ref, by |-> a.by]} ELSE attachments
         /\ call' = Wrote(c, new, [at |-> "put", copy |-> Attached(call[c].copy, a), stale |-> call[c].stale])

\* UpdateWorkTask writes the whole task.
Put(c) ==
  /\ call[c].at = "put"
  /\ task' = call[c].copy
  /\ call' = Wrote(c, call[c].copy, Idle)
  /\ UNCHANGED attachments

\* A store error, the end of the request or of the server cuts a call short.
Abandon(c) ==
  /\ call[c] # Idle
  /\ call' = [call EXCEPT ![c] = Idle]
  /\ UNCHANGED <<task, attachments>>

Next ==
  \E c \in Callers :
    \/ BeginTransition(c) \/ CheckReviews(c) \/ BeginExpandScope(c)
    \/ BeginAttach(c) \/ Reread(c) \/ StoreAttachment(c)
    \/ Put(c) \/ Abandon(c)

Spec == Init /\ [][Next]_vars
=============================================================================
