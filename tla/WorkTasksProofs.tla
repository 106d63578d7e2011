-------------------------- MODULE WorkTasksProofs --------------------------
(***************************************************************************)
(* Machine-checked proofs about Work Tasks, for any number of overlapping  *)
(* calls, any runs, refs and bounds. Every write stores a whole copy, so   *)
(* the argument is about copies: each one a call holds passes the gates    *)
(* that a stored task passes, whatever has been written since it was read. *)
(***************************************************************************)
EXTENDS WorkTasksProperties, TLAPS

-----------------------------------------------------------------------------
(* Types. *)

\* Each operator that computes a task returns one.
LEMMA NewTaskType ==
  ASSUME NEW s \in InitialStatuses, NEW d \in Qualities
  PROVE  NewTask(s, d) \in WorkTask
BY WorkTasksAssumption DEF NewTask, WorkTask, AnyRun

LEMMA ChangedType ==
  ASSUME NEW t \in WorkTask, NEW run \in AnyRun, NEW next \in Statuses,
         NEW verifiers \in SUBSET Refs, NEW reviews \in SUBSET Refs, NEW exempt \in BOOLEAN
  PROVE  Changed(t, run, next, verifiers, reviews, exempt) \in WorkTask
BY ZenonT(40) DEF Changed, WorkTask, AnyRun

LEMMA WithRefType ==
  ASSUME NEW t \in WorkTask, NEW a \in Attachments
  PROVE  WithRef(t, a) \in WorkTask
BY DEF WithRef, WorkTask, Attachments

LEMMA AttachedType ==
  ASSUME NEW t \in WorkTask, NEW a \in Attachments
  PROVE  Attached(t, a) \in WorkTask
<1>1. WithRef(t, a) \in WorkTask
  BY WithRefType
<1>2. {"verifying", "needs_review"} \subseteq Statuses
  BY DEF Statuses
<1>3. QED BY <1>1, <1>2 DEF Attached, WorkTask

\* The shapes of a call in progress.
LEMMA CallShapes ==
  ASSUME NEW k \in Calls
  PROVE  /\ k.at \in {"idle", "check", "put", "reread", "store"}
         /\ k.at = "idle" <=> k = Idle
         /\ k # Idle => k.copy \in WorkTask /\ k.stale \in BOOLEAN
         /\ k.at \in {"reread", "store"} => k.add \in Attachments
         /\ k.at = "store" => k.fresh \in WorkTask
BY DEF Calls, Idle

\* Marking a call as stale changes nothing else of it.
LEMMA MarkedStale ==
  ASSUME NEW k \in Calls, k # Idle
  PROVE  LET s == [k EXCEPT !.stale = TRUE]
         IN  /\ s \in Calls /\ s.at = k.at /\ s.copy = k.copy
             /\ k.at = "reread" => s.add = k.add
             /\ k.at = "store" => s.add = k.add /\ s.fresh = k.fresh
<1>1. CASE k \in [at : {"check", "put"}, copy : WorkTask, stale : BOOLEAN]
  BY <1>1 DEF Calls
<1>2. CASE k \in [at : {"reread"}, copy : WorkTask, add : Attachments, stale : BOOLEAN]
  BY <1>2 DEF Calls
<1>3. CASE k \in [at : {"store"}, copy : WorkTask, add : Attachments, fresh : WorkTask, stale : BOOLEAN]
  BY <1>3 DEF Calls
<1>4. QED BY <1>1, <1>2, <1>3 DEF Calls, Idle

LEMMA InitTypes == Init => TypeOK
<1> SUFFICES ASSUME Init PROVE TypeOK
  OBVIOUS
<1>1. task \in WorkTask
  BY NewTaskType DEF Init
<1>2. [at |-> "put", copy |-> task, stale |-> FALSE] \in Calls /\ Idle \in Calls
  BY <1>1 DEF Calls, Idle
<1>3. QED BY <1>1, <1>2 DEF Init, TypeOK

LEMMA NextTypes == TypeOK /\ [Next]_vars => TypeOK'
<1> SUFFICES ASSUME TypeOK, [Next]_vars PROVE TypeOK'
  OBVIOUS
<1>0. Idle \in Calls
  BY DEF Calls, Idle
<1>1. ASSUME NEW c \in Callers, NEW new \in WorkTask, NEW rest \in Calls
      PROVE  Wrote(c, new, rest) \in [Callers -> Calls]
  BY <1>1, MarkedStale DEF Wrote, TypeOK
<1>2. ASSUME NEW c \in Callers, BeginTransition(c) PROVE TypeOK'
  <2>1. PICK run \in AnyRun, next \in Requested, verifiers \in SUBSET Refs, reviews \in SUBSET Refs,
             exempt \in Exemptions, at \in {"check", "put"} :
          call' = [call EXCEPT ![c] = [at |-> at, stale |-> FALSE,
            copy |-> Changed(task, run, next, verifiers, reviews, exempt)]]
    BY ZenonT(40), <1>2 DEF BeginTransition
  <2>2. Changed(task, run, next, verifiers, reviews, exempt) \in WorkTask
    BY ChangedType, WorkTasksAssumption DEF TypeOK
  <2>3. QED BY <1>2, <2>1, <2>2 DEF BeginTransition, TypeOK, Calls
<1>3. ASSUME NEW c \in Callers, CheckReviews(c) PROVE TypeOK'
  <2>1. call[c].copy \in WorkTask /\ [call[c] EXCEPT !.at = "put"] \in Calls
    BY <1>3, CallShapes DEF CheckReviews, TypeOK, Calls
  <2>2. QED BY <1>0, <1>3, <2>1 DEF CheckReviews, TypeOK
<1>4. ASSUME NEW c \in Callers, BeginExpandScope(c) PROVE TypeOK'
  BY <1>4 DEF BeginExpandScope, TypeOK, Calls
<1>5. ASSUME NEW c \in Callers, BeginAttach(c) PROVE TypeOK'
  BY <1>5 DEF BeginAttach, TypeOK, Calls
<1>6. ASSUME NEW c \in Callers, Reread(c) PROVE TypeOK'
  <2>1. call[c].copy \in WorkTask /\ call[c].add \in Attachments /\ call[c].stale \in BOOLEAN
    BY <1>6, CallShapes DEF Reread, TypeOK, Idle
  <2>2. QED BY <1>6, <2>1 DEF Reread, TypeOK, Calls
<1>7. ASSUME NEW c \in Callers, StoreAttachment(c) PROVE TypeOK'
  <2> DEFINE a == call[c].add
             new == WithRef(call[c].fresh, a)
             rest == [at |-> "put", copy |-> Attached(call[c].copy, a), stale |-> call[c].stale]
  <2>1. /\ call[c].copy \in WorkTask /\ a \in Attachments
        /\ call[c].stale \in BOOLEAN /\ call[c].fresh \in WorkTask
    BY <1>7, CallShapes DEF StoreAttachment, TypeOK, Idle
  <2>2. new \in WorkTask /\ rest \in Calls
    BY <2>1, WithRefType, AttachedType DEF Calls
  <2>3. task' = new /\ call' = Wrote(c, new, rest)
    BY <1>7 DEF StoreAttachment
  <2>4. attachments' \subseteq Reviews
    BY <1>7, <2>1 DEF StoreAttachment, TypeOK, Attachments, Reviews
  <2>5. QED BY <1>1, <2>2, <2>3, <2>4 DEF TypeOK
<1>8. ASSUME NEW c \in Callers, Put(c) PROVE TypeOK'
  <2>1. call[c].copy \in WorkTask
    BY <1>8, CallShapes DEF Put, TypeOK, Idle
  <2>2. QED BY <1>0, <1>1, <1>8, <2>1 DEF Put, TypeOK
<1>9. ASSUME NEW c \in Callers, Abandon(c) PROVE TypeOK'
  BY <1>0, <1>9 DEF Abandon, TypeOK
<1>10. CASE UNCHANGED vars
  BY <1>10 DEF vars, TypeOK
<1>11. QED BY <1>2, <1>3, <1>4, <1>5, <1>6, <1>7, <1>8, <1>9, <1>10 DEF Next

\* Every reachable stored task, attachment and copy is well formed.
THEOREM WorkTasksTyped == Spec => []TypeOK
BY InitTypes, NextTypes, PTL DEF Spec

-----------------------------------------------------------------------------
(* The gates. *)

\* What holds of every task that is stored or about to be.
Sound(t, known) ==
  /\ t.status = "done" => Gated(t, known)
  /\ InitialStatuses \subseteq {"planned", "ready"} => Begun(t)
  /\ t.status = "ready" => t.claim = NoRun

\* A completion whose reviews are still to be checked.
AlmostSound(t) ==
  /\ t.status = "done" /\ t.verifiers # {} /\ t.reviews # {}
  /\ InitialStatuses \subseteq {"planned", "ready"} => Begun(t)

\* Every copy that a call holds is sound, so any of them may be written at any time.
Gates ==
  /\ Sound(task, attachments)
  /\ \A c \in Callers :
       /\ call[c].at \in {"put", "reread", "store"} => Sound(call[c].copy, attachments)
       /\ call[c].at = "check" => AlmostSound(call[c].copy)
       /\ call[c].at = "store" => Sound(call[c].fresh, attachments)

\* transitionTask produces a sound task from a sound one, but for unchecked reviews.
LEMMA ChangedSound ==
  ASSUME NEW known, NEW t \in WorkTask, Sound(t, known), NEW run \in AnyRun, NEW next \in Statuses, Permitted(t, run, next),
         NEW verifiers \in SUBSET Refs, NEW reviews \in SUBSET Refs, NEW exempt \in BOOLEAN,
         NEW new, new = Changed(t, run, next, verifiers, reviews, exempt),
         next = "done" => MayBeDone(new)
  PROVE  IF next = "done" /\ new.reviews # {} THEN AlmostSound(new) ELSE Sound(new, known)
<1>1. /\ new.status = next
      /\ new.claim = IF next = "ready" THEN NoRun ELSE IF run # NoRun THEN run ELSE t.claim
      /\ new.started = (t.started \/ next = "in_progress")
  BY DEF Changed, WorkTask
<1>2. Begun(t) => Begun(new)
  <2>1. CASE next = "claimed"
    BY <1>1, <2>1 DEF Begun, Permitted
  <2>2. CASE next = "in_progress"
    BY <1>1, <2>2 DEF Begun, Permitted
  <2>3. CASE next \in {"needs_review", "verifying", "done", "failed"}
    <3>1. t.status \in {"in_progress", "needs_review", "verifying", "done", "failed"}
      BY <2>3 DEF Permitted, RecoveryRerun, AllowedNext, WorkTask, Statuses, Finished
    <3>2. QED BY <1>1, <2>3, <3>1 DEF Begun
  <2>4. CASE next \notin {"claimed", "in_progress", "needs_review", "verifying", "done", "failed"}
    BY <1>1, <2>4 DEF Begun
  <2>5. QED BY <2>1, <2>2, <2>3, <2>4
<1>3. new.status = "ready" => new.claim = NoRun
  BY <1>1
<1>4. CASE next = "done" /\ new.reviews # {}
  BY <1>1, <1>2, <1>4 DEF Sound, AlmostSound, MayBeDone
<1>5. CASE next = "done" /\ new.reviews = {}
  BY <1>1, <1>2, <1>5 DEF Sound, Gated, MayBeDone
<1>6. CASE next # "done"
  BY <1>1, <1>2, <1>3, <1>6 DEF Sound
<1>7. QED BY <1>4, <1>5, <1>6

\* validateIndependentReviewRefs turns an almost sound task into a sound one.
LEMMA CheckedSound ==
  ASSUME NEW t \in WorkTask, AlmostSound(t), Independent(t)
  PROVE  Sound(t, attachments)
<1>1. PICK ref \in t.reviews : TRUE
  BY DEF AlmostSound
<1>2. PICK a \in attachments : a.ref = ref /\ (t.claim = NoRun \/ a.by \notin {NoRun, t.claim})
  BY <1>1 DEF Independent
<1>3. QED BY <1>1, <1>2 DEF AlmostSound, Sound, Gated

\* A ref more, also with addAttachmentRef's change of status, keeps a task sound.
LEMMA AttachedSound ==
  ASSUME NEW known, NEW t \in WorkTask, Sound(t, known), NEW a \in Attachments
  PROVE  Sound(WithRef(t, a), known) /\ Sound(Attached(t, a), known)
<1> DEFINE Grown(u) ==
  /\ u.claim = t.claim /\ u.started = t.started /\ u.exempt = t.exempt
  /\ t.verifiers \subseteq u.verifiers /\ t.reviews \subseteq u.reviews
  /\ u.status # t.status => t.status = "in_progress" /\ u.status \in {"verifying", "needs_review"}
<1>1. Grown(WithRef(t, a)) /\ WithRef(t, a).status = t.status
  <2>1. /\ WithRef(t, a).claim = t.claim /\ WithRef(t, a).started = t.started
        /\ WithRef(t, a).exempt = t.exempt /\ WithRef(t, a).status = t.status
    BY DEF WithRef, WorkTask
  <2>2. WithRef(t, a).verifiers = IF a.kind = "verifier" THEN t.verifiers \cup {a.ref} ELSE t.verifiers
    BY DEF WithRef, WorkTask
  <2>3. WithRef(t, a).reviews = IF a.kind = "review" THEN t.reviews \cup {a.ref} ELSE t.reviews
    BY DEF WithRef, WorkTask
  <2>4. t.verifiers \subseteq WithRef(t, a).verifiers
    BY <2>2
  <2>5. t.reviews \subseteq WithRef(t, a).reviews
    BY <2>3
  <2>6. QED BY <2>1, <2>4, <2>5
<1>2. Grown(Attached(t, a))
  <2>1. WithRef(t, a) \in WorkTask
    BY WithRefType
  <2>2. /\ \A f \in {"claim", "started", "exempt", "verifiers", "reviews"} : Attached(t, a)[f] = WithRef(t, a)[f]
        /\ \/ Attached(t, a).status = WithRef(t, a).status
           \/ t.status = "in_progress" /\ Attached(t, a).status \in {"verifying", "needs_review"}
    BY <2>1 DEF Attached, WorkTask
  <2>3. QED BY <1>1, <2>2
<1>3. ASSUME NEW u, Grown(u) PROVE Sound(u, known)
  BY <1>3 DEF Sound, Gated, Begun
<1>4. QED BY <1>1, <1>2, <1>3

\* Attachments are never removed, so a sound task stays sound.
LEMMA SoundIsStable ==
  ASSUME NEW t, NEW known, NEW more, known \subseteq more, Sound(t, known)
  PROVE  Sound(t, more)
BY DEF Sound, Gated

LEMMA InitGates == Init => Gates
<1> SUFFICES ASSUME Init PROVE Gates
  OBVIOUS
<1>1. PICK s \in InitialStatuses, d \in Qualities : task = NewTask(s, d)
  BY DEF Init
<1>2. task.status = s /\ task.claim = NoRun /\ s \notin Finished
  BY <1>1, WorkTasksAssumption DEF NewTask
<1>3. Sound(task, attachments)
  BY <1>2 DEF Sound, Begun, Finished
<1>4. \A c \in Callers : call[c] = Idle \/ call[c] = [at |-> "put", copy |-> task, stale |-> FALSE]
  BY DEF Init
<1>5. QED BY <1>3, <1>4 DEF Gates, Idle

\* A write of a sound task leaves the other calls' copies sound.
LEMMA WroteSound ==
  ASSUME TypeOK, Gates, NEW c \in Callers, NEW rest \in Calls,
         task' \in WorkTask, attachments \subseteq attachments', call' = Wrote(c, task', rest),
         Sound(task', attachments'),
         rest.at \in {"idle", "put"}, rest.at = "put" => Sound(rest.copy, attachments')
  PROVE  Gates'
<1>1. ASSUME NEW d \in Callers
      PROVE  /\ call'[d].at \in {"put", "reread", "store"} => Sound(call'[d].copy, attachments')
             /\ call'[d].at = "check" => AlmostSound(call'[d].copy)
             /\ call'[d].at = "store" => Sound(call'[d].fresh, attachments')
  <2>1. CASE d = c
    <3>1. call'[d] = rest
      BY <2>1 DEF Wrote
    <3>2. QED BY <3>1
  <2>2. CASE d # c
    <3>1. call[d] \in Calls
      BY DEF TypeOK
    <3>2. /\ call'[d].at = call[d].at
          /\ call[d] # Idle => call'[d].copy = call[d].copy
          /\ call[d].at = "store" => call'[d].fresh = call[d].fresh
      BY <2>2, <3>1, MarkedStale DEF Wrote
    <3>3. call[d].at # "idle" => call[d] # Idle
      BY DEF Idle
    <3>4. QED BY <3>2, <3>3, SoundIsStable DEF Gates
  <2>3. QED BY <2>1, <2>2
<1>2. QED BY <1>1 DEF Gates

\* A step that changes neither the task nor the attachments, and one call.
LEMMA CallSound ==
  ASSUME TypeOK, Gates, NEW c \in Callers, NEW rest \in Calls,
         UNCHANGED <<task, attachments>>, call' = [call EXCEPT ![c] = rest],
         rest.at \in {"put", "reread", "store"} => Sound(rest.copy, attachments),
         rest.at = "check" => AlmostSound(rest.copy),
         rest.at = "store" => Sound(rest.fresh, attachments)
  PROVE  Gates'
BY DEF TypeOK, Gates

LEMMA NextGates == TypeOK /\ Gates /\ [Next]_vars => Gates'
<1> SUFFICES ASSUME TypeOK, Gates, [Next]_vars PROVE Gates'
  OBVIOUS
<1>0. Idle \in Calls /\ Idle.at = "idle" /\ \A c \in Callers : call[c] \in Calls
  BY DEF Calls, Idle, TypeOK
<1>1. ASSUME NEW c \in Callers, BeginTransition(c) PROVE Gates'
  <2>1. PICK run \in AnyRun, next \in Requested :
          /\ Permitted(task, run, next)
          /\ \E verifiers, reviews \in SUBSET Refs, exempt \in Exemptions :
               LET new == Changed(task, run, next, verifiers, reviews, exempt)
                   at  == IF next = "done" /\ new.reviews # {} THEN "check" ELSE "put"
               IN  /\ next = "done" => MayBeDone(new)
                   /\ call' = [call EXCEPT ![c] = [at |-> at, copy |-> new, stale |-> FALSE]]
    BY <1>1 DEF BeginTransition
  <2>2. PICK verifiers \in SUBSET Refs, reviews \in SUBSET Refs, exempt \in Exemptions :
          LET new == Changed(task, run, next, verifiers, reviews, exempt)
              at  == IF next = "done" /\ new.reviews # {} THEN "check" ELSE "put"
          IN  /\ next = "done" => MayBeDone(new)
              /\ call' = [call EXCEPT ![c] = [at |-> at, copy |-> new, stale |-> FALSE]]
    BY <2>1
  <2> DEFINE new == Changed(task, run, next, verifiers, reviews, exempt)
             at  == IF next = "done" /\ new.reviews # {} THEN "check" ELSE "put"
             rest == [at |-> at, copy |-> new, stale |-> FALSE]
  <2>3. next \in Statuses /\ exempt \in BOOLEAN
    BY WorkTasksAssumption
  <2>4. new \in WorkTask
    BY <2>3, ChangedType DEF TypeOK
  <2>5. IF next = "done" /\ new.reviews # {} THEN AlmostSound(new) ELSE Sound(new, attachments)
    BY <2>1, <2>2, <2>3, ChangedSound DEF TypeOK, Gates
  <2>6. rest \in Calls /\ rest.at = at /\ rest.copy = new
    BY <2>4 DEF Calls
  <2> HIDE DEF new, rest
  <2>7. QED BY <1>1, <2>2, <2>5, <2>6, CallSound DEF BeginTransition, rest, new
<1>2. ASSUME NEW c \in Callers, CheckReviews(c) PROVE Gates'
  <2> DEFINE rest == IF Independent(call[c].copy) THEN [call[c] EXCEPT !.at = "put"] ELSE Idle
  <2>1. /\ call[c].copy \in WorkTask /\ AlmostSound(call[c].copy)
        /\ call' = [call EXCEPT ![c] = rest]
    BY <1>0, <1>2, CallShapes DEF CheckReviews, Idle, Gates
  <2>2. [call[c] EXCEPT !.at = "put"] \in Calls /\ [call[c] EXCEPT !.at = "put"].at = "put"
        /\ [call[c] EXCEPT !.at = "put"].copy = call[c].copy
    BY <1>0, <1>2 DEF CheckReviews, Calls
  <2>3. CASE Independent(call[c].copy)
    <3>1. Sound(call[c].copy, attachments)
      BY <2>1, <2>3, CheckedSound
    <3>2. QED BY <1>2, <2>1, <2>2, <2>3, <3>1, CallSound DEF CheckReviews
  <2>4. CASE ~Independent(call[c].copy)
    BY <1>0, <1>2, <2>1, <2>4, CallSound DEF CheckReviews
  <2>5. QED BY <2>3, <2>4
<1>3. ASSUME NEW c \in Callers, BeginExpandScope(c) PROVE Gates'
  <2> DEFINE rest == [at |-> "put", copy |-> task, stale |-> FALSE]
  <2>1. rest \in Calls /\ rest.at = "put" /\ rest.copy = task
    BY DEF TypeOK, Calls
  <2>2. QED BY <1>3, <2>1, CallSound DEF BeginExpandScope, Gates
<1>4. ASSUME NEW c \in Callers, BeginAttach(c) PROVE Gates'
  <2>1. PICK a \in Attachments :
          call' = [call EXCEPT ![c] = [at |-> "reread", copy |-> task, add |-> a, stale |-> FALSE]]
    BY <1>4 DEF BeginAttach
  <2> DEFINE rest == [at |-> "reread", copy |-> task, add |-> a, stale |-> FALSE]
  <2>2. rest \in Calls /\ rest.at = "reread" /\ rest.copy = task
    BY DEF TypeOK, Calls
  <2>3. QED BY <1>4, <2>1, <2>2, CallSound DEF BeginAttach, Gates
<1>5. ASSUME NEW c \in Callers, Reread(c) PROVE Gates'
  <2> DEFINE rest == [at |-> "store", copy |-> call[c].copy, add |-> call[c].add,
                      fresh |-> task, stale |-> call[c].stale]
  <2>1. call[c].copy \in WorkTask /\ call[c].add \in Attachments /\ call[c].stale \in BOOLEAN
    BY <1>0, <1>5, CallShapes DEF Reread, Idle
  <2>2. rest \in Calls /\ rest.at = "store" /\ rest.copy = call[c].copy /\ rest.fresh = task
    BY <2>1 DEF TypeOK, Calls
  <2>3. Sound(call[c].copy, attachments) /\ Sound(task, attachments)
    BY <1>5 DEF Reread, Gates
  <2>4. call' = [call EXCEPT ![c] = rest]
    BY <1>5 DEF Reread
  <2>5. QED BY <1>5, <2>2, <2>3, <2>4, CallSound DEF Reread
<1>6. ASSUME NEW c \in Callers, StoreAttachment(c) PROVE Gates'
  <2> DEFINE a == call[c].add
             new == WithRef(call[c].fresh, a)
             rest == [at |-> "put", copy |-> Attached(call[c].copy, a), stale |-> call[c].stale]
  <2>1. /\ call[c].copy \in WorkTask /\ a \in Attachments
        /\ call[c].stale \in BOOLEAN /\ call[c].fresh \in WorkTask
    BY <1>0, <1>6, CallShapes DEF StoreAttachment, Idle
  <2>2. new \in WorkTask /\ rest \in Calls /\ rest.at = "put" /\ rest.copy = Attached(call[c].copy, a)
    BY <2>1, WithRefType, AttachedType DEF Calls
  <2>3. task' = new /\ call' = Wrote(c, new, rest) /\ attachments \subseteq attachments'
    BY <1>6 DEF StoreAttachment
  <2>4. Sound(call[c].copy, attachments') /\ Sound(call[c].fresh, attachments')
    BY <1>6, <2>3, SoundIsStable DEF StoreAttachment, Gates
  <2>5. Sound(new, attachments') /\ Sound(Attached(call[c].copy, a), attachments')
    BY <2>1, <2>4, AttachedSound
  <2> HIDE DEF a, new, rest
  <2>6. QED BY <2>2, <2>3, <2>5, WroteSound
<1>7. ASSUME NEW c \in Callers, Put(c) PROVE Gates'
  <2>1. call[c].copy \in WorkTask /\ Sound(call[c].copy, attachments)
    BY <1>0, <1>7, CallShapes DEF Put, Idle, Gates
  <2>2. task' = call[c].copy /\ call' = Wrote(c, task', Idle) /\ attachments' = attachments
    BY <1>7 DEF Put
  <2>3. QED BY <1>0, <2>1, <2>2, WroteSound
<1>8. ASSUME NEW c \in Callers, Abandon(c) PROVE Gates'
  BY <1>0, <1>8, CallSound DEF Abandon
<1>9. CASE UNCHANGED vars
  BY <1>9 DEF vars, Gates
<1>10. QED BY <1>1, <1>2, <1>3, <1>4, <1>5, <1>6, <1>7, <1>8, <1>9 DEF Next

\* For any overlap of calls, a done task has passed the completion gate and still
\* passes it, work precedes completion and a ready task has no claimant.
THEOREM GatesHold ==
  Spec => []CompletionGate /\ []WorkPrecedesCompletion /\ []ReadyIsClaimable
<1>1. Init => TypeOK /\ Gates
  BY InitTypes, InitGates
<1>2. TypeOK /\ Gates /\ [Next]_vars => (TypeOK /\ Gates)'
  BY NextTypes, NextGates
<1>3. TypeOK /\ Gates => CompletionGate /\ WorkPrecedesCompletion /\ ReadyIsClaimable
  BY DEF Gates, Sound, CompletionGate, WorkPrecedesCompletion, ReadyIsClaimable
<1>4. QED BY <1>1, <1>2, <1>3, PTL DEF Spec

\* A task created planned or ready is completed only after a run has claimed and started
\* it, whichever calls of ClaimWorkTask, transitionTask and addAttachmentRef overlap.
THEOREM WorkComesFirst == Spec => []WorkPrecedesCompletion
BY GatesHold, PTL

\* A task that GetNextWorkTask offers as ready has no claimant, whichever call wrote it
\* last (ClaimWorkTask, ReleaseWorkTask, transitionTask).
THEOREM ReadyStaysClaimable == Spec => []ReadyIsClaimable
BY GatesHold, PTL

-----------------------------------------------------------------------------
(* The order of writes. *)

\* A call whose task has not changed since it read it holds that task, or a copy that may
\* follow it. A stale copy promises nothing.
Current(k, t) ==
  k.at # "idle" /\ ~k.stale =>
    /\ k.at \in {"check", "put"} => InOrder(t, k.copy)
    /\ k.at \in {"reread", "store"} => k.copy = t
    /\ k.at = "store" => k.fresh = t

CopiesCurrent == \A c \in Callers : Current(call[c], task)

\* A task may stay as it is.
LEMMA SameInOrder == ASSUME NEW t PROVE InOrder(t, t)
BY DEF InOrder

\* transitionTask writes what may follow the task it has read.
LEMMA ChangedInOrder ==
  ASSUME NEW t \in WorkTask, NEW run \in AnyRun, NEW next \in Statuses, Permitted(t, run, next),
         NEW verifiers \in SUBSET Refs, NEW reviews \in SUBSET Refs, NEW exempt \in BOOLEAN
  PROVE  InOrder(t, Changed(t, run, next, verifiers, reviews, exempt))
<1> DEFINE new == Changed(t, run, next, verifiers, reviews, exempt)
<1>1. /\ new.status = next
      /\ new.claim = IF next = "ready" THEN NoRun ELSE IF run # NoRun THEN run ELSE t.claim
      /\ new.verifiers = IF verifiers # {} THEN verifiers ELSE t.verifiers
  BY DEF Changed, WorkTask
<1> HIDE DEF new
<1>2. \/ new.status \in AllowedNext(t.status) \cup {t.status}
      \/ t.status = "verifying" /\ new.status = "ready"
  BY <1>1 DEF Permitted, RecoveryRerun
<1>3. new.status = "claimed" => t.claim \in {NoRun, new.claim}
  BY <1>1 DEF Permitted
<1>4. t.verifiers # {} => new.verifiers # {}
  BY <1>1
<1>5. InOrder(t, new)
  BY <1>2, <1>3, <1>4 DEF InOrder
<1>6. QED BY <1>5 DEF new

\* A ref more may follow, and after it addAttachmentRef's change of status.
LEMMA AttachedInOrder ==
  ASSUME NEW t \in WorkTask, NEW a \in Attachments
  PROVE  InOrder(t, WithRef(t, a)) /\ InOrder(WithRef(t, a), Attached(t, a))
<1>1. /\ WithRef(t, a) \in WorkTask
      /\ WithRef(t, a).status = t.status /\ WithRef(t, a).claim = t.claim
      /\ WithRef(t, a).verifiers = IF a.kind = "verifier" THEN t.verifiers \cup {a.ref} ELSE t.verifiers
  BY WithRefType DEF WithRef, WorkTask
<1>2. t.verifiers # {} => WithRef(t, a).verifiers # {}
  BY <1>1
<1>3. InOrder(t, WithRef(t, a))
  BY <1>1, <1>2 DEF InOrder
<1>4. /\ Attached(t, a).claim = WithRef(t, a).claim /\ Attached(t, a).verifiers = WithRef(t, a).verifiers
      /\ \/ Attached(t, a).status = t.status
         \/ t.status = "in_progress" /\ Attached(t, a).status \in {"verifying", "needs_review"}
  BY <1>1 DEF Attached, WorkTask
<1>5. {"verifying", "needs_review"} \subseteq AllowedNext("in_progress")
  BY DEF AllowedNext
<1>6. QED BY <1>1, <1>3, <1>4, <1>5 DEF InOrder

\* After a write by c, the other calls are unchanged or stale.
LEMMA WroteCurrent ==
  ASSUME TypeOK, CopiesCurrent, NEW c \in Callers, NEW rest,
         call' = Wrote(c, task', rest), Current(rest, task')
  PROVE  CopiesCurrent'
<1> SUFFICES ASSUME NEW d \in Callers PROVE Current(call'[d], task')
  BY DEF CopiesCurrent
<1>1. CASE d = c
  BY <1>1 DEF Wrote
<1>2. CASE d # c /\ call[d] # Idle /\ task' # task
  <2>1. call'[d] = [call[d] EXCEPT !.stale = TRUE]
    BY <1>2 DEF Wrote
  <2>2. call[d] \in Calls
    BY DEF TypeOK
  <2>3. call'[d].stale = TRUE
    BY <1>2, <2>1, <2>2 DEF Calls, Idle
  <2>4. QED BY <2>3 DEF Current
<1>3. CASE d # c /\ (call[d] = Idle \/ task' = task)
  <2>1. call'[d] = call[d]
    BY <1>3 DEF Wrote
  <2>2. CASE call[d] = Idle
    BY <2>1, <2>2 DEF Current, Idle
  <2>3. CASE task' = task
    BY <2>1, <2>3 DEF CopiesCurrent, Current, InOrder
  <2>4. QED BY <1>3, <2>2, <2>3
<1>4. QED BY <1>1, <1>2, <1>3

\* A step that leaves the task alone, and changes one call.
LEMMA CallCurrent ==
  ASSUME TypeOK, CopiesCurrent, NEW c \in Callers, NEW rest,
         UNCHANGED task, call' = [call EXCEPT ![c] = rest], Current(rest, task)
  PROVE  CopiesCurrent'
BY DEF TypeOK, CopiesCurrent, Current, InOrder

LEMMA InitCurrent == Init => CopiesCurrent
BY SameInOrder DEF Init, CopiesCurrent, Current, Idle

LEMMA NextCurrent == TypeOK /\ CopiesCurrent /\ [Next]_vars => CopiesCurrent'
<1> SUFFICES ASSUME TypeOK, CopiesCurrent, [Next]_vars PROVE CopiesCurrent'
  OBVIOUS
<1>0. Current(Idle, task) /\ \A c \in Callers : call[c] \in Calls
  BY DEF Current, Idle, TypeOK
<1>1. ASSUME NEW c \in Callers, BeginTransition(c) PROVE CopiesCurrent'
  <2>1. PICK run \in AnyRun, next \in Requested :
          /\ Permitted(task, run, next)
          /\ \E verifiers, reviews \in SUBSET Refs, exempt \in Exemptions, at \in {"check", "put"} :
               call' = [call EXCEPT ![c] = [at |-> at, stale |-> FALSE,
                 copy |-> Changed(task, run, next, verifiers, reviews, exempt)]]
    BY ZenonT(40), <1>1 DEF BeginTransition
  <2>2. PICK verifiers \in SUBSET Refs, reviews \in SUBSET Refs, exempt \in Exemptions, at \in {"check", "put"} :
          call' = [call EXCEPT ![c] = [at |-> at, stale |-> FALSE,
            copy |-> Changed(task, run, next, verifiers, reviews, exempt)]]
    BY <2>1
  <2> DEFINE new == Changed(task, run, next, verifiers, reviews, exempt)
             rest == [at |-> at, stale |-> FALSE, copy |-> new]
  <2>3. InOrder(task, new)
    BY <2>1, ChangedInOrder, WorkTasksAssumption DEF TypeOK
  <2> HIDE DEF new
  <2>4. Current(rest, task)
    BY <2>3 DEF Current
  <2>5. call' = [call EXCEPT ![c] = rest]
    BY <2>2 DEF new
  <2> HIDE DEF rest
  <2>6. QED BY <1>1, <2>4, <2>5, CallCurrent DEF BeginTransition
<1>2. ASSUME NEW c \in Callers, CheckReviews(c) PROVE CopiesCurrent'
  <2> DEFINE rest == [call[c] EXCEPT !.at = "put"]
  <2>1. /\ rest.at = "put" /\ rest.copy = call[c].copy /\ rest.stale = call[c].stale
    BY <1>0, <1>2 DEF CheckReviews, Calls
  <2>2. Current(rest, task)
    BY <1>2, <2>1 DEF CheckReviews, CopiesCurrent, Current
  <2> HIDE DEF rest
  <2>3. call' = [call EXCEPT ![c] = rest] \/ call' = [call EXCEPT ![c] = Idle]
    BY <1>2 DEF CheckReviews, rest
  <2>4. QED BY <1>0, <1>2, <2>2, <2>3, CallCurrent DEF CheckReviews
<1>3. ASSUME NEW c \in Callers, BeginExpandScope(c) PROVE CopiesCurrent'
  <2>1. Current([at |-> "put", copy |-> task, stale |-> FALSE], task)
    BY SameInOrder DEF Current
  <2>2. QED BY <1>3, <2>1, CallCurrent DEF BeginExpandScope
<1>4. ASSUME NEW c \in Callers, BeginAttach(c) PROVE CopiesCurrent'
  <2>1. PICK a \in Attachments :
          call' = [call EXCEPT ![c] = [at |-> "reread", copy |-> task, add |-> a, stale |-> FALSE]]
    BY <1>4 DEF BeginAttach
  <2>2. Current([at |-> "reread", copy |-> task, add |-> a, stale |-> FALSE], task)
    BY DEF Current
  <2>3. QED BY <1>4, <2>1, <2>2, CallCurrent DEF BeginAttach
<1>5. ASSUME NEW c \in Callers, Reread(c) PROVE CopiesCurrent'
  <2> DEFINE rest == [at |-> "store", copy |-> call[c].copy, add |-> call[c].add,
                      fresh |-> task, stale |-> call[c].stale]
  <2>1. Current(rest, task)
    BY <1>5 DEF Reread, CopiesCurrent, Current
  <2>2. call' = [call EXCEPT ![c] = rest]
    BY <1>5 DEF Reread
  <2> HIDE DEF rest
  <2>3. QED BY <1>5, <2>1, <2>2, CallCurrent DEF Reread
<1>6. ASSUME NEW c \in Callers, StoreAttachment(c) PROVE CopiesCurrent'
  <2> DEFINE a == call[c].add
             rest == [at |-> "put", copy |-> Attached(call[c].copy, a), stale |-> call[c].stale]
  <2>1. a \in Attachments /\ task \in WorkTask
    BY <1>0, <1>6, CallShapes DEF StoreAttachment, TypeOK
  <2>2. /\ task' = WithRef(call[c].fresh, a) /\ call' = Wrote(c, task', rest)
    BY <1>6 DEF StoreAttachment
  <2>3. ASSUME ~call[c].stale PROVE InOrder(task', Attached(call[c].copy, a))
    <3>1. call[c].copy = task /\ call[c].fresh = task
      BY <1>6, <2>3 DEF StoreAttachment, CopiesCurrent, Current
    <3>2. QED BY <2>1, <2>2, <3>1, AttachedInOrder
  <2>4. Current(rest, task')
    BY <2>3 DEF Current
  <2> HIDE DEF rest
  <2>5. QED BY <2>2, <2>4, WroteCurrent
<1>7. ASSUME NEW c \in Callers, Put(c) PROVE CopiesCurrent'
  <2>1. task' = call[c].copy /\ call' = Wrote(c, task', Idle)
    BY <1>7 DEF Put
  <2>2. Current(Idle, task')
    BY DEF Current, Idle
  <2>3. QED BY <2>1, <2>2, WroteCurrent
<1>8. ASSUME NEW c \in Callers, Abandon(c) PROVE CopiesCurrent'
  BY <1>0, <1>8, CallCurrent DEF Abandon
<1>9. CASE UNCHANGED vars
  BY <1>9 DEF vars, CopiesCurrent, Current, InOrder
<1>10. QED BY <1>1, <1>2, <1>3, <1>4, <1>5, <1>6, <1>7, <1>8, <1>9 DEF Next

\* A step by a fresh writer stores what may follow the stored task.
LEMMA FreshStep ==
  ASSUME TypeOK, CopiesCurrent, [Next]_vars, NEW c \in Callers, FreshWriter(c)
  PROVE  InOrder(task, task')
<1>1. ASSUME NEW d \in Callers, StoreAttachment(d) \/ Put(d) PROVE d = c
  <2>1. SUFFICES ASSUME d # c PROVE FALSE
    OBVIOUS
  <2>2. call'[c] = call[c] \/ (call[c] # Idle /\ call'[c] = [call[c] EXCEPT !.stale = TRUE])
    BY <1>1, <2>1 DEF StoreAttachment, Put, Wrote
  <2>3. call'[c].at = call[c].at
    BY <2>2, MarkedStale DEF TypeOK
  <2>4. QED BY <2>3 DEF FreshWriter
<1>2. CASE task' = task
  BY <1>2, SameInOrder
<1>3. CASE StoreAttachment(c)
  <2>1. call[c].add \in Attachments /\ call[c].fresh = task
    BY <1>3, CallShapes DEF StoreAttachment, TypeOK, FreshWriter, CopiesCurrent, Current
  <2>2. QED BY <1>3, <2>1, AttachedInOrder DEF StoreAttachment, TypeOK
<1>4. CASE Put(c)
  BY <1>4 DEF Put, FreshWriter, CopiesCurrent, Current
<1>5. task' = task \/ \E d \in Callers : StoreAttachment(d) \/ Put(d)
  BY DEF Next, vars, BeginTransition, CheckReviews, BeginExpandScope, BeginAttach, Reread, Abandon
<1>6. QED BY <1>1, <1>2, <1>3, <1>4, <1>5

\* A write whose caller has read the task since it last changed follows the lifecycle: a
\* finished task is at most superseded, no claim is taken over by another claim and the
\* verifier results do not vanish (transitionTask, addAttachmentRef, UpdateWorkTask).
THEOREM FreshWritesInOrder == Spec => FreshWritesKeepOrder
<1>1. Init => TypeOK /\ CopiesCurrent
  BY InitTypes, InitCurrent
<1>2. TypeOK /\ CopiesCurrent /\ [Next]_vars => (TypeOK /\ CopiesCurrent)'
  BY NextTypes, NextCurrent
<1>3. TypeOK /\ CopiesCurrent /\ [Next]_vars
        => [\A c \in Callers : FreshWriter(c) => InOrder(task, task')]_vars
  BY FreshStep
<1>4. QED BY <1>1, <1>2, <1>3, PTL DEF Spec, FreshWritesKeepOrder
=============================================================================
