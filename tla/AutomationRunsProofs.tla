------------------------- MODULE AutomationRunsProofs -------------------------
(***************************************************************************)
(* Machine-checked proofs about the runs of an automation, for any number  *)
(* of runners and clients, any limits, bounds and faults. Every call works *)
(* on copies of runs that may be old when they are written, so the         *)
(* argument is about copies: each one that is stored, waits in the list of *)
(* a phase or is in hand has a property that no later step takes away.     *)
(***************************************************************************)
EXTENDS AutomationRunsProperties, NaturalsInduction, WellFoundedInduction, TLAPS

Seen == Statuses \cup {"none"}

\* A run that is sound when its task is t: it is typed, completed only after its task, and
\* its attempts are counted with its claims.
Sound(r, t) ==
  /\ r \in Run
  /\ r.status = "completed" => t.status = "done"
  /\ r.attempts <= MaxRetries
  /\ r.claim = 0 \/ r.status = "queued" => r.attempts = 0

\* The steps of a call that has a run in hand.
Engaged == {"put", "verify", "close", "recheck", "release", "claim", "start", "grant", "reply", "renewed", "durable"}
\* The steps that queue a run for the task, which need none.
Queueing == {"queue", "create", "block"}
\* The steps of a run that is being started: another attempt is left for it.
Starting == {"claim", "start", "grant"}

\* What may follow a write.
Thens == {"next", "verify", "release", "queue", "claim", "start", "reply", "renewed", "durable"}

\* The step c of caller p is sound when the task is t.
SoundCall(p, c, t) ==
  /\ c \in Call /\ c.then \in Thens
  /\ c.at \notin {"idle", "list"} => c.phase \in 1..Len(ClaimPhases)
  /\ c.at = "list" => c.phase # 0
  /\ c.at \in Engaged => c.id \in RunIds
  /\ c.at \in Queueing => c.id \in RunIds \/ Phases(p)[c.phase] = "ready"
  /\ c.at \in Starting \/ (c.at = "put" /\ c.then \in Starting) => c.run.attempts < MaxRetries
  /\ c.at = "put" /\ c.then \in Starting => c.run.status # "running"
  /\ c.then = "next" \/ c.at = "put"
  /\ Sound(c.run, t)
  /\ \A item \in c.todo : Sound(item[2], t) /\ Picks(Phases(p)[c.phase], item[2])

Known(r) == r = Unassigned \/ r.run \in RunIds

\* Which failures count is typed by itself, and everything else without it.
Markers == marked \in BOOLEAN /\ forgiven \in SUBSET RunIds
Typed ==
  /\ task \in Task
  /\ runs \in [RunIds -> Run]
  /\ call \in [Callers -> Call]
  /\ runner \in [Runners -> [run : RunIds \cup {NoRun}, claim : Stamps, beat : Stamps, moved : BOOLEAN]]
  /\ stamp \in Stamps /\ now \in Stamps
  /\ faults \in 0..MaxFaults /\ polls \in 0..MaxClientCalls

IInv ==
  /\ Typed
  /\ \A id \in RunIds : Sound(runs[id], task)
  /\ \A p \in Callers : SoundCall(p, call[p], task)
  /\ \A w \in Runners : Known(runner[w])
-----------------------------------------------------------------------------
(* The task. *)

\* A change of the task leaves it well formed.
LEMMA ChangedType ==
  ASSUME NEW t \in Task, NEW run \in RunIds \cup {NoRun}, NEW next \in Statuses,
         NEW verifiers \in SUBSET Evidence, NEW exempt \in BOOLEAN
  PROVE  /\ Changed(t, run, next, verifiers, {}, exempt) \in Task
         /\ Changed(t, run, next, verifiers, {}, exempt).status = next
BY ZenonT(40) DEF Changed, Task

\* No call for another status than done or superseded is permitted on a done task.
LEMMA DoneRefuses ==
  ASSUME NEW t, NEW run, NEW next, t.status = "done", next \notin {"done", "superseded"}
  PROVE  ~Permitted(t, run, next)
BY DEF Permitted, RecoveryRerun, AllowedNext

\* A release is well typed too, and leaves a done task alone.
LEMMA ReleasedType ==
  ASSUME task \in Task, NEW id \in RunIds \cup {NoRun}
  PROVE  /\ Released(id) \in Task
         /\ task.status = "done" => Released(id).status = "done"
<1>1. Changed(task, id, "ready", {}, {}, FALSE) \in Task
  BY ChangedType DEF Statuses
<1>2. QED BY <1>1 DEF Released, ReleaseIsStale, Finished

-----------------------------------------------------------------------------
(* Copies of runs. *)

\* Soundness survives every change of the task that keeps it done once it is.
LEMMA SoundLater ==
  ASSUME NEW r, NEW t, NEW u, Sound(r, t), t.status = "done" => u.status = "done"
  PROVE  Sound(r, u)
BY DEF Sound

LEMMA Names ==
  /\ {"absent", "queued", "claiming", "starting", "running", "verifying", "completed", "failed", "timeout",
      "blocked", "policy_denied", "cancelled"} \subseteq RunStatuses
  /\ {"none", "recoverable", "exhausted", "interrupted", "task_not_ready", "work_task_blocked", "other"}
       \subseteq Categories
  /\ {"none", "ready", "claimed", "in_progress", "blocked", "done"} \subseteq Seen /\ Statuses \subseteq Seen
BY DEF RunStatuses, Categories, Seen, Statuses, Finished

LEMMA AbsentSound ==
  ASSUME NEW t
  PROVE  Sound(Absent, t) /\ \A automatic \in BOOLEAN : Sound(NewRun(automatic), t)
<1>1. MaxStamps \in Nat /\ MaxRetries \in Nat
  BY AutomationRunsAssumption
<1>2. 0 \in Stamps
  BY <1>1 DEF Stamps
<1>3. Absent \in Run
  BY <1>2 DEF Absent, Run, RunStatuses, Categories
<1>4. ASSUME NEW automatic \in BOOLEAN PROVE NewRun(automatic) \in Run
  BY <1>3 DEF NewRun, Run, RunStatuses
<1>5. Absent.status = "absent" /\ Absent.attempts = 0
  BY DEF Absent
<1>6. ASSUME NEW automatic \in BOOLEAN PROVE NewRun(automatic).status = "queued" /\ NewRun(automatic).attempts = 0
  BY DEF NewRun, Absent
<1>7. QED BY <1>1, <1>3, <1>4, <1>5, <1>6 DEF Sound

\* Every copy that the service computes from a run is a run.
LEMMA CopyTypes ==
  ASSUME NEW r \in Run, NEW s \in Seen
  PROVE  /\ VerifyingCopy(r, s) \in Run /\ InterruptedCopy(r, s) \in Run
         /\ CompletedCopy(r, s) \in Run /\ TerminalCopy(r, s) \in Run
         /\ [r EXCEPT !.seen = s] \in Run /\ \A old \in BOOLEAN : [r EXCEPT !.old = old] \in Run
         /\ [r EXCEPT !.status = "claiming", !.seen = s] \in Run
         /\ [r EXCEPT !.status = "starting", !.seen = s] \in Run
         /\ \A lease \in Stamps : [r EXCEPT !.lease = lease] \in Run
<1>1. VerifyingCopy(r, s) \in Run
  BY Names DEF VerifyingCopy, Run, Seen
<1>2. InterruptedCopy(r, s) \in Run
  BY Names DEF InterruptedCopy, Run, Seen
<1>3. CompletedCopy(r, s) \in Run
  BY Names DEF CompletedCopy, Run, Seen
<1>4. TerminalCopy(r, s) \in Run
  BY Names DEF TerminalCopy, Run, Seen
<1>5. [r EXCEPT !.seen = s] \in Run
  BY DEF Run, Seen
<1>6. ASSUME NEW old \in BOOLEAN PROVE [r EXCEPT !.old = old] \in Run
  BY DEF Run
<1>7. [r EXCEPT !.status = "claiming", !.seen = s] \in Run
  BY Names DEF Run, Seen
<1>8. [r EXCEPT !.status = "starting", !.seen = s] \in Run
  BY Names DEF Run, Seen
<1>9. ASSUME NEW lease \in Stamps PROVE [r EXCEPT !.lease = lease] \in Run
  BY DEF Run
<1>10. QED BY <1>1, <1>2, <1>3, <1>4, <1>5, <1>6, <1>7, <1>8, <1>9

\* Every copy that the service computes from a sound one is sound.
LEMMA CopiesSound ==
  ASSUME NEW t, NEW r, Sound(r, t), NEW s \in Seen
  PROVE  /\ Sound(VerifyingCopy(r, s), t)
         /\ Sound(InterruptedCopy(r, s), t)
         /\ Sound([r EXCEPT !.seen = s], t)
         /\ \A old \in BOOLEAN : Sound([r EXCEPT !.old = old], t)
         /\ Sound([r EXCEPT !.status = "claiming", !.seen = s], t)
         /\ Sound([r EXCEPT !.status = "starting", !.seen = s], t)
         /\ \A lease \in Stamps : Sound([r EXCEPT !.lease = lease], t)
         /\ s \in Terminal => Sound(TerminalCopy(r, s), t)
         /\ t.status = "done" => Sound(CompletedCopy(r, s), t)
<1>1. /\ r \in Run /\ r.attempts <= MaxRetries /\ r.status = "completed" => t.status = "done"
      /\ r.claim = 0 \/ r.status = "queued" => r.attempts = 0
  BY DEF Sound
<1>0. r \in Run
  BY DEF Sound
<1>2. VerifyingCopy(r, s) \in Run /\ InterruptedCopy(r, s) \in Run /\ CompletedCopy(r, s) \in Run /\ TerminalCopy(r, s) \in Run
  BY <1>0, CopyTypes
<1>3. /\ [r EXCEPT !.seen = s] \in Run
      /\ \A old \in BOOLEAN : [r EXCEPT !.old = old] \in Run
      /\ [r EXCEPT !.status = "claiming", !.seen = s] \in Run
      /\ [r EXCEPT !.status = "starting", !.seen = s] \in Run
      /\ \A lease \in Stamps : [r EXCEPT !.lease = lease] \in Run
  BY <1>0, CopyTypes
<1>5. Sound(VerifyingCopy(r, s), t) /\ Sound(InterruptedCopy(r, s), t)
  BY <1>1, <1>2 DEF Sound, VerifyingCopy, InterruptedCopy, Run
<1>6. /\ s \in Terminal => Sound(TerminalCopy(r, s), t)
      /\ t.status = "done" => Sound(CompletedCopy(r, s), t)
  BY <1>1, <1>2 DEF Sound, TerminalCopy, CompletedCopy, Run
<1>7. /\ Sound([r EXCEPT !.seen = s], t)
      /\ \A old \in BOOLEAN : Sound([r EXCEPT !.old = old], t)
      /\ Sound([r EXCEPT !.status = "claiming", !.seen = s], t)
      /\ Sound([r EXCEPT !.status = "starting", !.seen = s], t)
      /\ \A lease \in Stamps : Sound([r EXCEPT !.lease = lease], t)
  BY <1>1, <1>3 DEF Sound, Run
<1>8. QED BY <1>5, <1>6, <1>7

\* A copy that records a failure is sound.
LEMMA FailedSound ==
  ASSUME NEW t, NEW r, Sound(r, t), NEW cat \in Categories, NEW s \in Seen,
         NEW status \in {"failed", "timeout", "blocked", "policy_denied"}
  PROVE  /\ Sound(FailedCopy(r, status, cat), t)
         /\ Sound([FailedCopy(r, status, cat) EXCEPT !.seen = s, !.recovery = FALSE], t)
         /\ FailedCopy(r, status, cat).status = status
BY DEF Sound, Seen, FailedCopy, Run, RunStatuses

\* A started run has one attempt more, and a claim.
LEMMA RunningSound ==
  ASSUME NEW t, NEW r, Sound(r, t), r.attempts < MaxRetries, stamp \in Stamps, stamp < MaxStamps, NEW b \in BOOLEAN
  PROVE  Sound(RunningCopy(r, b), t)
<1>1. r.attempts \in Nat /\ MaxRetries \in Nat /\ MaxStamps \in Nat
  BY AutomationRunsAssumption DEF Sound, Run
<1>2. stamp + 1 \in Stamps /\ stamp + 1 # 0
  BY <1>1 DEF Stamps
<1>3. RunningCopy(r, b) \in Run
  <2>1. r \in Run /\ r.attempts + 1 \in Nat /\ (r.recovery \/ b) \in BOOLEAN
    BY <1>1 DEF Sound
  <2>2. QED BY <1>2, <2>1, Names DEF Run, RunningCopy, Seen
<1>4. RunningCopy(r, b).attempts = r.attempts + 1 /\ RunningCopy(r, b).claim = stamp + 1 /\ RunningCopy(r, b).status = "running"
  BY DEF Sound, Run, RunningCopy
<1>5. QED BY <1>1, <1>2, <1>3, <1>4 DEF Sound

\* The store keeps one of two sound copies, and takes one that is not running.
LEMMA StoredSound ==
  ASSUME NEW t, NEW old, NEW new, Sound(old, t), Sound(new, t)
  PROVE  /\ Sound(Stored(old, new), t)
         /\ new.status # "running" => Stored(old, new).attempts = new.attempts
BY ZenonT(40), CopiesSound DEF Stored, Sound, Run, Seen

-----------------------------------------------------------------------------
(* Decisions of a phase. *)

\* What a phase may decide of a run, when the task is as it is.
SoundDo(d) ==
  /\ d.at \in {"pass", "put", "close", "recheck", "release", "claim", "start", "grant", "block"}
  /\ d.then \in {"next", "verify", "claim"}
  /\ d.then = "next" \/ d.at = "put"
  /\ d.seen \in Seen
  /\ Sound(d.run, task)
  /\ d.at \in Starting \/ d.then \in Starting => d.run.attempts < MaxRetries
  /\ d.then \in Starting => d.run.status # "running"

LEMMA DoSound ==
  ASSUME NEW r, Sound(r, task), NEW s \in Seen
  PROVE  /\ \A at \in {"pass", "put", "close", "recheck", "release", "block"} : SoundDo(Do(at, r, s, "next"))
         /\ SoundDo(Nothing(r, s))
         /\ SoundDo(Do("put", r, s, "verify"))
         /\ r.attempts < MaxRetries => \A at \in Starting : SoundDo(Do(at, r, s, "next"))
         /\ r.attempts < MaxRetries /\ r.status # "running" => SoundDo(Do("put", r, s, "claim"))
BY DEF SoundDo, Do, Nothing, Starting

LEMMA VerifyingStepSound ==
  ASSUME NEW r, Sound(r, task), task.status \in Statuses
  PROVE  SoundDo(VerifyingStep(r, task.status))
<1> DEFINE s == task.status
<1>1. s \in Seen
  BY Names
<1>2. CASE s = "done"
  BY <1>1, <1>2, CopiesSound, DoSound DEF VerifyingStep
<1>3. CASE s \in Terminal
  <2>1. VerifyingStep(r, s) = Do("put", TerminalCopy(r, s), s, "next")
    BY <1>3 DEF VerifyingStep, Terminal, Handed
  <2>2. QED BY <1>1, <1>3, <2>1, CopiesSound, DoSound
<1>4. CASE s # "done" /\ s \notin Terminal /\ s \in Handed /\ MayBeDone(task)
  BY <1>1, <1>4, DoSound DEF VerifyingStep
<1>5. CASE s # "done" /\ s \notin Terminal /\ ~(s \in Handed /\ MayBeDone(task))
  <2>1. \/ VerifyingStep(r, s) = Nothing(r, s)
        \/ VerifyingStep(r, s) = Do("put", [r EXCEPT !.seen = s], s, "next")
    BY <1>5 DEF VerifyingStep
  <2>2. QED BY <1>1, <2>1, CopiesSound, DoSound
<1>6. QED BY <1>2, <1>3, <1>4, <1>5

LEMMA ProgressedStepSound ==
  ASSUME NEW r, Sound(r, task), task.status \in Statuses, NEW id
  PROVE  SoundDo(ProgressedStep(id, r, task.status))
<1> DEFINE s == task.status
<1>1. s \in Seen
  BY Names
<1>2. \/ ProgressedStep(id, r, s) = Nothing(r, s)
      \/ s = "done" /\ ProgressedStep(id, r, s) = Do("put", CompletedCopy(r, s), s, "next")
      \/ s \in Terminal /\ ProgressedStep(id, r, s) = Do("put", TerminalCopy(r, s), s, "next")
      \/ ProgressedStep(id, r, s) = Do("put", VerifyingCopy(r, s), s, "verify")
  BY DEF ProgressedStep, Terminal, Handed
<1>3. QED BY <1>1, <1>2, CopiesSound, DoSound

LEMMA RunningStepSound ==
  ASSUME NEW r, Sound(r, task), task.status \in Statuses
  PROVE  SoundDo(RunningStep(r, task.status))
<1> DEFINE s == task.status
<1>1. s \in Seen
  BY Names
<1>2. \/ RunningStep(r, s) = Nothing(r, s)
      \/ s = "done" /\ RunningStep(r, s) = Do("put", CompletedCopy(r, s), s, "next")
      \/ s \in Terminal /\ RunningStep(r, s) = Do("put", TerminalCopy(r, s), s, "next")
      \/ RunningStep(r, s) = Do("put", VerifyingCopy(r, s), s, "verify")
      \/ RunningStep(r, s) = Do("recheck", r, s, "next")
      \/ RunningStep(r, s) = Do("put", [r EXCEPT !.seen = s], s, "next")
  BY DEF RunningStep, Terminal, Handed
<1>3. QED BY <1>1, <1>2, CopiesSound, DoSound

LEMMA StartingSteps ==
  ASSUME NEW r, Sound(r, task), task.status \in Statuses, NEW id
  PROVE  /\ SoundDo(StartingStep(id, r, task.status))
         /\ SoundDo(RecoverStep(id, r, task.status))
         /\ r.status = "queued" => SoundDo(PrepareStep(r, task.status))
<1> DEFINE s == task.status
<1>0. 0 < MaxRetries
  BY AutomationRunsAssumption
<1>1. s \in Seen
  BY Names
<1>2. SoundDo(StartingStep(id, r, s))
  <2>1. CASE r.claim # 0
    BY <1>1, <2>1, DoSound DEF StartingStep
  <2>2. CASE r.claim = 0
    <3>1. r.attempts < MaxRetries
      BY <1>0, <2>2 DEF Sound
    <3>2. QED BY <1>1, <3>1, DoSound DEF StartingStep, Starting
  <2>3. QED BY <2>1, <2>2
<1>3. SoundDo(RecoverStep(id, r, s))
  BY <1>1, DoSound DEF RecoverStep, CanRetry, Starting
<1>4. ASSUME r.status = "queued" PROVE SoundDo(PrepareStep(r, s))
  <2>1. r.attempts < MaxRetries /\ r \in Run
    BY <1>0, <1>4 DEF Sound
  <2>2. \/ PrepareStep(r, s) = Do("block", r, s, "next")
        \/ PrepareStep(r, s) = Do("put", FailedCopy(r, "policy_denied", "task_not_ready"), s, "next")
        \/ PrepareStep(r, s) = Do("put", [r EXCEPT !.status = "claiming", !.seen = s], s, "claim")
    BY DEF PrepareStep
  <2>3. Sound(FailedCopy(r, "policy_denied", "task_not_ready"), task)
    BY <1>1, FailedSound, Names
  <2>4. LET new == [r EXCEPT !.status = "claiming", !.seen = s]
        IN  Sound(new, task) /\ new.attempts = r.attempts /\ new.status = "claiming"
    BY <1>1, <2>1, CopiesSound DEF Run
  <2>5. QED BY <1>1, <2>1, <2>2, <2>3, <2>4, DoSound
<1>5. QED BY <1>2, <1>3, <1>4

\* Whatever phase looks at a sound run that it picks, its decision is sound.
LEMMA DecideSound ==
  ASSUME NEW r, Sound(r, task), task.status \in Statuses, NEW id, NEW ph, Picks(ph, r)
  PROVE  SoundDo(Decide(ph, id, r))
<1>1. /\ SoundDo(Nothing(r, task.status))
      /\ SoundDo(Do("release", r, task.status, "next"))
  BY DoSound, Names
<1>2. CASE ph \in {"starting", "running", "verifying", "interrupted", "recoverable", "recover"}
  BY <1>2, VerifyingStepSound, ProgressedStepSound, RunningStepSound, StartingSteps DEF Decide
<1>3. CASE ph \in {"exhausted", "repair"}
  BY <1>1, <1>3 DEF Decide
<1>4. CASE ph \notin {"starting", "running", "verifying", "interrupted", "recoverable", "recover", "exhausted", "repair"}
  <2>1. r.status = "queued"
    BY <1>4 DEF Picks
  <2>2. Decide(ph, id, r) = PrepareStep(r, task.status)
    BY <1>4 DEF Decide
  <2>3. QED BY <2>1, <2>2, StartingSteps
<1>5. QED BY <1>2, <1>3, <1>4

-----------------------------------------------------------------------------
(* Steps of a call. *)

LEMMA Lengths == Len(ClaimPhases) = 20 /\ Len(ListPhases) = 2
BY DEF ClaimPhases, ListPhases

LEMMA StepType ==
  ASSUME NEW at \in Steps, NEW ph \in 0..(Len(ClaimPhases) + 1), NEW todo \in SUBSET (RunIds \X Run),
         NEW id \in RunIds \cup {NoRun}, NEW r \in Run, NEW s \in Seen, NEW st \in Stamps, NEW then \in Steps
  PROVE  Step(at, ph, todo, id, r, s, st, then) \in Call
BY DEF Step, Call, Seen

\* Between phases and after its end a call holds nothing.
LEMMA RestSound ==
  ASSUME NEW p, NEW t
  PROVE  /\ SoundCall(p, Idle, t)
         /\ \A n \in 1..Len(ClaimPhases) : SoundCall(p, AtPhase(n + 1), t)
         /\ SoundCall(p, AtPhase(1), t)
<1>1. Sound(Absent, t) /\ Absent \in Run
  BY AbsentSound DEF Sound
<1>2. 0 \in Stamps
  BY AutomationRunsAssumption DEF Stamps
<1>3. {"idle", "list", "next"} \subseteq Steps
  BY DEF Steps
<1>4. ASSUME NEW n \in 0..(Len(ClaimPhases) + 1), NEW at \in {"idle", "list"}, at = "list" => n # 0
      PROVE  SoundCall(p, Step(at, n, {}, NoRun, Absent, "none", 0, "next"), t)
  <2> DEFINE d == Step(at, n, {}, NoRun, Absent, "none", 0, "next")
  <2>1. d \in Call
    BY <1>1, <1>2, <1>3, StepType, Names
  <2>2. d.at = at /\ d.then = "next" /\ d.run = Absent /\ d.todo = {} /\ d.phase = n
    BY DEF Step
  <2>3. /\ d.at \in {"idle", "list"} /\ d.at \notin Engaged \cup Queueing \cup Starting /\ d.at # "put"
        /\ d.then \in Thens /\ d.then = "next" /\ d.run = Absent /\ d.todo = {} /\ (d.at = "list" => d.phase # 0)
    BY <1>4, <2>2 DEF Thens, Engaged, Queueing, Starting
  <2> HIDE DEF d
  <2>4. Sound(d.run, t) /\ \A item \in d.todo : Sound(item[2], t) /\ Picks(Phases(p)[d.phase], item[2])
    BY <1>1, <2>3
  <2>5. d.at \in Starting \/ (d.at = "put" /\ d.then \in Starting) => d.run.attempts < MaxRetries
    BY <2>3
  <2>6. /\ d.at \notin {"idle", "list"} => d.phase \in 1..Len(ClaimPhases)
        /\ d.at \in Engaged => d.id \in RunIds
        /\ d.at \in Queueing => d.id \in RunIds \/ Phases(p)[d.phase] = "ready"
        /\ d.at = "put" /\ d.then \in Starting => d.run.status # "running"
    BY <2>3
  <2>7. SoundCall(p, d, t)
    BY <2>1, <2>3, <2>4, <2>5, <2>6 DEF SoundCall
  <2>8. QED BY <2>7 DEF d
<1>5. \A n \in 1..Len(ClaimPhases) : n + 1 \in 0..(Len(ClaimPhases) + 1) /\ n + 1 # 0
  BY Lengths
<1>6. 0 \in 0..(Len(ClaimPhases) + 1) /\ 1 \in 0..(Len(ClaimPhases) + 1)
  BY Lengths
<1>7. QED BY <1>4, <1>5, <1>6 DEF Idle, AtPhase

\* Soundness of a call survives every change of the task that keeps it done once it is.
LEMMA SoundCallLater ==
  ASSUME NEW p, NEW c, NEW t, NEW u, SoundCall(p, c, t), t.status = "done" => u.status = "done"
  PROVE  SoundCall(p, c, u)
BY SoundLater DEF SoundCall

\* A call that goes on with the run in hand is sound.
LEMMA Advance ==
  ASSUME NEW p, NEW c, NEW t, SoundCall(p, c, t), c.at \notin {"idle", "list"},
         NEW d \in Call, d.phase = c.phase, d.todo \subseteq c.todo,
         d.id \in RunIds \/ (d.at \in Queueing /\ d.id = c.id /\ c.at \in Queueing), d.at \in Engaged \cup Queueing, d.then \in Thens,
         d.then = "next" \/ d.at = "put", Sound(d.run, t),
         d.at \in Starting \/ (d.at = "put" /\ d.then \in Starting) => d.run.attempts < MaxRetries,
         d.at = "put" /\ d.then \in Starting => d.run.status # "running"
  PROVE  SoundCall(p, d, t)
<1>1. d.at \in Engaged => d.id \in RunIds
  BY DEF Engaged, Queueing
<1>2. QED BY <1>1 DEF SoundCall

\* So is one that leaves it for the next run or the next phase.
LEMMA GoOnSound ==
  ASSUME NEW p, NEW c, NEW t, c \in Call, c.phase \in 1..Len(ClaimPhases),
         \A item \in c.todo : Sound(item[2], t) /\ Picks(Phases(p)[c.phase], item[2])
  PROVE  SoundCall(p, GoOn(c), t)
<1>1. CASE c.todo = {}
  BY <1>1, RestSound DEF GoOn
<1>2. CASE c.todo # {}
  <2> DEFINE d == Step("each", c.phase, c.todo, NoRun, Absent, "none", 0, "next")
  <2>1. Sound(Absent, t) /\ Absent \in Run /\ 0 \in Stamps
    BY AbsentSound, AutomationRunsAssumption DEF Sound, Stamps
  <2>2. {"each", "next"} \subseteq Steps /\ c.phase \in 0..(Len(ClaimPhases) + 1) /\ c.todo \in SUBSET (RunIds \X Run)
    BY Lengths DEF Steps, Call
  <2>3. d \in Call
    BY <2>1, <2>2, StepType, Names
  <2>4. d.at = "each" /\ d.then = "next" /\ d.run = Absent /\ d.todo = c.todo /\ d.phase = c.phase
    BY DEF Step
  <2>5. GoOn(c) = d
    BY <1>2 DEF GoOn
  <2> HIDE DEF d
  <2>6. SoundCall(p, d, t)
    BY <2>1, <2>3, <2>4 DEF SoundCall, Thens, Engaged, Queueing, Starting
  <2>7. QED BY <2>5, <2>6
<1>3. QED BY <1>1, <1>2

LEMMA LeavingSound ==
  ASSUME NEW p \in Callers, NEW t, SoundCall(p, call[p], t), call[p].at \notin {"idle", "list"}
  PROVE  SoundCall(p, GoOn(call[p]), t) /\ SoundCall(p, Fail(p), t)
BY GoOnSound, RestSound DEF SoundCall, Fail

-----------------------------------------------------------------------------
(* What a step must keep. *)

RunnerStates == [run : RunIds \cup {NoRun}, claim : Stamps, beat : Stamps, moved : BOOLEAN]

\* A step of one caller.
LEMMA Stepped ==
  ASSUME IInv, NEW p \in Callers, NEW c, SoundCall(p, c, task'), Goto(p, c),
         task' \in Task, task.status = "done" => task'.status = "done",
         \A id \in RunIds : Sound(runs'[id], task'), runs' \in [RunIds -> Run],
         runner' \in [Runners -> RunnerStates], \A w \in Runners : Known(runner'[w]),
         stamp' \in Stamps, now' = now, faults' \in 0..MaxFaults, polls' \in 0..MaxClientCalls
  PROVE  IInv'
<1>1. \A q \in Callers : SoundCall(q, call'[q], task')
  BY SoundCallLater DEF IInv, Goto, Typed
<1>2. call' \in [Callers -> Call]
  BY DEF IInv, Goto, Typed, SoundCall
<1>3. Typed'
  BY <1>2 DEF IInv, Typed, RunnerStates
<1>4. QED BY <1>1, <1>3 DEF IInv

\* A step of one caller that changes nothing else.
LEMMA CallStepped ==
  ASSUME IInv, NEW p \in Callers, NEW c, SoundCall(p, c, task), Goto(p, c),
         UNCHANGED <<task, runs, runner, stamp, now>>, faults' \in 0..MaxFaults, polls' \in 0..MaxClientCalls
  PROVE  IInv'
BY Stepped DEF IInv, Typed, RunnerStates

\* One that changes only the task.
LEMMA TaskStepped ==
  ASSUME IInv, NEW p \in Callers, NEW c, SoundCall(p, c, task'), Goto(p, c),
         task' \in Task, task.status = "done" => task'.status = "done",
         UNCHANGED <<runs, runner, stamp, now, faults, polls>>
  PROVE  IInv'
<1>1. \A id \in RunIds : Sound(runs'[id], task')
  BY SoundLater DEF IInv
<1>2. QED BY <1>1, Stepped DEF IInv, Typed, RunnerStates

\* What the invariant says of a caller's step.
LEMMA CallKnown ==
  ASSUME IInv, NEW p \in Callers
  PROVE  /\ SoundCall(p, call[p], task) /\ call[p] \in Call /\ Sound(call[p].run, task)
         /\ call[p].at \in Engaged => call[p].id \in RunIds
         /\ call[p].at \notin {"idle", "list"} => call[p].phase \in 1..Len(ClaimPhases)
         /\ call[p].run \in Run /\ call[p].seen \in Seen
         /\ task \in Task /\ task.status \in Statuses
         /\ \A id \in RunIds : Sound(runs[id], task)
BY DEF IInv, SoundCall, Typed, Call, Seen, Task

-----------------------------------------------------------------------------
(* The steps of claims and lists. *)

LEMMA LeastElement ==
  ASSUME NEW S, S \subseteq Nat, S # {}
  PROVE  \E n \in S : \A m \in S : n <= m
<1>1. PICK n \in S : \A m \in S : <<m, n>> \notin OpToRel(<, Nat)
  BY NatLessThanWellFounded, WFMin
<1>2. ASSUME NEW m \in S, m < n PROVE FALSE
  <2>1. <<m, n>> \in OpToRel(<, Nat)
    BY <1>2 DEF OpToRel
  <2>2. QED BY <1>1, <2>1
<1>3. QED BY <1>2

LEMMA ListSound ==
  ASSUME IInv, Markers, NEW p \in Callers, List(p)
  PROVE  IInv'
<1> DEFINE later == {n \in call[p].phase..Len(Phases(p)) : HasWork(Phases(p)[n])}
           n == CHOOSE n \in later : \A m \in later : n <= m
           ph == Phases(p)[n]
           step == Step("queue", n, {}, NoRun, Absent, task.status, 0, "next")
           queueing == [step EXCEPT !.pardoned = forgiven]
           looking == Step("each", n, {<<id, runs[id]>> : id \in Picked(ph)}, NoRun, Absent, "none", 0, "next")
<1>0. faults' \in 0..MaxFaults /\ polls' \in 0..MaxClientCalls
  BY DEF List, IInv, Typed
<1>1. CASE later = {}
  BY <1>0, <1>1, CallStepped, RestSound DEF List
<1>2. CASE later # {}
  <2>0. call[p].at = "list" /\ call[p].phase \in 1..21
    BY CallKnown, Lengths DEF List, SoundCall, Call
  <2>1. Len(Phases(p)) \in {2, 20}
    BY Lengths DEF Phases
  <2>2. later \subseteq 1..20
    BY SMTT(30), <2>0, <2>1
  <2>3. n \in 1..20
    <3> HIDE DEF later
    <3>1. later \subseteq Nat
      BY <2>2
    <3>2. \E m \in later : \A k \in later : m <= k
      BY <1>2, <3>1, LeastElement
    <3>3. n \in later
      BY <3>2
    <3>4. QED BY <2>2, <3>3
  <2>4. n \in 0..(Len(ClaimPhases) + 1) /\ n \in 1..Len(ClaimPhases)
    <3> HIDE DEF n
    <3>1. QED BY <2>3, Lengths
  <2>5. Absent \in Run /\ Sound(Absent, task) /\ 0 \in Stamps /\ {"queue", "each", "next"} \subseteq Steps
    BY AbsentSound, AutomationRunsAssumption DEF Sound, Stamps, Steps
  <2>6. queueing \in Call
    <3>1. step \in Call
      BY <2>4, <2>5, StepType, CallKnown, Names
    <3> HIDE DEF step
    <3>2. QED BY <3>1 DEF Call, Markers
  <2>7. {<<id, runs[id]>> : id \in Picked(ph)} \in SUBSET (RunIds \X Run)
    BY DEF IInv, Typed, Picked
  <2>8. looking \in Call
    BY <2>4, <2>5, <2>7, StepType, Names
  <2>9. CASE ph = "ready"
    <3>1. queueing.at = "queue" /\ queueing.phase = n /\ queueing.then = "next" /\ queueing.run = Absent /\ queueing.todo = {}
      BY DEF Step
    <3>2. Goto(p, queueing)
      BY <1>2, <2>9 DEF List
    <3> HIDE DEF queueing
    <3>3. SoundCall(p, queueing, task)
      BY <2>4, <2>5, <2>6, <2>9, <3>1 DEF SoundCall, Engaged, Queueing, Starting, Thens
    <3>4. QED BY <1>0, <3>2, <3>3, CallStepped DEF List
  <2>10. CASE ph # "ready"
    <3>1. /\ looking.at = "each" /\ looking.phase = n /\ looking.then = "next" /\ looking.run = Absent
          /\ looking.todo = {<<id, runs[id]>> : id \in Picked(ph)}
      BY DEF Step
    <3>2. Goto(p, looking)
      BY <1>2, <2>10 DEF List
    <3> HIDE DEF looking
    <3>3. \A item \in looking.todo : Sound(item[2], task) /\ Picks(ph, item[2])
      <4>1. ASSUME NEW id \in Picked(ph) PROVE Sound(runs[id], task) /\ Picks(ph, runs[id])
        BY CallKnown DEF Picked
      <4>2. ASSUME NEW item \in looking.todo PROVE Sound(item[2], task) /\ Picks(ph, item[2])
        <5>1. PICK id \in Picked(ph) : item = <<id, runs[id]>>
          BY <3>1, <4>2
        <5>2. item[2] = runs[id]
          BY <5>1
        <5>3. QED BY <4>1, <5>2
      <4>3. QED BY <4>2
    <3>4. SoundCall(p, looking, task)
      BY <2>4, <2>5, <2>8, <3>1, <3>3 DEF SoundCall, Engaged, Queueing, Starting, Thens
    <3>5. QED BY <1>0, <3>2, <3>4, CallStepped DEF List
  <2>11. QED BY <2>9, <2>10
<1>3. QED BY <1>1, <1>2

LEMMA BeginSound ==
  ASSUME IInv, NEW p \in Callers, BeginClaim(p) \/ BeginList(p) \/ Cut(p)
  PROVE  IInv'
<1>1. Goto(p, AtPhase(1)) \/ Goto(p, Idle)
  BY DEF BeginClaim, BeginList, Cut
<1>2. faults' \in 0..MaxFaults /\ polls' \in 0..MaxClientCalls
  BY AutomationRunsAssumption DEF BeginClaim, BeginList, Cut, Fault, IInv, Typed
<1>3. UNCHANGED <<task, runs, runner, stamp, now>>
  BY DEF BeginClaim, BeginList, Cut
<1>4. QED BY <1>1, <1>2, <1>3, CallStepped, RestSound

LEMMA EachSound ==
  ASSUME IInv, NEW p \in Callers, Each(p)
  PROVE  IInv'
<1> DEFINE c == call[p]
<1>0. /\ faults' \in 0..MaxFaults /\ polls' \in 0..MaxClientCalls /\ UNCHANGED <<task, runs, runner, stamp, now>>
      /\ c.at = "each"
  BY DEF Each, IInv, Typed
<1>1. PICK item \in c.todo :
        LET d    == Decide(Phase(p), item[1], item[2])
            rest == [c EXCEPT !.todo = @ \ {item}]
        IN  Goto(p, IF d.at = "pass" THEN GoOn(rest)
                    ELSE [rest EXCEPT !.at = d.at, !.id = item[1], !.run = d.run, !.seen = d.seen, !.then = d.then])
  BY DEF Each
<1> DEFINE d    == Decide(Phase(p), item[1], item[2])
           rest == [c EXCEPT !.todo = @ \ {item}]
           next == [rest EXCEPT !.at = d.at, !.id = item[1], !.run = d.run, !.seen = d.seen, !.then = d.then]
<1>2. SoundCall(p, c, task) /\ c \in Call /\ task.status \in Statuses /\ c.phase \in 1..Len(ClaimPhases)
  BY <1>0, CallKnown
<1>3. item[1] \in RunIds
  BY <1>2 DEF Call
<1>4. \A other \in c.todo : Sound(other[2], task) /\ Picks(Phases(p)[c.phase], other[2])
  BY <1>2 DEF SoundCall
<1>5. SoundDo(d)
  <2>1. Sound(item[2], task) /\ Picks(Phase(p), item[2])
    BY <1>4 DEF Phase
  <2>2. QED BY <1>2, <2>1, DecideSound
<1> HIDE DEF d
<1>6. /\ d.at \in Steps /\ d.then \in Steps /\ d.then \in Thens /\ d.run \in Run /\ d.seen \in Seen
      /\ d.at # "pass" => d.at \in Engaged \cup Queueing
      /\ d.at \in Queueing => d.at = "block"
  BY <1>5 DEF SoundDo, Steps, Thens, Engaged, Queueing, Sound
<1>7. rest \in Call /\ next \in Call
  <2>1. rest \in Call
    BY <1>2 DEF Call
  <2> HIDE DEF rest
  <2>2. QED BY <1>3, <1>6, <2>1 DEF Call, Seen
<1>8. rest.todo = c.todo \ {item} /\ rest.phase = c.phase
  BY <1>2 DEF Call
<1>9. SoundCall(p, GoOn(rest), task)
  <2> HIDE DEF rest
  <2>1. QED BY <1>2, <1>4, <1>7, <1>8, GoOnSound
<1>10. /\ next.phase = c.phase /\ next.todo = c.todo \ {item} /\ next.id = item[1]
       /\ next.at = d.at /\ next.then = d.then /\ next.run = d.run
  BY <1>2 DEF Call
<1>11. ASSUME d.at # "pass" PROVE SoundCall(p, next, task)
  <2> HIDE DEF next
  <2>1. QED BY <1>0, <1>2, <1>3, <1>5, <1>6, <1>7, <1>10, <1>11, Advance DEF SoundDo
<1>12. QED BY <1>0, <1>1, <1>9, <1>11, CallStepped DEF d

LEMMA PutSound ==
  ASSUME IInv, NEW p \in Callers, Put(p)
  PROVE  IInv'
<1> DEFINE c == call[p]
           stored == Stored(runs[c.id], c.run)
           rest == [c EXCEPT !.run = stored, !.at = c.then, !.then = "next"]
<1>0. /\ c.at = "put" /\ runs' = [runs EXCEPT ![c.id] = stored]
      /\ Goto(p, GoOn(c)) \/ (c.then # "next" /\ Goto(p, rest))
      /\ UNCHANGED <<task, runner, stamp, now, faults, polls>>
  BY DEF Put
<1>1. /\ SoundCall(p, c, task) /\ c \in Call /\ c.id \in RunIds /\ Sound(c.run, task)
      /\ \A id \in RunIds : Sound(runs[id], task)
  BY <1>0, CallKnown DEF Engaged
<1>2. Sound(stored, task) /\ (c.run.status # "running" => stored.attempts = c.run.attempts)
  BY <1>1, StoredSound
<1>3. SoundCall(p, GoOn(c), task)
  BY <1>0, LeavingSound, <1>1
<1> HIDE DEF stored
<1>4. stored \in Run
  BY <1>2 DEF Sound
<1>5. runs' \in [RunIds -> Run] /\ \A id \in RunIds : Sound(runs'[id], task)
  BY <1>0, <1>1, <1>2, <1>4 DEF IInv, Typed
<1>6. ASSUME c.then # "next" PROVE SoundCall(p, rest, task)
  <2>1. c.then \in Thens /\ c.then \in Steps /\ "next" \in Steps
    BY <1>1 DEF SoundCall, Thens, Steps
  <2>2. rest \in Call
    BY <1>1, <1>4, <2>1 DEF Call
  <2>3. /\ rest.phase = c.phase /\ rest.todo = c.todo /\ rest.id = c.id
        /\ rest.at = c.then /\ rest.then = "next" /\ rest.run = stored
    BY <1>1 DEF Call
  <2>4. c.then \in Engaged \cup Queueing /\ c.then # "put"
    BY <1>6, <2>1 DEF Thens, Engaged, Queueing
  <2>5. c.then \in Starting => stored.attempts < MaxRetries
    BY <1>0, <1>1, <1>2 DEF SoundCall
  <2> HIDE DEF rest
  <2>6. QED BY <1>0, <1>1, <1>2, <2>2, <2>3, <2>4, <2>5, Advance DEF Thens
<1>7. QED BY <1>0, <1>3, <1>5, <1>6, Stepped DEF IInv, Typed, RunnerStates

LEMMA VerifySound ==
  ASSUME IInv, NEW p \in Callers, Verify(p)
  PROVE  IInv'
<1> DEFINE c == call[p]
           d == VerifyingStep(c.run, task.status)
           next == [c EXCEPT !.at = d.at, !.run = d.run, !.seen = d.seen, !.then = d.then]
<1>0. /\ c.at = "verify" /\ (Goto(p, GoOn(c)) \/ (d.at # "pass" /\ Goto(p, next)))
      /\ UNCHANGED <<task, runs, runner, stamp, now, faults, polls>>
      /\ faults' \in 0..MaxFaults /\ polls' \in 0..MaxClientCalls
  BY DEF Verify, IInv, Typed
<1>1. SoundCall(p, c, task) /\ c \in Call /\ c.id \in RunIds /\ Sound(c.run, task) /\ task.status \in Statuses
  BY <1>0, CallKnown DEF Engaged
<1>2. SoundDo(d)
  BY <1>1, VerifyingStepSound
<1> HIDE DEF d
<1>3. /\ d.at \in Steps /\ d.then \in Steps /\ d.then \in Thens /\ d.run \in Run /\ d.seen \in Seen
      /\ d.at # "pass" => d.at \in Engaged \cup Queueing
  BY <1>2 DEF SoundDo, Steps, Thens, Engaged, Queueing, Sound
<1>4. next \in Call
  BY <1>1, <1>3 DEF Call, Seen
<1>5. /\ next.phase = c.phase /\ next.todo = c.todo /\ next.id = c.id
      /\ next.at = d.at /\ next.then = d.then /\ next.run = d.run
  BY <1>1 DEF Call
<1>6. ASSUME d.at # "pass" PROVE SoundCall(p, next, task)
  <2> HIDE DEF next
  <2>1. QED BY <1>0, <1>1, <1>2, <1>3, <1>4, <1>5, <1>6, Advance DEF SoundDo
<1>7. SoundCall(p, GoOn(c), task)
  BY <1>0, <1>1, LeavingSound
<1>8. QED BY <1>0, <1>6, <1>7, CallStepped

LEMMA CloseSound ==
  ASSUME IInv, NEW p \in Callers, Close(p)
  PROVE  IInv'
<1> DEFINE c == call[p]
           new == Changed(task, c.id, "done", {}, {}, FALSE)
           next == [c EXCEPT !.at = "put", !.run = CompletedCopy(c.run, "done"), !.seen = "done"]
<1>0. /\ c.at = "close" /\ UNCHANGED <<runs, runner, stamp, now, faults, polls>>
      /\ (task' = new /\ Goto(p, next)) \/ (task' = task /\ Goto(p, Fail(p)))
      /\ faults' \in 0..MaxFaults /\ polls' \in 0..MaxClientCalls
  BY DEF Close, IInv, Typed
<1>1. SoundCall(p, c, task) /\ c \in Call /\ c.id \in RunIds /\ Sound(c.run, task) /\ task \in Task
  BY <1>0, CallKnown DEF Engaged
<1>2. CASE task' = task /\ Goto(p, Fail(p))
  BY <1>0, <1>1, <1>2, LeavingSound, CallStepped
<1>3. CASE task' = new /\ Goto(p, next)
  <2>1. new \in Task /\ new.status = "done"
    <3>1. "done" \in Statuses
      BY DEF Statuses, Finished
    <3>2. QED BY ZenonT(40), <1>1, <3>1, ChangedType
  <2> HIDE DEF new
  <2>2. Sound(c.run, new) /\ SoundCall(p, c, new)
    BY <1>1, <2>1, SoundLater, SoundCallLater
  <2>3. Sound(CompletedCopy(c.run, "done"), new)
    BY <2>1, <2>2, CopiesSound, Names
  <2>4. CompletedCopy(c.run, "done") \in Run
    BY <2>3 DEF Sound
  <2>5. next \in Call
    BY <1>1, <2>4, Names DEF Call, Steps, Seen
  <2>6. /\ next.phase = c.phase /\ next.todo = c.todo /\ next.id = c.id
        /\ next.at = "put" /\ next.then = c.then /\ next.run = CompletedCopy(c.run, "done")
    BY <1>1 DEF Call
  <2>7. c.then = "next" /\ "next" \in Thens /\ "next" \notin Starting /\ "put" \in Engaged /\ "put" \notin Starting
    BY <1>0, <1>1 DEF SoundCall, Thens, Starting, Engaged
  <2> HIDE DEF next
  <2>8. SoundCall(p, next, new)
    BY <1>0, <1>1, <2>2, <2>3, <2>5, <2>6, <2>7, Advance
  <2>9. QED BY <1>0, <1>3, <2>1, <2>8, TaskStepped
<1>4. QED BY <1>0, <1>2, <1>3

LEMMA RecheckSound ==
  ASSUME IInv, NEW p \in Callers, Recheck(p)
  PROVE  IInv'
<1> DEFINE c == call[p]
           r == InterruptedCopy(runs[c.id], c.seen)
           next == [c EXCEPT !.at = "put", !.run = r, !.then = "release"]
<1>0. /\ c.at = "recheck" /\ UNCHANGED <<task, runs, runner, stamp, now, faults, polls>>
      /\ Goto(p, next) \/ Goto(p, GoOn(c))
      /\ faults' \in 0..MaxFaults /\ polls' \in 0..MaxClientCalls
  BY DEF Recheck, IInv, Typed
<1>1. SoundCall(p, c, task) /\ c \in Call /\ c.id \in RunIds /\ Sound(runs[c.id], task) /\ c.seen \in Seen
  BY <1>0, CallKnown DEF Engaged
<1>2. Sound(r, task)
  BY <1>1, CopiesSound
<1> HIDE DEF r
<1>3. r \in Run
  BY <1>2 DEF Sound
<1>4. next \in Call
  BY <1>1, <1>3 DEF Call, Steps
<1>5. /\ next.phase = c.phase /\ next.todo = c.todo /\ next.id = c.id
      /\ next.at = "put" /\ next.then = "release" /\ next.run = r
  BY <1>1 DEF Call
<1>6. "put" \in Engaged /\ "put" \notin Starting /\ "release" \in Thens /\ "release" \notin Starting
  BY DEF Engaged, Starting, Thens
<1> HIDE DEF next
<1>7. SoundCall(p, next, task)
  BY <1>0, <1>1, <1>2, <1>4, <1>5, <1>6, Advance
<1>8. QED BY <1>0, <1>1, <1>7, LeavingSound, CallStepped

LEMMA ReleaseSound ==
  ASSUME IInv, Markers, Markers', NEW p \in Callers, Release(p)
  PROVE  IInv'
<1> DEFINE c == call[p]
           new == Released(c.id)
           r == [FailedCopy(c.run, "failed", "exhausted") EXCEPT !.seen = new.status, !.recovery = FALSE]
           failed == [c EXCEPT !.at = "put", !.seen = new.status, !.pardoned = forgiven', !.then = "queue", !.run = r]
           queueing == [c EXCEPT !.at = "queue", !.seen = new.status, !.pardoned = forgiven', !.run = Absent]
<1>0. /\ c.at = "release" /\ UNCHANGED <<runs, runner, stamp, now, faults, polls>>
      /\ \/ task' = new /\ (Goto(p, failed) \/ Goto(p, queueing))
         \/ task' = task /\ (Goto(p, GoOn(c)) \/ Goto(p, Fail(p)))
      /\ faults' \in 0..MaxFaults /\ polls' \in 0..MaxClientCalls
  BY DEF Release, IInv, Typed
<1>1. SoundCall(p, c, task) /\ c \in Call /\ c.id \in RunIds /\ Sound(c.run, task) /\ task \in Task
  BY <1>0, CallKnown DEF Engaged
<1>2. CASE task' = task /\ (Goto(p, GoOn(c)) \/ Goto(p, Fail(p)))
  BY <1>0, <1>1, <1>2, LeavingSound, CallStepped
<1>3. CASE task' = new /\ (Goto(p, failed) \/ Goto(p, queueing))
  <2>1. new \in Task /\ (task.status = "done" => new.status = "done")
    BY <1>1, ReleasedType
  <2> HIDE DEF new
  <2>2. new.status \in Seen
    BY <2>1, Names DEF Task
  <2>3. Sound(c.run, new) /\ SoundCall(p, c, new)
    BY <1>1, <2>1, SoundLater, SoundCallLater
  <2>4. Sound(r, new) /\ Sound(Absent, new)
    BY <2>2, <2>3, FailedSound, AbsentSound, Names
  <2> HIDE DEF r
  <2>5. r \in Run /\ Absent \in Run
    BY <2>4 DEF Sound
  <2>6. failed \in Call /\ queueing \in Call
    BY <1>1, <2>2, <2>5 DEF Call, Steps, Seen, Markers
  <2>7. /\ failed.phase = c.phase /\ failed.todo = c.todo /\ failed.id = c.id
        /\ failed.at = "put" /\ failed.then = "queue" /\ failed.run = r
    BY <1>1 DEF Call
  <2>8. /\ queueing.phase = c.phase /\ queueing.todo = c.todo /\ queueing.id = c.id
        /\ queueing.at = "queue" /\ queueing.then = c.then /\ queueing.run = Absent
    BY <1>1 DEF Call
  <2>9. c.then = "next"
    BY <1>0, <1>1 DEF SoundCall
  <2>10. /\ {"put"} \subseteq Engaged /\ "queue" \in Queueing /\ {"queue", "next"} \subseteq Thens
         /\ "put" \notin Starting /\ "queue" \notin Starting
    BY DEF Engaged, Queueing, Thens, Starting
  <2> HIDE DEF failed, queueing
  <2>11. SoundCall(p, failed, new)
    BY <1>0, <1>1, <2>3, <2>4, <2>6, <2>7, <2>10, Advance
  <2>12. SoundCall(p, queueing, new)
    BY <1>0, <1>1, <2>3, <2>4, <2>6, <2>8, <2>9, <2>10, Advance
  <2>13. QED BY <1>0, <1>3, <2>1, <2>11, <2>12, TaskStepped
<1>4. QED BY <1>0, <1>2, <1>3

LEMMA QueueSound ==
  ASSUME IInv, NEW p \in Callers, Queue(p)
  PROVE  IInv'
<1> DEFINE c == call[p]
<1>0. /\ c.at = "queue" /\ UNCHANGED <<task, runs, runner, stamp, now, faults, polls>>
      /\ Goto(p, GoOn(c)) \/ \E at \in {"block", "create"} : Goto(p, [c EXCEPT !.at = at])
      /\ faults' \in 0..MaxFaults /\ polls' \in 0..MaxClientCalls
  BY DEF Queue, IInv, Typed
<1>1. SoundCall(p, c, task) /\ c \in Call /\ Sound(c.run, task)
  BY <1>0, CallKnown
<1>2. ASSUME NEW at \in {"block", "create"} PROVE SoundCall(p, [c EXCEPT !.at = at], task)
  <2> DEFINE next == [c EXCEPT !.at = at]
  <2>1. next \in Call
    BY <1>1 DEF Call, Steps
  <2>2. /\ next.phase = c.phase /\ next.todo = c.todo /\ next.id = c.id
        /\ next.at = at /\ next.then = c.then /\ next.run = c.run
    BY <1>1 DEF Call
  <2>3. /\ {"block", "create", "queue"} \subseteq Queueing /\ at \notin Starting /\ c.then = "next"
        /\ "next" \in Thens
    BY <1>0, <1>1 DEF SoundCall, Queueing, Thens, Starting
  <2>4. SoundCall(p, next, task)
    <3> HIDE DEF next
    <3>1. QED BY <1>0, <1>1, <2>1, <2>2, <2>3, Advance
  <2>5. QED BY <2>4
<1>3. SoundCall(p, GoOn(c), task)
  BY <1>0, <1>1, LeavingSound
<1>4. QED BY <1>0, <1>2, <1>3, CallStepped

LEMMA CreatedSound ==
  ASSUME IInv, NEW automatic \in BOOLEAN
  PROVE  Created(automatic) \in [RunIds -> Run] /\ \A id \in RunIds : Sound(Created(automatic)[id], task)
<1> DEFINE first == CHOOSE id \in RunIds \ Existing : \A other \in RunIds \ Existing : id <= other
<1>1. Sound(NewRun(automatic), task) /\ NewRun(automatic) \in Run
  BY AbsentSound DEF Sound
<1>2. runs \in [RunIds -> Run] /\ \A id \in RunIds : Sound(runs[id], task)
  BY DEF IInv, Typed
<1>3. Created(automatic) = runs \/ Created(automatic) = [runs EXCEPT ![first] = NewRun(automatic)]
  BY DEF Created
<1> HIDE DEF first
<1>4. QED BY <1>1, <1>2, <1>3

LEMMA CreateSound ==
  ASSUME IInv, NEW p \in Callers, Create(p)
  PROVE  IInv'
<1>0. /\ call[p].at = "create" /\ runs' = Created(TRUE) /\ Goto(p, GoOn(call[p]))
      /\ UNCHANGED <<task, runner, stamp, now, faults, polls>>
  BY DEF Create
<1>1. SoundCall(p, GoOn(call[p]), task)
  BY <1>0, CallKnown, LeavingSound
<1>2. runs' \in [RunIds -> Run] /\ \A id \in RunIds : Sound(runs'[id], task)
  BY <1>0, CreatedSound
<1>3. QED BY <1>0, <1>1, <1>2, Stepped DEF IInv, Typed, RunnerStates

LEMMA BlockSound ==
  ASSUME IInv, NEW p \in Callers, Block(p)
  PROVE  IInv'
<1> DEFINE c == call[p]
           new == Changed(task, NoRun, "blocked", {}, {}, FALSE)
           r == [FailedCopy(c.run, "blocked", "other") EXCEPT !.seen = "blocked", !.recovery = FALSE]
           next == [c EXCEPT !.at = "put", !.run = r]
<1>0. /\ c.at = "block" /\ UNCHANGED <<runs, runner, stamp, now, faults, polls>>
      /\ \/ /\ task' = new /\ Permitted(task, NoRun, "blocked")
            /\ Goto(p, GoOn(c)) \/ (Phase(p) = "queued" /\ Goto(p, next))
         \/ task' = task /\ (Goto(p, GoOn(c)) \/ Goto(p, Fail(p)))
      /\ faults' \in 0..MaxFaults /\ polls' \in 0..MaxClientCalls
  BY DEF Block, IInv, Typed
<1>1. SoundCall(p, c, task) /\ c \in Call /\ Sound(c.run, task) /\ task \in Task
  BY <1>0, CallKnown
<1>2. CASE task' = task /\ (Goto(p, GoOn(c)) \/ Goto(p, Fail(p)))
  BY <1>0, <1>1, <1>2, LeavingSound, CallStepped
<1>3. CASE task' = new /\ Permitted(task, NoRun, "blocked") /\ (Goto(p, GoOn(c)) \/ (Phase(p) = "queued" /\ Goto(p, next)))
  <2>1. new \in Task /\ task.status # "done"
    <3>1. "blocked" \in Statuses
      BY DEF Statuses
    <3>2. QED BY <1>1, <1>3, <3>1, ChangedType, DoneRefuses
  <2> HIDE DEF new
  <2>2. Sound(c.run, new) /\ SoundCall(p, c, new)
    BY <1>1, <2>1, SoundLater, SoundCallLater
  <2>3. Sound(r, new)
    BY <2>2, FailedSound, Names
  <2> HIDE DEF r
  <2>4. r \in Run
    BY <2>3 DEF Sound
  <2>5. ASSUME Phase(p) = "queued" PROVE SoundCall(p, next, new)
    <3>1. next \in Call
      BY <1>1, <2>4 DEF Call, Steps
    <3>2. /\ next.phase = c.phase /\ next.todo = c.todo /\ next.id = c.id
          /\ next.at = "put" /\ next.then = c.then /\ next.run = r
      BY <1>1 DEF Call
    <3>3. c.then = "next" /\ c.id \in RunIds
      BY <1>0, <1>1, <2>5 DEF SoundCall, Phase, Queueing
    <3>4. "put" \in Engaged /\ "put" \notin Starting /\ "next" \in Thens /\ "next" \notin Starting
      BY DEF Engaged, Starting, Thens
    <3> HIDE DEF next
    <3>5. QED BY <1>0, <2>2, <2>3, <3>1, <3>2, <3>3, <3>4, Advance
  <2>6. SoundCall(p, GoOn(c), new)
    BY <1>0, <2>2, <1>1, GoOnSound DEF SoundCall
  <2>7. QED BY <1>0, <1>3, <2>1, <2>5, <2>6, TaskStepped
<1>4. QED BY <1>0, <1>2, <1>3

LEMMA ClaimSound ==
  ASSUME IInv, NEW p \in Callers, Claim(p)
  PROVE  IInv'
<1> DEFINE c == call[p]
           new == Changed(task, c.id, "claimed", {}, {}, FALSE)
           r == [c.run EXCEPT !.status = "starting", !.seen = "claimed"]
           b == FailedCopy(c.run, "blocked", "recoverable")
           starting == [c EXCEPT !.at = "put", !.run = r, !.then = "start"]
           blocked  == [c EXCEPT !.at = "put", !.run = b]
           onward   == [c EXCEPT !.at = "start"]
<1>0. /\ c.at = "claim" /\ UNCHANGED <<runs, runner, stamp, now, faults, polls>>
      /\ faults' \in 0..MaxFaults /\ polls' \in 0..MaxClientCalls
  BY DEF Claim, IInv, Typed
<1>1. \/ task' = new /\ Permitted(task, c.id, "claimed") /\ (Goto(p, starting) \/ Goto(p, onward))
      \/ task' = task /\ (Goto(p, GoOn(c)) \/ Goto(p, blocked))
  <2>1. call[p] \in Call
    BY CallKnown
  <2>2. c.run = call[p].run
    OBVIOUS
  <2>3. QED BY <2>1, <2>2 DEF Claim
<1>2. SoundCall(p, c, task) /\ c \in Call /\ c.id \in RunIds /\ Sound(c.run, task) /\ task \in Task
  BY <1>0, CallKnown DEF Engaged
<1>3. c.then = "next" /\ c.run.attempts < MaxRetries
  BY <1>0, <1>2 DEF SoundCall, Starting
<1>4. /\ {"put", "start"} \subseteq Engaged /\ "put" \notin Starting /\ "start" \in Starting
      /\ {"start", "next"} \subseteq Thens /\ "next" \notin Starting
  BY DEF Engaged, Starting, Thens
<1>5. CASE task' = task /\ (Goto(p, GoOn(c)) \/ Goto(p, blocked))
  <2>1. Sound(b, task)
    BY <1>2, FailedSound, Names
  <2> HIDE DEF b
  <2>2. b \in Run
    BY <2>1 DEF Sound
  <2>3. blocked \in Call
    BY <1>2, <2>2 DEF Call, Steps
  <2>4. /\ blocked.phase = c.phase /\ blocked.todo = c.todo /\ blocked.id = c.id
        /\ blocked.at = "put" /\ blocked.then = c.then /\ blocked.run = b
    BY <1>2 DEF Call
  <2> HIDE DEF blocked
  <2>5. SoundCall(p, blocked, task)
    BY <1>0, <1>2, <1>3, <1>4, <2>1, <2>3, <2>4, Advance
  <2>6. QED BY <1>0, <1>2, <1>5, <2>5, LeavingSound, CallStepped
<1>6. CASE task' = new /\ Permitted(task, c.id, "claimed") /\ (Goto(p, starting) \/ Goto(p, onward))
  <2>1. new \in Task /\ task.status # "done"
    <3>1. "claimed" \in Statuses
      BY DEF Statuses
    <3>2. QED BY <1>2, <1>6, <3>1, ChangedType, DoneRefuses
  <2> HIDE DEF new
  <2>2. Sound(c.run, new) /\ SoundCall(p, c, new)
    BY <1>2, <2>1, SoundLater, SoundCallLater
  <2>3. Sound(r, new) /\ r.attempts = c.run.attempts /\ r.status = "starting"
    <3>1. Sound(r, new)
      BY <2>2, CopiesSound, Names
    <3>2. c.run \in Run
      BY <2>2 DEF Sound
    <3>3. r.attempts = c.run.attempts /\ r.status = "starting"
      BY <3>2 DEF Run
    <3>4. QED BY <3>1, <3>3
  <2> HIDE DEF r
  <2>4. r \in Run
    BY <2>3 DEF Sound
  <2>5. starting \in Call /\ onward \in Call
    BY <1>2, <2>4 DEF Call, Steps
  <2>6. /\ starting.phase = c.phase /\ starting.todo = c.todo /\ starting.id = c.id
        /\ starting.at = "put" /\ starting.then = "start" /\ starting.run = r
    BY <1>2 DEF Call
  <2>7. /\ onward.phase = c.phase /\ onward.todo = c.todo /\ onward.id = c.id
        /\ onward.at = "start" /\ onward.then = c.then /\ onward.run = c.run
    BY <1>2 DEF Call
  <2> HIDE DEF starting, onward
  <2>8. SoundCall(p, starting, new)
    BY <1>0, <1>2, <1>3, <1>4, <2>2, <2>3, <2>5, <2>6, Advance
  <2>9. SoundCall(p, onward, new)
    BY <1>0, <1>2, <1>3, <1>4, <2>2, <2>5, <2>7, Advance
  <2>10. QED BY <1>0, <1>6, <2>1, <2>8, <2>9, TaskStepped
<1>7. QED BY <1>1, <1>5, <1>6

LEMMA StartSound ==
  ASSUME IInv, NEW p \in Callers, Start(p)
  PROVE  IInv'
<1> DEFINE c == call[p]
           new == Changed(task, c.id, "in_progress", {}, {}, FALSE)
           b == FailedCopy(c.run, "blocked", "recoverable")
           blocked  == [c EXCEPT !.at = "put", !.run = b]
           onward   == [c EXCEPT !.at = "grant"]
<1>0. /\ c.at = "start" /\ UNCHANGED <<runs, runner, stamp, now, faults, polls>>
      /\ \/ task' = new /\ Permitted(task, c.id, "in_progress") /\ Goto(p, onward)
         \/ task' = task /\ (Goto(p, GoOn(c)) \/ Goto(p, blocked))
      /\ faults' \in 0..MaxFaults /\ polls' \in 0..MaxClientCalls
  BY DEF Start, IInv, Typed
<1>1. SoundCall(p, c, task) /\ c \in Call /\ c.id \in RunIds /\ Sound(c.run, task) /\ task \in Task
  BY <1>0, CallKnown DEF Engaged
<1>2. c.then = "next" /\ c.run.attempts < MaxRetries
  BY <1>0, <1>1 DEF SoundCall, Starting
<1>3. /\ {"put", "grant"} \subseteq Engaged /\ "put" \notin Starting
      /\ "next" \in Thens /\ "next" \notin Starting
  BY DEF Engaged, Starting, Thens
<1>4. CASE task' = task /\ (Goto(p, GoOn(c)) \/ Goto(p, blocked))
  <2>1. Sound(b, task)
    BY <1>1, FailedSound, Names
  <2> HIDE DEF b
  <2>2. b \in Run
    BY <2>1 DEF Sound
  <2>3. blocked \in Call
    BY <1>1, <2>2 DEF Call, Steps
  <2>4. /\ blocked.phase = c.phase /\ blocked.todo = c.todo /\ blocked.id = c.id
        /\ blocked.at = "put" /\ blocked.then = c.then /\ blocked.run = b
    BY <1>1 DEF Call
  <2> HIDE DEF blocked
  <2>5. SoundCall(p, blocked, task)
    BY <1>0, <1>1, <1>2, <1>3, <2>1, <2>3, <2>4, Advance
  <2>6. QED BY <1>0, <1>1, <1>4, <2>5, LeavingSound, CallStepped
<1>5. CASE task' = new /\ Permitted(task, c.id, "in_progress") /\ Goto(p, onward)
  <2>1. new \in Task /\ task.status # "done"
    <3>1. "in_progress" \in Statuses
      BY DEF Statuses
    <3>2. QED BY <1>1, <1>5, <3>1, ChangedType, DoneRefuses
  <2> HIDE DEF new
  <2>2. Sound(c.run, new) /\ SoundCall(p, c, new)
    BY <1>1, <2>1, SoundLater, SoundCallLater
  <2>3. onward \in Call
    BY <1>1 DEF Call, Steps
  <2>4. /\ onward.phase = c.phase /\ onward.todo = c.todo /\ onward.id = c.id
        /\ onward.at = "grant" /\ onward.then = c.then /\ onward.run = c.run
    BY <1>1 DEF Call
  <2> HIDE DEF onward
  <2>5. SoundCall(p, onward, new)
    BY <1>0, <1>1, <1>2, <1>3, <2>2, <2>3, <2>4, Advance
  <2>6. QED BY <1>0, <1>5, <2>1, <2>5, TaskStepped
<1>6. QED BY <1>0, <1>4, <1>5

LEMMA GrantSound ==
  ASSUME IInv, NEW p \in Callers, Grant(p)
  PROVE  IInv'
<1> DEFINE c == call[p]
           r == RunningCopy(c.run, Phase(p) = "recover")
           next == [c EXCEPT !.at = "put", !.run = r, !.stamp = stamp + 1, !.then = "reply"]
<1>0. c.at = "grant" /\ UNCHANGED <<task, runs, runner, now, faults, polls>>
  BY DEF Grant
<1>1. SoundCall(p, c, task) /\ c \in Call /\ c.id \in RunIds /\ Sound(c.run, task) /\ c.run.attempts < MaxRetries
  BY <1>0, CallKnown DEF Engaged, SoundCall, Starting
<1>2. CASE ~(stamp < MaxStamps)
  <2>1. UNCHANGED stamp /\ Goto(p, Idle)
    BY <1>2 DEF Grant
  <2>2. QED BY <1>0, <2>1, CallStepped, RestSound DEF IInv, Typed
<1>3. CASE stamp < MaxStamps
  <2>1. stamp' = stamp + 1 /\ Goto(p, next)
    BY <1>3 DEF Grant
  <2>2. stamp + 1 \in Stamps /\ stamp \in Stamps
    BY <1>3, AutomationRunsAssumption DEF IInv, Typed, Stamps
  <2>3. Sound(r, task)
    BY <1>1, <1>3, <2>2, RunningSound
  <2> HIDE DEF r
  <2>4. r \in Run
    BY <2>3 DEF Sound
  <2>5. next \in Call
    BY <1>1, <2>2, <2>4 DEF Call, Steps
  <2>6. /\ next.phase = c.phase /\ next.todo = c.todo /\ next.id = c.id
        /\ next.at = "put" /\ next.then = "reply" /\ next.run = r
    BY <1>1 DEF Call
  <2>7. "put" \in Engaged /\ "put" \notin Starting /\ "reply" \in Thens /\ "reply" \notin Starting
    BY DEF Engaged, Starting, Thens
  <2> HIDE DEF next
  <2>8. SoundCall(p, next, task)
    BY <1>0, <1>1, <2>3, <2>5, <2>6, <2>7, Advance
  <2>9. QED BY <1>0, <2>1, <2>2, <2>8, Stepped DEF IInv, Typed, RunnerStates
<1>4. QED BY <1>2, <1>3

-----------------------------------------------------------------------------
(* The steps of runners. *)

\* A claimed run reaches its runner, and so does an accepted heartbeat.
LEMMA AnswerSound ==
  ASSUME IInv, NEW w \in Runners, Reply(w) \/ Renewed(w)
  PROVE  IInv'
<1> DEFINE c == call[w]
<1>0. /\ w \in Callers /\ Goto(w, Idle) /\ UNCHANGED <<task, runs, stamp, now, faults, polls>>
      /\ c.at \in {"reply", "renewed"}
  BY DEF Reply, Renewed, Callers
<1>1. c \in Call /\ c.id \in RunIds /\ c.stamp \in Stamps /\ runner \in [Runners -> RunnerStates]
  BY <1>0, CallKnown DEF Engaged, Call, IInv, Typed, RunnerStates
<1>2. runner' \in [Runners -> RunnerStates] /\ \A v \in Runners : Known(runner'[v])
  <2>1. CASE Reply(w)
    <3>1. [run |-> c.id, claim |-> c.stamp, beat |-> c.stamp, moved |-> FALSE] \in RunnerStates
      BY <1>1 DEF RunnerStates
    <3>2. QED BY <1>1, <2>1, <3>1 DEF Reply, IInv, Known
  <2>2. CASE Renewed(w)
    <3>1. [runner[w] EXCEPT !.beat = c.stamp] \in RunnerStates
      BY <1>1 DEF RunnerStates
    <3>2. [runner[w] EXCEPT !.beat = c.stamp].run = runner[w].run
      BY <1>1 DEF RunnerStates
    <3>3. QED BY <1>1, <2>2, <3>1, <3>2 DEF Renewed, IInv, Known
  <2>3. QED BY <2>1, <2>2
<1>3. QED BY <1>0, <1>2, Stepped, RestSound DEF IInv, Typed

\* The first step of a call of a runner that holds the run it is about.
LEMMA LockingSound ==
  ASSUME NEW p, NEW t, NEW at \in {"put", "durable"}, NEW id \in RunIds, NEW r, Sound(r, t), NEW st \in Stamps,
         NEW then \in Thens, then \notin Starting, then = "next" \/ at = "put"
  PROVE  SoundCall(p, Locking(p, at, id, r, st, then), t)
<1> DEFINE d == Step(at, Len(ClaimPhases), {}, id, r, "none", st, then)
<1>1. at \in Steps /\ then \in Steps /\ at \in Engaged /\ at \notin Queueing \cup Starting \cup {"idle", "list"}
  BY DEF Steps, Thens, Engaged, Queueing, Starting
<1>2. Len(ClaimPhases) \in 0..(Len(ClaimPhases) + 1) /\ Len(ClaimPhases) \in 1..Len(ClaimPhases)
  BY Lengths
<1>3. r \in Run
  BY DEF Sound
<1>4. d \in Call
  BY <1>1, <1>2, <1>3, StepType, Names
<1>5. /\ d.at = at /\ d.phase = Len(ClaimPhases) /\ d.todo = {} /\ d.id = id
      /\ d.run = r /\ d.then = then
  BY DEF Step
<1>6. SoundCall(p, d, t)
  <2> HIDE DEF d
  <2>1. QED BY <1>1, <1>2, <1>4, <1>5 DEF SoundCall
<1>7. QED BY <1>6 DEF Locking

LEMMA HeartbeatSound ==
  ASSUME IInv, NEW w \in Runners, Heartbeat(w)
  PROVE  IInv'
<1> DEFINE id == runner[w].run
           r == [runs[id] EXCEPT !.lease = stamp + 1]
<1>1. /\ w \in Callers /\ UNCHANGED <<task, runs, runner, now, faults, polls>> /\ stamp' = stamp + 1
      /\ runner[w] # Unassigned /\ stamp < MaxStamps
      /\ Goto(w, Locking(w, "put", id, r, stamp + 1, "renewed"))
  BY DEF Heartbeat, Beat, Callers
<1>2. id \in RunIds /\ Sound(runs[id], task)
  BY <1>1 DEF IInv, Known
<1>3. stamp + 1 \in Stamps
  BY <1>1, AutomationRunsAssumption DEF IInv, Typed, Stamps
<1>4. Sound(r, task)
  BY <1>2, <1>3, CopiesSound, Names
<1>5. "renewed" \in Thens /\ "renewed" \notin Starting
  BY DEF Thens, Starting
<1> HIDE DEF r
<1>6. SoundCall(w, Locking(w, "put", id, r, stamp + 1, "renewed"), task)
  BY <1>2, <1>3, <1>4, <1>5, LockingSound
<1>7. QED BY <1>1, <1>3, <1>6, Stepped DEF IInv, Typed, RunnerStates

LEMMA ReportSound ==
  ASSUME IInv, NEW w \in Runners, Report(w)
  PROVE  IInv'
<1> DEFINE id == runner[w].run
           r == runs[id]
           new(o) == IF o[1] = "completed" THEN [VerifyingCopy(r, r.seen) EXCEPT !.cat = o[2]] ELSE FailedCopy(r, o[1], o[2])
<1>1. /\ w \in Callers /\ UNCHANGED <<task, runs, stamp, now, faults, polls>>
      /\ runner' = [runner EXCEPT ![w] = Unassigned] /\ runner[w] # Unassigned
  BY DEF Report, Callers
<1>2. PICK o \in Reports(w) : UNCHANGED call \/ Goto(w, Locking(w, "put", id, new(o), 0, "durable"))
  BY DEF Report
<1>3. id \in RunIds /\ Sound(r, task) /\ r \in Run /\ 0 \in Stamps
  BY <1>1, AutomationRunsAssumption DEF IInv, Known, Sound, Stamps
<1>4. o \in {<<"completed", "none">>, <<"failed", "recoverable">>, <<"failed", "other">>, <<"timeout", "other">>}
  BY <1>2 DEF Reports
<1>5. r.seen \in Seen
  BY <1>3 DEF Run, Seen
<1>6. Sound(new(o), task)
  <2>1. CASE o = <<"completed", "none">>
    <3>1. new(o) = VerifyingCopy(r, r.seen)
      BY <1>3, <2>1 DEF VerifyingCopy, Run
    <3> HIDE DEF new
    <3>2. QED BY ZenonT(40), <1>3, <1>5, <3>1, CopiesSound
  <2>2. CASE o # <<"completed", "none">>
    <3>1. o[1] \in {"failed", "timeout"} /\ o[2] \in Categories
      BY <1>4, <2>2, Names
    <3>2. new(o) = FailedCopy(r, o[1], o[2])
      BY <3>1
    <3>3. QED BY <1>3, <1>5, <3>1, <3>2, FailedSound
  <2>3. QED BY <2>1, <2>2
<1> HIDE DEF new
<1>7. SoundCall(w, Locking(w, "put", id, new(o), 0, "durable"), task)
  <2>1. "durable" \in Thens /\ "durable" \notin Starting
    BY DEF Thens, Starting
  <2>2. QED BY <1>3, <1>6, <2>1, LockingSound
<1>8. runner' \in [Runners -> RunnerStates] /\ \A v \in Runners : Known(runner'[v])
  BY <1>1, <1>3 DEF IInv, Typed, RunnerStates, Unassigned, Known
<1>9. PICK c : SoundCall(w, c, task) /\ Goto(w, c)
  <2>1. CASE UNCHANGED call
    BY <1>1, <2>1, CallKnown DEF Goto, IInv, Typed
  <2>2. QED BY <1>2, <1>7, <2>1
<1>10. QED BY <1>1, <1>8, <1>9, Stepped DEF IInv, Typed

LEMMA DurableSound ==
  ASSUME IInv, NEW p \in Callers, Durable(p)
  PROVE  IInv'
<1> DEFINE c == call[p]
           r == runs[c.id]
           next == [c EXCEPT !.at = "verify", !.run = r]
<1>0. /\ c.at = "durable" /\ UNCHANGED <<task, runs, runner, stamp, now, faults, polls>>
      /\ Goto(p, next) \/ Goto(p, Idle)
      /\ faults' \in 0..MaxFaults /\ polls' \in 0..MaxClientCalls
  BY DEF Durable, IInv, Typed
<1>1. SoundCall(p, c, task) /\ c \in Call /\ c.id \in RunIds /\ Sound(r, task) /\ r \in Run
  BY <1>0, CallKnown DEF Engaged, Sound
<1>2. next \in Call
  BY <1>1 DEF Call, Steps
<1>3. /\ next.phase = c.phase /\ next.todo = c.todo /\ next.id = c.id
      /\ next.at = "verify" /\ next.then = c.then /\ next.run = r
  BY <1>1 DEF Call
<1>4. c.then = "next" /\ "verify" \in Engaged /\ "verify" \notin Starting /\ "next" \in Thens
  BY <1>0, <1>1 DEF SoundCall, Engaged, Starting, Thens
<1> HIDE DEF next
<1>5. SoundCall(p, next, task)
  BY <1>0, <1>1, <1>2, <1>3, <1>4, Advance
<1>6. QED BY <1>0, <1>5, RestSound, CallStepped

-----------------------------------------------------------------------------
(* Clients, reviewers, operators, time and faults. *)

LEMMA SubmitSound ==
  ASSUME IInv, NEW p \in Callers, Submit(p)
  PROVE  IInv'
<1>1. /\ runs' = Created(FALSE) /\ UNCHANGED <<task, runner, stamp, now, faults>>
      /\ polls' \in 0..MaxClientCalls
  BY AutomationRunsAssumption DEF Submit, IInv, Typed
<1>2. PICK id \in RunIds : Goto(p, Step("put", Len(ListPhases), {}, id, NewRun(FALSE), "none", 0, "next"))
  BY DEF Submit
<1> DEFINE d == Step("put", Len(ListPhases), {}, id, NewRun(FALSE), "none", 0, "next")
<1>3. Sound(NewRun(FALSE), task) /\ NewRun(FALSE) \in Run /\ 0 \in Stamps
  <2>1. Sound(NewRun(FALSE), task)
    BY AbsentSound
  <2>2. 0 \in Stamps
    BY AutomationRunsAssumption DEF Stamps
  <2>3. QED BY <2>1, <2>2 DEF Sound
<1>4. /\ {"put", "next"} \subseteq Steps /\ "put" \notin Queueing \cup Starting /\ "next" \in Thens /\ "next" \notin Starting
      /\ Len(ListPhases) \in 0..(Len(ClaimPhases) + 1) /\ Len(ListPhases) \in 1..Len(ClaimPhases)
  BY Lengths DEF Steps, Queueing, Starting, Thens
<1>5. d \in Call
  BY <1>3, <1>4, StepType, Names
<1>6. /\ d.at = "put" /\ d.phase = Len(ListPhases) /\ d.todo = {} /\ d.id = id
      /\ d.run = NewRun(FALSE) /\ d.then = "next"
  BY DEF Step
<1>7. SoundCall(p, d, task)
  <2> HIDE DEF d
  <2>1. QED BY <1>3, <1>4, <1>5, <1>6 DEF SoundCall
<1>8. runs' \in [RunIds -> Run] /\ \A other \in RunIds : Sound(runs'[other], task)
  BY <1>1, CreatedSound
<1>9. QED BY <1>1, <1>2, <1>7, <1>8, Stepped DEF IInv, Typed, RunnerStates

\* A step of nobody who has a call in progress.
LEMMA OutsideStepped ==
  ASSUME IInv, UNCHANGED <<runs, call, stamp, polls>>,
         task' \in Task, task.status = "done" => task'.status = "done",
         runner' \in [Runners -> RunnerStates], \A w \in Runners : Known(runner'[w]),
         now' \in Stamps, faults' \in 0..MaxFaults
  PROVE  IInv'
<1>1. \A id \in RunIds : Sound(runs'[id], task')
  BY SoundLater DEF IInv
<1>2. \A p \in Callers : SoundCall(p, call'[p], task')
  BY SoundCallLater DEF IInv
<1>3. Typed'
  BY DEF IInv, Typed, RunnerStates
<1>4. QED BY <1>1, <1>2, <1>3 DEF IInv

LEMMA TaskMoveSound ==
  ASSUME IInv, Reviewed \/ Operator \/ \E w \in Runners : AgentMoves(w)
  PROVE  IInv'
<1>0. /\ task \in Task /\ runner \in [Runners -> RunnerStates] /\ now \in Stamps /\ faults \in 0..MaxFaults
      /\ \A w \in Runners : Known(runner[w])
  BY DEF IInv, Typed, RunnerStates
<1>1. {"needs_review", "verifying", "blocked", "failed", "ready", "cancelled"} \subseteq Statuses
  BY DEF Statuses, Finished
<1>2. CASE Reviewed
  <2>1. task' \in Task /\ task.status # "done"
    BY <1>0, <1>1, <1>2, ChangedType DEF Reviewed, Handed
  <2>2. QED BY <1>0, <1>2, <2>1, OutsideStepped DEF Reviewed
<1>3. CASE Operator
  <2>1. PICK next \in {"ready", "cancelled"} :
          Permitted(task, NoRun, next) /\ task' = Changed(task, NoRun, next, {}, {}, FALSE)
    BY <1>3 DEF Operator
  <2>2. task' \in Task /\ task.status # "done"
    BY ZenonT(40), <1>0, <1>1, <2>1, ChangedType, DoneRefuses
  <2>3. QED BY <1>0, <1>3, <2>2, OutsideStepped DEF Operator
<1>4. ASSUME NEW w \in Runners, AgentMoves(w) PROVE IInv'
  <2>1. PICK next \in {"needs_review", "verifying", "blocked", "failed"}, proof \in {{}, Evidence} :
          /\ Permitted(task, runner[w].run, next)
          /\ task' = Changed(task, runner[w].run, next, proof, {}, proof # {})
    BY <1>4 DEF AgentMoves
  <2>2. runner[w].run \in RunIds /\ runner[w] \in RunnerStates
    BY <1>0, <1>4 DEF AgentMoves, Known
  <2>3. task' \in Task /\ task.status # "done"
    <3>1. proof \in SUBSET Evidence /\ (proof # {}) \in BOOLEAN
      BY <2>1
    <3>2. next \in Statuses
      BY <1>1, <2>1
    <3>3. Changed(task, runner[w].run, next, proof, {}, proof # {}) \in Task
      BY <1>0, <2>2, <3>1, <3>2, ChangedType
    <3>4. next \notin {"done", "superseded"}
      BY <2>1
    <3>5. task.status # "done"
      BY <2>1, <3>4, DoneRefuses
    <3>6. QED BY <2>1, <3>3, <3>5
  <2>4. [runner[w] EXCEPT !.moved = TRUE] \in RunnerStates /\ [runner[w] EXCEPT !.moved = TRUE].run \in RunIds
    BY <2>2 DEF RunnerStates
  <2>5. runner' \in [Runners -> RunnerStates] /\ \A v \in Runners : Known(runner'[v])
    BY <1>0, <1>4, <2>4 DEF AgentMoves, Known
  <2>6. QED BY <1>0, <1>4, <2>3, <2>5, OutsideStepped DEF AgentMoves
<1>5. QED BY <1>2, <1>3, <1>4

LEMMA TimeSound ==
  ASSUME IInv, TimePasses \/ \E w \in Runners : RunnerDies(w)
  PROVE  IInv'
<1>0. /\ task \in Task /\ runner \in [Runners -> RunnerStates] /\ now \in Stamps /\ stamp \in Stamps
      /\ faults \in 0..MaxFaults /\ \A w \in Runners : Known(runner[w])
  BY DEF IInv, Typed, RunnerStates
<1>1. CASE TimePasses
  <2>1. now' \in Stamps
    BY <1>0, <1>1, AutomationRunsAssumption DEF TimePasses, Stamps
  <2>2. QED BY <1>0, <1>1, <2>1, OutsideStepped DEF TimePasses
<1>2. ASSUME NEW w \in Runners, RunnerDies(w) PROVE IInv'
  <2>1. faults' \in 0..MaxFaults
    BY <1>0, <1>2, AutomationRunsAssumption DEF RunnerDies, Fault
  <2>2. Unassigned \in RunnerStates
    BY AutomationRunsAssumption DEF Unassigned, RunnerStates, Stamps
  <2>3. runner' \in [Runners -> RunnerStates] /\ \A v \in Runners : Known(runner'[v])
    BY <1>0, <1>2, <2>2 DEF RunnerDies, Known
  <2>4. QED BY <1>0, <1>2, <2>1, <2>3, OutsideStepped DEF RunnerDies
<1>3. QED BY <1>1, <1>2

LEMMA RestartSound ==
  ASSUME IInv, Restart
  PROVE  IInv'
<1>1. ASSUME NEW id \in RunIds PROVE Sound(runs'[id], task)
  <2>1. Sound(runs[id], task) /\ (runs[id].status \in Active) \in BOOLEAN
    BY DEF IInv
  <2>2. Sound([runs[id] EXCEPT !.old = runs[id].status \in Active], task)
    BY <2>1, CopiesSound, Names
  <2>3. QED BY <2>2 DEF Restart
<1>2. runs' \in [RunIds -> Run]
  BY <1>1 DEF Restart, Sound
<1>3. \A p \in Callers : SoundCall(p, call'[p], task) /\ call'[p] \in Call
  BY RestSound DEF Restart, SoundCall
<1>4. call' \in [Callers -> Call]
  BY <1>3 DEF Restart
<1>5. faults' \in 0..MaxFaults
  BY AutomationRunsAssumption DEF Restart, Fault, IInv, Typed
<1>6. QED BY <1>1, <1>2, <1>3, <1>4, <1>5 DEF Restart, IInv, Typed

-----------------------------------------------------------------------------
(* The invariant and what follows from it. *)

LEMMA InitSound == Init => IInv /\ Markers
<1> SUFFICES ASSUME Init PROVE IInv /\ Markers
  OBVIOUS
<1>1. task \in Task
  BY DEF Init, NewTask, Task, Statuses
<1>2. Sound(Absent, task) /\ Absent \in Run
  BY AbsentSound DEF Sound
<1>3. \A p \in Callers : SoundCall(p, Idle, task)
  BY RestSound
<1>4. Callers # {} => Idle \in Call
  BY <1>3 DEF SoundCall
<1>5. 0 \in Stamps /\ 0 \in 0..MaxFaults /\ 0 \in 0..MaxClientCalls
  BY AutomationRunsAssumption DEF Stamps
<1>6. Unassigned \in RunnerStates
  BY <1>5 DEF Unassigned, RunnerStates
<1>7. call \in [Callers -> Call]
  BY <1>4 DEF Init
<1>8. Typed
  BY <1>1, <1>2, <1>5, <1>6, <1>7 DEF Init, Typed, RunnerStates
<1>9. IInv
  BY <1>2, <1>3, <1>8 DEF Init, IInv, Known
<1>10. QED BY <1>9 DEF Init, Markers

\* A write of the task pardons failed runs or none, and one of a run takes its pardon back.
LEMMA MarkersTyped == Markers /\ [Next]_vars => Markers'
<1> SUFFICES ASSUME Markers, [Next]_vars PROVE Markers'
  OBVIOUS
<1>1. ASSUME NEW mark \in BOOLEAN, Refresh(mark) PROVE Markers'
  BY <1>1 DEF Refresh, Markers, TerminalFailures
<1>2. Refresh(marked) => Markers'
  BY <1>1 DEF Markers
<1>3. UNCHANGED <<marked, forgiven>> => Markers'
  BY DEF Markers
<1>4. ASSUME NEW p \in Callers, Put(p) PROVE Markers'
  BY <1>4 DEF Put, Markers
<1>5. ASSUME NEW p \in Callers, Continue(p) PROVE Markers'
  <2>1. CASE Put(p)
    BY <1>4, <2>1
  <2>2. CASE ~Put(p)
    BY <1>2, <1>3, <1>5, <2>2 DEF Continue, List, Each, Verify, Close, Recheck, Release, Queue, Create, Block
  <2>3. QED BY <2>1, <2>2
<1>6. ASSUME NEW w \in Runners, ContinueRunner(w) PROVE Markers'
  <2>1. w \in Callers
    BY DEF Callers
  <2>2. QED BY <1>2, <1>3, <1>5, <1>6, <2>1 DEF ContinueRunner, Claim, Start, Grant, Reply, Renewed, Durable
<1>7. ASSUME NEW w \in Runners, BeginClaim(w) \/ Heartbeat(w) \/ AgentMoves(w) \/ Report(w) \/ RunnerDies(w) PROVE Markers'
  BY <1>2, <1>3, <1>7 DEF BeginClaim, Heartbeat, Beat, AgentMoves, Report, RunnerDies
<1>8. ASSUME NEW l \in Clients, BeginList(l) \/ Submit(l) \/ Continue(l) PROVE Markers'
  <2>1. l \in Callers
    BY DEF Callers
  <2>2. QED BY <1>3, <1>5, <1>8, <2>1 DEF BeginList, Submit
<1>9. CASE Operator
  <2>1. PICK move \in OperatorMoves : Refresh(marked \/ move = "rerun")
    BY <1>9 DEF Operator
  <2>2. (marked \/ move = "rerun") \in BOOLEAN
    OBVIOUS
  <2>3. QED BY <1>1, <2>1, <2>2
<1>10. CASE Reviewed \/ TimePasses \/ Restart \/ (\E p \in Callers : Cut(p)) \/ UNCHANGED vars
  BY <1>2, <1>3, <1>10 DEF Reviewed, TimePasses, Restart, Cut, vars
<1>11. QED BY <1>6, <1>7, <1>8, <1>9, <1>10 DEF Next

LEMMA NextSound == IInv /\ Markers /\ [Next]_vars => IInv' /\ Markers'
<1> SUFFICES ASSUME IInv, Markers, [Next]_vars PROVE IInv' /\ Markers'
  OBVIOUS
<1>0. Markers'
  BY MarkersTyped
<1>1. ASSUME NEW p \in Callers, Continue(p) PROVE IInv'
  BY <1>0, <1>1, ListSound, EachSound, PutSound, VerifySound, CloseSound, RecheckSound, ReleaseSound, QueueSound,
     CreateSound, BlockSound DEF Continue
<1>2. ASSUME NEW w \in Runners, BeginClaim(w) \/ ContinueRunner(w) PROVE IInv'
  <2>1. w \in Callers
    BY DEF Callers
  <2>2. QED BY <1>1, <1>2, <2>1, BeginSound, ClaimSound, StartSound, GrantSound, AnswerSound, DurableSound DEF ContinueRunner
<1>3. ASSUME NEW w \in Runners, Heartbeat(w) \/ AgentMoves(w) \/ Report(w) \/ RunnerDies(w) PROVE IInv'
  BY <1>3, HeartbeatSound, TaskMoveSound, ReportSound, TimeSound
<1>4. ASSUME NEW l \in Clients, BeginList(l) \/ Submit(l) \/ Continue(l) PROVE IInv'
  <2>1. l \in Callers
    BY DEF Callers
  <2>2. QED BY <1>1, <1>4, <2>1, BeginSound, SubmitSound
<1>5. CASE Reviewed \/ Operator \/ TimePasses \/ Restart
  BY <1>0, <1>5, TaskMoveSound, TimeSound, RestartSound
<1>6. ASSUME NEW p \in Callers, Cut(p) PROVE IInv'
  BY <1>6, BeginSound
<1>7. CASE UNCHANGED vars
  BY <1>0, <1>7 DEF vars, IInv, Typed, SoundCall, Phase
<1>8. QED BY <1>0, <1>2, <1>3, <1>4, <1>5, <1>6, <1>7 DEF Next

\* In every reachable state the task, the runs, the copies that calls hold and what runners
\* know are well formed, for any runners, clients, limits and faults (model.go).
THEOREM AutomationTyped == Spec => []TypeOK
<1>1. IInv /\ Markers => TypeOK
  BY DEF IInv, Typed, Markers, TypeOK
<1>2. QED BY <1>1, InitSound, NextSound, PTL DEF Spec

\* No run is ever recorded as completed before its task is done, whichever call records it
\* and however old the copy is that it writes (completeRunAfterTaskDone and its callers).
THEOREM CompletionIsEarned == Spec => []CompletedMeansDone
<1>1. IInv => CompletedMeansDone
  BY DEF IInv, Sound, CompletedMeansDone
<1>2. QED BY <1>1, InitSound, NextSound, PTL DEF Spec
=============================================================================
