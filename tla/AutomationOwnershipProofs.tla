---------------------- MODULE AutomationOwnershipProofs ----------------------
(***************************************************************************)
(* Machine-checked proofs of what claimMu is for: as long as runs change   *)
(* only under it, a run is not taken from a runner that keeps its lease,   *)
(* one run at a time is executed, replacements stop at the limit, and runs *)
(* succeed one another.                                                    *)
(*                                                                         *)
(* The mutex makes the copies that a call holds equal to the stored runs   *)
(* until the call itself writes one (first part). So at most one run of    *)
(* the task may still be started or retried, and the task is not offered   *)
(* again before that run is out (second part). No copy revives a run that  *)
(* is over, and the service implements RunSuccession (third part).         *)
(***************************************************************************)
EXTENDS AutomationRunsProofs, FiniteSetTheorems

\* Nobody lists or submits runs: those calls do not take claimMu.
LockedOnly == Clients = {}

\* No runner has been given run id.
Free(id) == \A w \in Runners : runner[w].run # id

\* What is written of a run that the runner k executes: it stays claimed, it is not up for
\* another attempt, and its lease is the last that k was granted.
Kept(r, k) ==
  /\ r.claim # 0 /\ r.cat \notin {"recoverable", "exhausted"}
  /\ r.status \in Active /\ ~r.recovery /\ r.claim = k.claim => k.beat <= r.lease

Writable(r, id) ==
  /\ \A w \in Runners : runner[w].run = id => Kept(r, runner[w])
  /\ r.claim <= stamp
  /\ r.cat = "interrupted" => r.status = "timeout"
  /\ r.status \notin {"absent", "queued"}

\* What is stored: a run as it was created, or as it was written.
Untouched(r) == r.status \in {"absent", "queued"} /\ r.claim = 0 /\ r.cat = "none" /\ ~r.recovery
Kempt(id) == Writable(runs[id], id) \/ (Untouched(runs[id]) /\ Free(id))

Granted(r, st) == r.status = "running" /\ r.cat = "none" /\ r.claim = st /\ r.lease = st /\ st # 0

\* A run that call c of w starts is nobody's.
Claimable(w, c) ==
  /\ Free(c.id) /\ c.run.cat # "interrupted"
  /\ Phases(w)[c.phase] \in {"starting", "recover", "queued"}
  /\ Phases(w)[c.phase] = "queued" => ~c.run.recovery

\* The write that call c of w is about to make.
Write(w, c) ==
  /\ Writable(c.run, c.id)
  /\ c.run.cat = "interrupted" => Abandoned(runs[c.id])
  /\ c.then \in {"claim", "start"} => Claimable(w, c) /\ c.run.status # "running"
  /\ c.then = "release" => Phases(w)[c.phase] = "running"
  /\ c.then = "queue" => Phases(w)[c.phase] # "queued"
  /\ c.then = "reply" => Claimable(w, c) /\ Granted(c.run, c.stamp) /\ runs[c.id].claim < c.stamp
  /\ c.then = "renewed" => /\ runner[w].run \in {NoRun, c.id}
                           /\ c.run = [runs[c.id] EXCEPT !.lease = c.stamp]

\* Call c of w: the copies it has are the stored runs, but for the one it writes.
InHand(w, c) ==
  /\ c.stamp <= stamp
  /\ \A item \in c.todo : item[2] = runs[item[1]] /\ item[1] # c.id
  /\ \/ c.at \in Engaged \ {"put"}
     \/ c.at = "block" /\ Phases(w)[c.phase] = "queued"
     => c.run = runs[c.id] /\ c.id \in RunIds
  /\ c.at = "recheck" => Abandoned(c.run) /\ Phases(w)[c.phase] = "running"
  /\ c.at \in {"release", "queue"} => Phases(w)[c.phase] # "queued"
  /\ c.at = "release" /\ Phases(w)[c.phase] = "exhausted" => Free(c.id)
  /\ c.at \in Starting => Claimable(w, c)
  /\ c.at = "reply" => Free(c.id) /\ Granted(c.run, c.stamp)
  /\ c.at = "renewed" => /\ runner[w].run \in {NoRun, c.id}
                         /\ ~c.run.recovery => c.run.lease = c.stamp
  /\ c.at = "put" => Write(w, c)

\* Nobody but w has a call in progress.
Alone(w) == \A v \in Runners \ {w} : call[v].at = "idle"

KInv ==
  /\ \A w \in Runners : call[w].at # "idle" => Alone(w) /\ InHand(w, call[w])
  /\ \A w, v \in Runners : runner[w].run # NoRun /\ runner[w].run = runner[v].run => w = v
  /\ \A w \in Runners : runner[w].beat <= stamp
  /\ \A id \in RunIds : Kempt(id)

-----------------------------------------------------------------------------
(* Copies of runs. *)

\* The copies that record what became of a run may be written when the run may.
LEMMA CopiesWritable ==
  ASSUME NEW id, NEW r \in Run, Writable(r, id), NEW s, NEW q,
         \/ q = VerifyingCopy(r, s)
         \/ q = CompletedCopy(r, s)
         \/ q = TerminalCopy(r, s)
         \/ q = [r EXCEPT !.seen = s]
  PROVE  Writable(q, id) /\ q.status \notin {"claiming"} \ {r.status} /\ (q.cat = "interrupted" => r.cat = "interrupted")
<1>1. CASE q = VerifyingCopy(r, s)
  <2>1. q.status = "verifying" /\ q.claim = r.claim /\ q.cat = "none"
    BY <1>1 DEF VerifyingCopy, Run
  <2>2. QED BY <2>1 DEF Writable, Kept, Active
<1>2. CASE q = CompletedCopy(r, s)
  <2>1. q.status = "completed" /\ q.claim = r.claim /\ q.cat = "none"
    BY <1>2 DEF CompletedCopy, Run
  <2>2. QED BY <2>1 DEF Writable, Kept, Active
<1>3. CASE q = TerminalCopy(r, s)
  <2>1. q.status \in {"blocked", "failed", "cancelled"} /\ q.claim = r.claim /\ q.cat \in {"work_task_blocked", "other"}
    BY <1>3 DEF TerminalCopy, Run
  <2>2. QED BY <2>1 DEF Writable, Kept, Active
<1>4. CASE q = [r EXCEPT !.seen = s]
  <2>1. /\ q.status = r.status /\ q.claim = r.claim /\ q.cat = r.cat /\ q.recovery = r.recovery /\ q.lease = r.lease
    BY <1>4 DEF Run
  <2>2. QED BY <2>1 DEF Writable, Kept
<1>5. QED BY <1>1, <1>2, <1>3, <1>4

\* A failure may be recorded of a run that nobody executes, and one that is not up for
\* another attempt of any run.
LEMMA FailuresWritable ==
  ASSUME NEW id, NEW r \in Run, r.claim <= stamp, NEW status \in {"failed", "timeout", "blocked", "policy_denied"},
         NEW cat \in {"recoverable", "exhausted", "task_not_ready", "other"},
         Free(id) \/ (Writable(r, id) /\ cat \notin {"recoverable", "exhausted"}),
         NEW s, NEW q, q = FailedCopy(r, status, cat) \/ q = [FailedCopy(r, status, cat) EXCEPT !.seen = s, !.recovery = FALSE]
  PROVE  Writable(q, id) /\ q.status = status /\ q.cat = cat
<1>1. q.status = status /\ q.cat = cat /\ q.claim = r.claim
  BY DEF FailedCopy, Run
<1>2. QED BY <1>1 DEF Writable, Kept, Active, Free

LEMMA InterruptedWritable ==
  ASSUME NEW id, NEW r \in Run, Writable(r, id), NEW s
  PROVE  Writable(InterruptedCopy(r, s), id)
<1> DEFINE q == InterruptedCopy(r, s)
<1>1. q.status = "timeout" /\ q.cat = "interrupted" /\ q.claim = r.claim
  BY DEF InterruptedCopy, Run
<1>2. QED BY <1>1 DEF Writable, Kept, Active

\* A run that its task has overtaken is not one that was just created.
LEMMA PickedWritable ==
  ASSUME NEW id \in RunIds, Kempt(id), NEW ph, Picks(ph, runs[id])
  PROVE  /\ ph = "queued" => Untouched(runs[id]) /\ Free(id)
         /\ ph # "queued" => Writable(runs[id], id)
BY DEF Kempt, Picks, Untouched, Writable, Active

-----------------------------------------------------------------------------
(* Decisions of a phase about a stored run. *)

\* What a phase may decide of the stored run id.
KeptDo(ph, id, d) ==
  /\ d.at \notin {"pass", "put"} => d.run = runs[id]
  /\ d.at = "put" => /\ Writable(d.run, id) /\ d.run.cat # "interrupted"
                     /\ d.then \notin {"start", "reply", "release", "queue", "renewed"}
                     /\ d.then = "claim" => Free(id) /\ ~d.run.recovery /\ d.run.status = "claiming" /\ ph = "queued"
  /\ d.at \in Starting => Free(id) /\ ph \in {"starting", "recover"} /\ d.run.cat # "interrupted"
  /\ d.at = "recheck" => Abandoned(runs[id]) /\ ph = "running"
  /\ d.at \in {"release", "queue"} => ph # "queued"
  /\ d.at = "release" /\ ph = "exhausted" => Free(id)

LEMMA DoFields ==
  ASSUME NEW at, NEW r, NEW s, NEW then
  PROVE  /\ Do(at, r, s, then).at = at /\ Do(at, r, s, then).run = r /\ Do(at, r, s, then).then = then
         /\ Nothing(r, s).at = "pass"
BY DEF Do, Nothing

\* A phase that has a run leave the state it is in decides to write it so.
LEMMA PuttingKept ==
  ASSUME NEW id \in RunIds, NEW r \in Run, r = runs[id], Writable(r, id), r.cat # "interrupted" \/ r.status \in {"timeout"},
         NEW ph, NEW s, NEW then \in {"next", "verify"}, NEW q,
         \/ q = VerifyingCopy(r, s)
         \/ q = CompletedCopy(r, s)
         \/ q = TerminalCopy(r, s)
         \/ q = [r EXCEPT !.seen = s] /\ r.cat # "interrupted"
  PROVE  KeptDo(ph, id, Do("put", q, s, then))
<1>1. Writable(q, id)
  BY CopiesWritable
<1>2. q.cat # "interrupted"
  <2>1. CASE q = [r EXCEPT !.seen = s] /\ r.cat # "interrupted"
    BY <2>1, CopiesWritable
  <2>2. CASE q = VerifyingCopy(r, s) \/ q = CompletedCopy(r, s) \/ q = TerminalCopy(r, s)
    BY <2>2 DEF VerifyingCopy, CompletedCopy, TerminalCopy, Run
  <2>3. QED BY <2>1, <2>2
<1>3. QED BY <1>1, <1>2, DoFields DEF KeptDo, Starting

LEMMA VerifyingKept ==
  ASSUME NEW id \in RunIds, NEW r \in Run, r = runs[id], Writable(r, id), r.status = "verifying", NEW ph
  PROVE  KeptDo(ph, id, VerifyingStep(r, task.status))
<1> DEFINE s == task.status
           d == VerifyingStep(r, s)
<1>1. \/ d = Nothing(r, s) \/ d = Do("close", r, s, "next")
      \/ \E q \in {CompletedCopy(r, s), TerminalCopy(r, s), [r EXCEPT !.seen = s]} : d = Do("put", q, s, "next")
  BY DEF VerifyingStep
<1>2. r.cat # "interrupted"
  BY DEF Writable
<1>3. \A at \in {"pass", "close"} : KeptDo(ph, id, Do(at, r, s, "next"))
  BY DoFields DEF KeptDo, Starting
<1>4. QED BY <1>1, <1>2, <1>3, PuttingKept DEF Nothing

LEMMA DecideKept ==
  ASSUME NEW id \in RunIds, runs[id] \in Run, Kempt(id), NEW ph, Picks(ph, runs[id]), stamp \in Stamps
  PROVE  KeptDo(ph, id, Decide(ph, id, runs[id]))
<1> DEFINE r == runs[id]
           s == task.status
           d == Decide(ph, id, r)
<1>0. /\ ph = "queued" => Untouched(r) /\ Free(id)
      /\ ph # "queued" => Writable(r, id)
  BY PickedWritable
<1>1. \A at \in {"pass", "close"} : KeptDo(ph, id, Do(at, r, s, "next"))
  BY DoFields DEF KeptDo, Starting
<1>2. ASSUME ph \in {"exhausted", "repair"} PROVE KeptDo(ph, id, Do("release", r, s, "next"))
  <2>1. ph = "exhausted" => Free(id)
    BY <1>0 DEF Picks, Writable, Kept, Free
  <2>2. QED BY <1>2, <2>1, DoFields DEF KeptDo, Starting
<1>3. CASE ph = "starting"
  <2>1. ASSUME r.claim = 0 PROVE Free(id)
    BY <1>0, <1>3, <2>1 DEF Writable, Kept, Free
  <2>2. ASSUME NEW at \in {"grant", "start"}, Free(id) PROVE KeptDo(ph, id, Do(at, r, s, "next"))
    <3>1. r.cat # "interrupted"
      BY <1>0, <1>3 DEF Picks, Writable
    <3>2. QED BY <1>3, <2>2, <3>1, DoFields DEF KeptDo, Starting
  <2>3. d = StartingStep(id, r, s)
    BY <1>3 DEF Decide
  <2>4. QED BY <1>1, <2>1, <2>2, <2>3 DEF StartingStep, Nothing
<1>4. CASE ph = "running"
  <2>1. d = RunningStep(r, s) /\ Writable(r, id) /\ r.cat # "interrupted"
    BY <1>0, <1>4 DEF Decide, Picks, Writable, Active
  <2>2. Abandoned(r) => KeptDo(ph, id, Do("recheck", r, s, "next"))
    BY <1>4, DoFields DEF KeptDo, Starting
  <2>3. \/ d = Nothing(r, s) \/ (Abandoned(r) /\ d = Do("recheck", r, s, "next"))
        \/ \E then \in {"next", "verify"}, q \in {VerifyingCopy(r, s), CompletedCopy(r, s), TerminalCopy(r, s), [r EXCEPT !.seen = s]} :
             d = Do("put", q, s, then)
    BY <2>1 DEF RunningStep
  <2>4. QED BY <1>1, <2>1, <2>2, <2>3, PuttingKept DEF Nothing
<1>5. CASE ph = "verifying"
  <2>1. d = VerifyingStep(r, s) /\ Writable(r, id) /\ r.status = "verifying"
    BY <1>0, <1>5 DEF Decide, Picks
  <2>2. QED BY <2>1, VerifyingKept
<1>6. CASE ph \in {"interrupted", "recoverable"}
  <2>1. d = ProgressedStep(id, r, s) /\ Writable(r, id) /\ (r.cat # "interrupted" \/ r.status = "timeout")
    BY <1>0, <1>6 DEF Decide, Picks, Writable
  <2>2. \/ d = Nothing(r, s)
        \/ \E q \in {VerifyingCopy(r, s), CompletedCopy(r, s), TerminalCopy(r, s)}, then \in {"next", "verify"} :
             d = Do("put", q, s, then)
    BY <2>1 DEF ProgressedStep
  <2>3. QED BY <1>1, <2>1, <2>2, PuttingKept DEF Nothing
<1>7. CASE ph \in {"exhausted", "repair"}
  BY <1>1, <1>2, <1>7 DEF Decide, Nothing
<1>8. CASE ph = "recover"
  <2>1. Free(id)
    BY <1>0, <1>8 DEF Picks, Writable, Kept, Free
  <2>2. ASSUME NEW at \in {"grant", "start", "claim"} PROVE KeptDo(ph, id, Do(at, r, s, "next"))
    <3>1. r.cat # "interrupted"
      BY <1>8 DEF Picks
    <3>2. QED BY <1>8, <2>1, <2>2, <3>1, DoFields DEF KeptDo, Starting
  <2>3. d = RecoverStep(id, r, s)
    BY <1>8 DEF Decide
  <2>4. QED BY <1>1, <2>2, <2>3 DEF RecoverStep, Nothing
<1>9. CASE ph = "queued"
  <2>1. d = PrepareStep(r, s) /\ Free(id) /\ Untouched(r) /\ r.claim <= stamp
    BY <1>0, <1>9, AutomationRunsAssumption DEF Decide, Untouched, Stamps
  <2>2. KeptDo(ph, id, Do("block", r, s, "next"))
    BY DoFields DEF KeptDo, Starting
  <2>3. KeptDo(ph, id, Do("put", FailedCopy(r, "policy_denied", "task_not_ready"), s, "next"))
    <3> DEFINE q == FailedCopy(r, "policy_denied", "task_not_ready")
    <3>1. q.status = "policy_denied" /\ q.cat = "task_not_ready" /\ q.claim = r.claim
      BY DEF FailedCopy, Run
    <3>2. Writable(q, id)
      BY <2>1, <3>1 DEF Writable, Free
    <3> HIDE DEF q
    <3>3. KeptDo(ph, id, Do("put", q, s, "next"))
      BY <3>1, <3>2, DoFields DEF KeptDo, Starting
    <3>4. QED BY <3>3 DEF q
  <2>4. KeptDo(ph, id, Do("put", [r EXCEPT !.status = "claiming", !.seen = s], s, "claim"))
    <3> DEFINE q == [r EXCEPT !.status = "claiming", !.seen = s]
    <3>1. q.status = "claiming" /\ q.claim = r.claim /\ q.cat = "none" /\ ~q.recovery
      BY <2>1 DEF Untouched, Run
    <3>2. Writable(q, id)
      BY <2>1, <3>1 DEF Writable, Free
    <3> HIDE DEF q
    <3>3. KeptDo(ph, id, Do("put", q, s, "claim"))
      BY <1>9, <2>1, <3>1, <3>2, DoFields DEF KeptDo, Starting
    <3>4. QED BY <3>3 DEF q
  <2>5. QED BY <2>1, <2>2, <2>3, <2>4 DEF PrepareStep
<1>10. ph \in {"starting", "running", "verifying", "interrupted", "recoverable", "exhausted", "repair", "recover", "queued"}
  BY DEF Picks
<1>11. QED BY <1>3, <1>4, <1>5, <1>6, <1>7, <1>8, <1>9, <1>10

-----------------------------------------------------------------------------
(* What a step of a call must keep. *)

\* The caller that holds claimMu, and what its call has.
LEMMA HandKnown ==
  ASSUME IInv, KInv, NEW w \in Runners, call[w].at # "idle"
  PROVE  /\ w \in Callers /\ call[w] \in Call /\ Alone(w) /\ InHand(w, call[w]) /\ stamp \in Nat
         /\ \A id \in RunIds : Kempt(id) /\ runs[id] \in Run /\ Known(runner[w])
         /\ \A item \in call[w].todo : item[1] \in RunIds /\ item[1] # NoRun
<1>1. w \in Callers /\ stamp \in Nat
  BY AutomationRunsAssumption DEF IInv, Typed, Callers, Stamps
<1>2. call[w] \in Call /\ Known(runner[w]) /\ \A id \in RunIds : runs[id] \in Run
  BY <1>1 DEF IInv, Typed
<1>3. \A item \in call[w].todo : item[1] \in RunIds
  BY <1>2 DEF Call
<1>4. NoRun \notin RunIds
  BY AutomationRunsAssumption DEF RunIds
<1>5. QED BY <1>1, <1>2, <1>3, <1>4 DEF KInv

\* A step of that caller.
LEMMA HolderStep ==
  ASSUME IInv, KInv, NEW w \in Runners, Alone(w), NEW d, Goto(w, d),
         d.at # "idle" => InHand(w, call[w])',
         \A u, v \in Runners : runner'[u].run # NoRun /\ runner'[u].run = runner'[v].run => u = v,
         \A v \in Runners : runner'[v].beat <= stamp',
         \A id \in RunIds : Kempt(id)'
  PROVE  KInv'
<1>1. w \in Callers /\ call'[w] = d /\ \A v \in Runners \ {w} : call'[v] = call[v] /\ call'[v].at = "idle"
  BY DEF IInv, Typed, Goto, Callers, Alone
<1>2. Alone(w)'
  BY <1>1 DEF Alone
<1>3. \A v \in Runners : call'[v].at # "idle" => Alone(v)' /\ InHand(v, call[v])'
  BY <1>1, <1>2
<1>4. QED BY <1>3 DEF KInv

\* One that changes the task at most.
LEMMA HandStep ==
  ASSUME IInv, KInv, NEW w \in Runners, Alone(w), NEW d, Goto(w, d), d.at # "idle" => InHand(w, d),
         UNCHANGED <<runs, runner, stamp, now>>
  PROVE  KInv'
<1>1. call'[w] = d
  BY DEF IInv, Typed, Goto, Callers
<1>2. d.at # "idle" => InHand(w, call[w])'
  BY <1>1 DEF InHand, Write, Writable, Kept, Granted, Claimable, Free, Abandoned
<1>3. \A id \in RunIds : Kempt(id)'
  BY DEF KInv, Kempt, Writable, Kept, Untouched, Free
<1>4. QED BY <1>2, <1>3, HolderStep DEF KInv

\* A call that leaves the run in hand.
LEMMA GoOnInHand ==
  ASSUME NEW w, NEW c, stamp \in Nat, \A item \in c.todo : item[2] = runs[item[1]] /\ item[1] # NoRun
  PROVE  InHand(w, GoOn(c))
<1>1. CASE c.todo = {}
  <2>1. GoOn(c).at = "list" /\ GoOn(c).todo = {} /\ GoOn(c).stamp = 0
    BY <1>1 DEF GoOn, AtPhase, Step
  <2>2. QED BY <2>1 DEF InHand, Engaged, Starting
<1>2. CASE c.todo # {}
  <2>1. GoOn(c).at = "each" /\ GoOn(c).todo = c.todo /\ GoOn(c).stamp = 0 /\ GoOn(c).id = NoRun
    BY <1>2 DEF GoOn, Step
  <2>2. QED BY <2>1 DEF InHand, Engaged, Starting
<1>3. QED BY <1>1, <1>2

\* What a call holds.
LEMMA CallHolds ==
  ASSUME LockedOnly, IInv, KInv, NEW w \in Runners, call[w].at \notin {"idle", "list"}
  PROVE  LET c == call[w]
         IN  /\ c \in Call /\ Alone(w) /\ InHand(w, c) /\ InHand(w, GoOn(c))
             /\ c.stamp <= stamp /\ \A item \in c.todo : item[2] = runs[item[1]] /\ item[1] # c.id
             /\ Fail(w).at = "idle" /\ Sound(c.run, task) /\ c.run \in Run /\ c.run.claim \in Nat /\ task.status \in Statuses
             /\ c.at \in Engaged => c.id \in RunIds /\ Kempt(c.id) /\ runs[c.id] \in Run
             /\ c.at \in Engaged \ {"put"} => c.run = runs[c.id]
<1> DEFINE c == call[w]
<1>1. /\ c \in Call /\ Alone(w) /\ InHand(w, c) /\ w \in Callers /\ stamp \in Nat
      /\ \A id \in RunIds : Kempt(id) /\ runs[id] \in Run
      /\ \A item \in c.todo : item[2] = runs[item[1]] /\ item[1] # NoRun
  BY HandKnown DEF InHand
<1>2. InHand(w, GoOn(c))
  BY <1>1, GoOnInHand
<1>3. Fail(w).at = "idle"
  BY DEF Fail, Idle, Step, LockedOnly
<1>4. /\ Sound(c.run, task) /\ c.run \in Run /\ task.status \in Statuses
      /\ c.at \in Engaged => c.id \in RunIds
  BY <1>1, CallKnown
<1>5. c.run.claim \in Nat
  BY <1>4, AutomationRunsAssumption DEF Run, Stamps
<1>6. QED BY <1>1, <1>2, <1>3, <1>4, <1>5 DEF InHand

\* A call with a write at hand.
LEMMA PutInHand ==
  ASSUME NEW w, NEW c, c.at = "put", Write(w, c), c.stamp <= stamp,
         \A item \in c.todo : item[2] = runs[item[1]] /\ item[1] # c.id
  PROVE  InHand(w, c)
BY DEF InHand, Engaged, Starting

\* What a phase decided is the next step of its call.
LEMMA DecidedInHand ==
  ASSUME NEW w, NEW id \in RunIds, NEW d, NEW ph, KeptDo(ph, id, d), SoundDo(d), d.at # "pass",
         NEW c, c.at = d.at, c.run = d.run, c.then = d.then, c.id = id, c.stamp <= stamp, Phases(w)[c.phase] = ph,
         \A item \in c.todo : item[2] = runs[item[1]] /\ item[1] # id
  PROVE  InHand(w, c)
<1>1. c.at = "put" => Write(w, c)
  BY DEF KeptDo, SoundDo, Write, Claimable, Abandoned
<1>2. QED BY <1>1 DEF KeptDo, SoundDo, InHand, Claimable, Engaged, Starting

-----------------------------------------------------------------------------
(* The steps of a claim that change no run. *)

LEMMA BeginKept ==
  ASSUME LockedOnly, IInv, KInv, NEW w \in Runners, BeginClaim(w)
  PROVE  KInv'
<1>1. Alone(w)
  BY DEF BeginClaim, Locked, Alone
<1>2. AtPhase(1).at = "list" /\ AtPhase(1).stamp = 0 /\ AtPhase(1).todo = {}
  BY DEF AtPhase, Step
<1>3. stamp \in Nat
  BY AutomationRunsAssumption DEF IInv, Typed, Stamps
<1>4. InHand(w, AtPhase(1))
  BY <1>2, <1>3 DEF InHand, Engaged, Starting
<1>5. QED BY <1>1, <1>4, HandStep DEF BeginClaim

LEMMA ListKept ==
  ASSUME LockedOnly, IInv, KInv, NEW w \in Runners, List(w)
  PROVE  KInv'
<1> DEFINE later == {n \in call[w].phase..Len(Phases(w)) : HasWork(Phases(w)[n])}
           n == CHOOSE n \in later : \A m \in later : n <= m
           ph == Phases(w)[n]
           queueing == [Step("queue", n, {}, NoRun, Absent, task.status, 0, "next") EXCEPT !.pardoned = forgiven]
           looking == Step("each", n, {<<id, runs[id]>> : id \in Picked(ph)}, NoRun, Absent, "none", 0, "next")
<1>1. /\ Goto(w, Idle) \/ (ph = "ready" /\ Goto(w, queueing)) \/ Goto(w, looking)
      /\ UNCHANGED <<runs, runner, stamp, now>> /\ call[w].at # "idle"
  BY DEF List
<1>2. Alone(w) /\ stamp \in Nat
  BY <1>1, HandKnown
<1>3. Idle.at = "idle"
  BY DEF Idle, Step
<1>4. ASSUME ph = "ready" PROVE InHand(w, queueing)
  <2>1. queueing.at = "queue" /\ queueing.phase = n /\ queueing.todo = {} /\ queueing.stamp = 0
    BY DEF Step
  <2> HIDE DEF queueing
  <2>2. QED BY <1>2, <1>4, <2>1 DEF InHand, Engaged, Starting
<1>5. InHand(w, looking)
  <2>0. looking.at = "each" /\ looking.id = NoRun /\ looking.stamp = 0
    BY DEF Step
  <2>1. looking.todo = {<<id, runs[id]>> : id \in Picked(ph)}
    BY DEF Step
  <2>2. \A item \in looking.todo : item[2] = runs[item[1]] /\ item[1] # NoRun
    <3>1. NoRun \notin RunIds
      BY AutomationRunsAssumption DEF RunIds
    <3> HIDE DEF looking
    <3>2. QED BY <2>1, <3>1 DEF Picked
  <2> HIDE DEF looking
  <2>3. QED BY <1>2, <2>0, <2>2 DEF InHand, Engaged, Starting
<1> HIDE DEF queueing, looking
<1>6. QED BY <1>1, <1>2, <1>3, <1>4, <1>5, HandStep

LEMMA EachKept ==
  ASSUME LockedOnly, IInv, KInv, NEW w \in Runners, Each(w)
  PROVE  KInv'
<1> DEFINE c == call[w]
<1>1. c.at = "each" /\ UNCHANGED <<runs, runner, stamp, now>>
  BY DEF Each
<1>2. PICK item \in c.todo :
        LET d    == Decide(Phase(w), item[1], item[2])
            rest == [c EXCEPT !.todo = @ \ {item}]
        IN  Goto(w, IF d.at = "pass" THEN GoOn(rest)
                    ELSE [rest EXCEPT !.at = d.at, !.id = item[1], !.run = d.run, !.seen = d.seen, !.then = d.then])
  BY DEF Each
<1> DEFINE d    == Decide(Phase(w), item[1], item[2])
           rest == [c EXCEPT !.todo = @ \ {item}]
           next == [rest EXCEPT !.at = d.at, !.id = item[1], !.run = d.run, !.seen = d.seen, !.then = d.then]
           id   == item[1]
<1>3. /\ c \in Call /\ Alone(w) /\ InHand(w, c) /\ stamp \in Nat /\ w \in Callers
      /\ \A other \in c.todo : other[1] \in RunIds /\ other[1] # NoRun /\ other[2] = runs[other[1]]
  BY <1>1, HandKnown DEF InHand
<1>4. id \in RunIds /\ item[2] = runs[id] /\ Picks(Phase(w), runs[id]) /\ Kempt(id) /\ Sound(runs[id], task)
  <2>1. Picks(Phases(w)[c.phase], item[2])
    BY <1>3, CallKnown DEF SoundCall
  <2>2. QED BY <1>3, <2>1, CallKnown DEF KInv, Phase
<1>5. KeptDo(Phase(w), id, d) /\ SoundDo(d)
  <2>1. stamp \in Stamps /\ runs[id] \in Run /\ task.status \in Statuses
    BY <1>3, <1>4, CallKnown DEF IInv, Typed, Sound
  <2>2. QED BY <1>4, <2>1, DecideKept, DecideSound
<1> HIDE DEF d
<1>6. /\ next.at = d.at /\ next.run = d.run /\ next.then = d.then /\ next.id = id /\ next.stamp = c.stamp
      /\ next.phase = c.phase /\ next.todo = c.todo \ {item} /\ rest.todo = c.todo \ {item}
  BY <1>3 DEF Call
<1>7. \A other \in c.todo \ {item} : other[2] = runs[other[1]] /\ other[1] # id /\ other[1] # NoRun
  BY <1>3, <1>4 DEF Call
<1>8. Phases(w)[next.phase] = Phase(w) /\ next.stamp <= stamp
  BY <1>3, <1>6 DEF Phase, InHand
<1>9. InHand(w, GoOn(rest))
  <2> HIDE DEF rest
  <2>1. QED BY <1>3, <1>6, <1>7, GoOnInHand
<1>10. d.at # "pass" => InHand(w, next)
  <2> HIDE DEF next
  <2>1. QED BY <1>4, <1>5, <1>6, <1>7, <1>8, DecidedInHand
<1>11. QED BY <1>1, <1>2, <1>3, <1>9, <1>10, HandStep DEF d

LEMMA VerifyKept ==
  ASSUME LockedOnly, IInv, KInv, NEW w \in Runners, Verify(w)
  PROVE  KInv'
<1> DEFINE c == call[w]
           d == VerifyingStep(c.run, task.status)
           next == [c EXCEPT !.at = d.at, !.run = d.run, !.seen = d.seen, !.then = d.then]
<1>1. /\ c.at = "verify" /\ UNCHANGED <<runs, runner, stamp, now>>
      /\ Goto(w, GoOn(c)) \/ (d.at # "pass" /\ c.run.status = "verifying" /\ Goto(w, next))
  BY DEF Verify
<1>2. /\ c \in Call /\ Alone(w) /\ InHand(w, c) /\ InHand(w, GoOn(c)) /\ c.id \in RunIds /\ Kempt(c.id)
      /\ c.run = runs[c.id] /\ Sound(c.run, task) /\ c.run \in Run /\ task.status \in Statuses
  BY <1>1, CallHolds DEF Engaged
<1>3. ASSUME d.at # "pass", c.run.status = "verifying" PROVE InHand(w, next)
  <2>1. Writable(c.run, c.id)
    BY <1>2, <1>3 DEF Kempt, Untouched
  <2>2. KeptDo(Phases(w)[c.phase], c.id, d)
    BY <1>2, <1>3, <2>1, VerifyingKept
  <2>3. SoundDo(d)
    BY <1>2, VerifyingStepSound
  <2> HIDE DEF d
  <2>4. /\ next.at = d.at /\ next.run = d.run /\ next.then = d.then /\ next.id = c.id /\ next.stamp = c.stamp
        /\ next.phase = c.phase /\ next.todo = c.todo
    BY <1>2 DEF Call
  <2>5. \A item \in c.todo : item[2] = runs[item[1]] /\ item[1] # c.id
    BY <1>2 DEF InHand
  <2>6. c.stamp <= stamp
    BY <1>2 DEF InHand
  <2> HIDE DEF next
  <2>7. QED BY <1>2, <1>3, <2>2, <2>3, <2>4, <2>5, <2>6, DecidedInHand
<1>4. QED BY <1>1, <1>2, <1>3, HandStep

\* A run may be completed or timed out whatever it is.
LEMMA OutWritable ==
  ASSUME NEW id \in RunIds, runs[id] \in Run, Kempt(id), stamp \in Nat, NEW s
  PROVE  Writable(CompletedCopy(runs[id], s), id) /\ Writable(InterruptedCopy(runs[id], s), id)
<1>1. CASE Writable(runs[id], id)
  BY <1>1, CopiesWritable, InterruptedWritable
<1>2. CASE Untouched(runs[id]) /\ Free(id)
  <2>1. /\ CompletedCopy(runs[id], s).status = "completed" /\ CompletedCopy(runs[id], s).claim = 0
        /\ CompletedCopy(runs[id], s).cat = "none"
    BY <1>2 DEF CompletedCopy, Run, Untouched
  <2>2. /\ InterruptedCopy(runs[id], s).status = "timeout" /\ InterruptedCopy(runs[id], s).claim = 0
    BY <1>2 DEF InterruptedCopy, Run, Untouched
  <2>3. QED BY <1>2, <2>1, <2>2 DEF Writable, Free
<1>3. QED BY <1>1, <1>2 DEF Kempt

LEMMA CloseKept ==
  ASSUME LockedOnly, IInv, KInv, NEW w \in Runners, Close(w)
  PROVE  KInv'
<1> DEFINE c == call[w]
           q == CompletedCopy(c.run, "done")
           next == [c EXCEPT !.at = "put", !.run = q, !.seen = "done"]
<1>1. c.at = "close" /\ UNCHANGED <<runs, runner, stamp, now>> /\ (Goto(w, next) \/ Goto(w, Fail(w)))
  BY DEF Close
<1>2. /\ c \in Call /\ Alone(w) /\ InHand(w, c) /\ c.stamp <= stamp /\ Fail(w).at = "idle"
      /\ \A item \in c.todo : item[2] = runs[item[1]] /\ item[1] # c.id
      /\ c.id \in RunIds /\ Kempt(c.id) /\ c.run = runs[c.id] /\ runs[c.id] \in Run /\ stamp \in Nat
  BY <1>1, CallHolds, HandKnown DEF Engaged
<1>3. Writable(q, c.id) /\ q.cat = "none"
  BY <1>2, OutWritable DEF CompletedCopy, Run
<1>4. c.then = "next"
  BY <1>1, CallKnown DEF SoundCall, Callers
<1> HIDE DEF q
<1>5. /\ next.at = "put" /\ next.run = q /\ next.then = "next" /\ next.id = c.id /\ next.stamp = c.stamp /\ next.todo = c.todo
  BY <1>2, <1>4 DEF Call
<1> HIDE DEF next
<1>6. Write(w, next)
  BY <1>3, <1>5 DEF Write
<1>7. InHand(w, next)
  BY <1>2, <1>5, <1>6, PutInHand
<1>8. QED BY <1>1, <1>2, <1>7, HandStep

LEMMA RecheckKept ==
  ASSUME LockedOnly, IInv, KInv, NEW w \in Runners, Recheck(w)
  PROVE  KInv'
<1> DEFINE c == call[w]
           q == InterruptedCopy(runs[c.id], c.seen)
           next == [c EXCEPT !.at = "put", !.run = q, !.then = "release"]
<1>1. c.at = "recheck" /\ UNCHANGED <<runs, runner, stamp, now>> /\ (Goto(w, next) \/ Goto(w, GoOn(c)))
  BY DEF Recheck
<1>2. /\ c \in Call /\ Alone(w) /\ InHand(w, c) /\ InHand(w, GoOn(c)) /\ c.stamp <= stamp
      /\ \A item \in c.todo : item[2] = runs[item[1]] /\ item[1] # c.id
      /\ c.id \in RunIds /\ Kempt(c.id) /\ c.run = runs[c.id] /\ runs[c.id] \in Run /\ stamp \in Nat
  BY <1>1, CallHolds, HandKnown DEF Engaged
<1>3. Writable(q, c.id) /\ q.cat = "interrupted"
  BY <1>2, OutWritable DEF InterruptedCopy, Run
<1>4. Abandoned(runs[c.id]) /\ Phases(w)[c.phase] = "running"
  BY <1>1, <1>2 DEF InHand
<1> HIDE DEF q
<1>5. /\ next.at = "put" /\ next.run = q /\ next.then = "release" /\ next.id = c.id /\ next.stamp = c.stamp
      /\ next.todo = c.todo /\ next.phase = c.phase
  BY <1>2 DEF Call
<1> HIDE DEF next
<1>6. Write(w, next)
  BY <1>3, <1>4, <1>5 DEF Write
<1>7. InHand(w, next)
  BY <1>2, <1>5, <1>6, PutInHand
<1>8. QED BY <1>1, <1>2, <1>7, HandStep

LEMMA ReleaseKept ==
  ASSUME LockedOnly, IInv, KInv, NEW w \in Runners, Release(w)
  PROVE  KInv'
<1> DEFINE c == call[w]
           s == Released(c.id).status
           q == [FailedCopy(c.run, "failed", "exhausted") EXCEPT !.seen = s, !.recovery = FALSE]
           failing == [c EXCEPT !.at = "put", !.seen = s, !.pardoned = forgiven', !.then = "queue", !.run = q]
           queueing == [c EXCEPT !.at = "queue", !.seen = s, !.pardoned = forgiven', !.run = Absent]
<1>1. /\ c.at = "release" /\ UNCHANGED <<runs, runner, stamp, now>>
      /\ \/ Goto(w, queueing) \/ (Phases(w)[c.phase] = "exhausted" /\ Goto(w, failing))
         \/ Goto(w, GoOn(c)) \/ Goto(w, Fail(w))
  BY DEF Release, Phase
<1>2. /\ c \in Call /\ Alone(w) /\ InHand(w, c) /\ InHand(w, GoOn(c)) /\ c.stamp <= stamp /\ Fail(w).at = "idle"
      /\ \A item \in c.todo : item[2] = runs[item[1]] /\ item[1] # c.id
      /\ c.id \in RunIds /\ Kempt(c.id) /\ c.run = runs[c.id] /\ runs[c.id] \in Run /\ stamp \in Nat
  BY <1>1, CallHolds, HandKnown DEF Engaged
<1>3. Phases(w)[c.phase] # "queued"
  BY <1>1, <1>2 DEF InHand
<1> HIDE DEF s
<1>4. InHand(w, queueing)
  <2>1. queueing.at = "queue" /\ queueing.phase = c.phase /\ queueing.todo = c.todo /\ queueing.stamp = c.stamp /\ queueing.id = c.id
    BY <1>2 DEF Call
  <2> HIDE DEF queueing
  <2>2. QED BY <1>2, <1>3, <2>1 DEF InHand, Engaged, Starting
<1>5. ASSUME Phases(w)[c.phase] = "exhausted" PROVE InHand(w, failing)
  <2>1. Free(c.id)
    BY <1>1, <1>2, <1>5 DEF InHand
  <2>2. c.run.claim <= stamp
    BY <1>2, AutomationRunsAssumption DEF Kempt, Writable, Untouched
  <2>3. Writable(q, c.id) /\ q.cat = "exhausted"
    <3>1. q.status = "failed" /\ q.cat = "exhausted" /\ q.claim = c.run.claim
      BY <1>2 DEF FailedCopy, Run
    <3>2. QED BY <2>1, <2>2, <3>1 DEF Writable, Free
  <2> HIDE DEF q
  <2>4. /\ failing.at = "put" /\ failing.run = q /\ failing.then = "queue" /\ failing.id = c.id /\ failing.stamp = c.stamp
        /\ failing.todo = c.todo /\ failing.phase = c.phase
    BY <1>2 DEF Call
  <2> HIDE DEF failing
  <2>5. Write(w, failing)
    BY <1>3, <2>3, <2>4 DEF Write
  <2>6. QED BY <1>2, <2>4, <2>5, PutInHand
<1> HIDE DEF queueing, failing
<1>6. QED BY <1>1, <1>2, <1>4, <1>5, HandStep

LEMMA QueueKept ==
  ASSUME LockedOnly, IInv, KInv, NEW w \in Runners, Queue(w)
  PROVE  KInv'
<1> DEFINE c == call[w]
<1>1. /\ c.at = "queue" /\ UNCHANGED <<runs, runner, stamp, now>>
      /\ Goto(w, GoOn(c)) \/ \E at \in {"block", "create"} : Goto(w, [c EXCEPT !.at = at])
  BY DEF Queue
<1>2. /\ c \in Call /\ Alone(w) /\ InHand(w, c) /\ InHand(w, GoOn(c))
  BY <1>1, CallHolds
<1>3. ASSUME NEW at \in {"block", "create"} PROVE InHand(w, [c EXCEPT !.at = at])
  <2> DEFINE next == [c EXCEPT !.at = at]
  <2>1. next.at = at /\ next.stamp = c.stamp /\ next.id = c.id /\ next.todo = c.todo /\ next.phase = c.phase
    BY <1>2 DEF Call
  <2> HIDE DEF next
  <2>2. InHand(w, next)
    BY <1>1, <1>2, <1>3, <2>1 DEF InHand, Engaged, Starting
  <2>3. QED BY <2>2 DEF next
<1>4. QED BY <1>1, <1>2, <1>3, HandStep

LEMMA BlockKept ==
  ASSUME LockedOnly, IInv, KInv, NEW w \in Runners, Block(w)
  PROVE  KInv'
<1> DEFINE c == call[w]
           q == [FailedCopy(c.run, "blocked", "other") EXCEPT !.seen = "blocked", !.recovery = FALSE]
           next == [c EXCEPT !.at = "put", !.run = q]
<1>1. /\ c.at = "block" /\ UNCHANGED <<runs, runner, stamp, now>>
      /\ \/ Phases(w)[c.phase] = "queued" /\ Goto(w, next)
         \/ Goto(w, GoOn(c)) \/ Goto(w, Fail(w))
  BY DEF Block, Phase
<1>2. /\ c \in Call /\ Alone(w) /\ InHand(w, c) /\ InHand(w, GoOn(c)) /\ c.stamp <= stamp /\ Fail(w).at = "idle"
      /\ \A item \in c.todo : item[2] = runs[item[1]] /\ item[1] # c.id
      /\ c.run \in Run /\ stamp \in Nat /\ \A id \in RunIds : Kempt(id)
  BY <1>1, CallHolds, HandKnown
<1>3. c.then = "next"
  BY <1>1, CallKnown DEF SoundCall, Callers
<1>4. ASSUME Phases(w)[c.phase] = "queued" PROVE InHand(w, next)
  <2>1. c.run = runs[c.id] /\ c.id \in RunIds /\ Kempt(c.id)
    BY <1>1, <1>2, <1>4 DEF InHand
  <2>2. /\ q.status = "blocked" /\ q.cat = "other" /\ q.claim = c.run.claim
    BY <1>2 DEF FailedCopy, Run
  <2>3. Writable(q, c.id)
    <3>1. CASE Writable(runs[c.id], c.id)
      BY <2>1, <2>2, <3>1 DEF Writable, Kept, Active
    <3>2. CASE Untouched(runs[c.id]) /\ Free(c.id)
      BY <1>2, <2>1, <2>2, <3>2 DEF Writable, Untouched, Free
    <3>3. QED BY <2>1, <3>1, <3>2 DEF Kempt
  <2> HIDE DEF q
  <2>4. /\ next.at = "put" /\ next.run = q /\ next.then = "next" /\ next.id = c.id /\ next.stamp = c.stamp
        /\ next.todo = c.todo
    BY <1>2, <1>3 DEF Call
  <2> HIDE DEF next
  <2>5. Write(w, next)
    BY <2>2, <2>3, <2>4 DEF Write
  <2>6. QED BY <1>2, <2>4, <2>5, PutInHand
<1>5. QED BY <1>1, <1>2, <1>4, HandStep

\* What Claim and Start store of a run that its task refused.
LEMMA RefusedInHand ==
  ASSUME LockedOnly, IInv, KInv, NEW w \in Runners, call[w].at \in {"claim", "start"}
  PROVE  InHand(w, [call[w] EXCEPT !.at = "put", !.run = FailedCopy(@, "blocked", "recoverable")])
<1> DEFINE c == call[w]
           q == FailedCopy(c.run, "blocked", "recoverable")
           next == [c EXCEPT !.at = "put", !.run = q]
<1>1. /\ c \in Call /\ InHand(w, c) /\ c.stamp <= stamp
      /\ \A item \in c.todo : item[2] = runs[item[1]] /\ item[1] # c.id
      /\ c.run \in Run /\ stamp \in Nat /\ c.id \in RunIds /\ Kempt(c.id) /\ c.run = runs[c.id]
  BY CallHolds, HandKnown DEF Engaged
<1>2. c.then = "next"
  BY CallKnown DEF SoundCall, Callers
<1>3. Free(c.id)
  BY <1>1 DEF InHand, Starting, Claimable
<1>4. /\ q.status = "blocked" /\ q.cat = "recoverable" /\ q.claim = c.run.claim
  BY <1>1 DEF FailedCopy, Run
<1>5. Writable(q, c.id)
  BY <1>1, <1>3, <1>4 DEF Kempt, Writable, Untouched, Free
<1> HIDE DEF q
<1>6. /\ next.at = "put" /\ next.run = q /\ next.then = "next" /\ next.id = c.id /\ next.stamp = c.stamp
      /\ next.todo = c.todo
  BY <1>1, <1>2 DEF Call
<1> HIDE DEF next
<1>7. Write(w, next)
  BY <1>4, <1>5, <1>6 DEF Write
<1>8. InHand(w, next)
  BY <1>1, <1>6, <1>7, PutInHand
<1>9. QED BY <1>8 DEF next, q

LEMMA ClaimKept ==
  ASSUME LockedOnly, IInv, KInv, NEW w \in Runners, Claim(w)
  PROVE  KInv'
<1> DEFINE c == call[w]
           q == [c.run EXCEPT !.status = "starting", !.seen = "claimed"]
           starting == [c EXCEPT !.at = "put", !.run = q, !.then = "start"]
           refused == [c EXCEPT !.at = "put", !.run = FailedCopy(@, "blocked", "recoverable")]
           going == [c EXCEPT !.at = "start"]
<1>1. /\ c.at = "claim" /\ UNCHANGED <<runs, runner, stamp, now>>
      /\ \/ Goto(w, starting) \/ Goto(w, going) \/ Goto(w, refused) \/ Goto(w, GoOn(c))
  BY DEF Claim
<1>2. /\ c \in Call /\ Alone(w) /\ InHand(w, c) /\ InHand(w, GoOn(c)) /\ c.stamp <= stamp
      /\ \A item \in c.todo : item[2] = runs[item[1]] /\ item[1] # c.id
      /\ c.run \in Run /\ stamp \in Nat /\ c.id \in RunIds /\ Kempt(c.id) /\ c.run = runs[c.id]
  BY <1>1, CallHolds, HandKnown DEF Engaged
<1>3. Claimable(w, c)
  BY <1>1, <1>2 DEF InHand, Starting
<1>4. InHand(w, starting)
  <2>1. /\ q.status = "starting" /\ q.cat = c.run.cat /\ q.claim = c.run.claim /\ q.recovery = c.run.recovery
    BY <1>2 DEF Run
  <2>2. Writable(q, c.id) /\ q.cat # "interrupted"
    BY <1>2, <1>3, <2>1 DEF Kempt, Writable, Untouched, Free, Claimable
  <2> HIDE DEF q
  <2>3. /\ starting.at = "put" /\ starting.run = q /\ starting.then = "start" /\ starting.id = c.id /\ starting.stamp = c.stamp
        /\ starting.todo = c.todo /\ starting.phase = c.phase
    BY <1>2 DEF Call
  <2> HIDE DEF starting
  <2>4. Write(w, starting)
    BY <1>3, <2>1, <2>2, <2>3 DEF Write, Claimable
  <2>5. QED BY <1>2, <2>3, <2>4, PutInHand
<1>5. InHand(w, going)
  <2>1. /\ going.at = "start" /\ going.run = c.run /\ going.id = c.id /\ going.stamp = c.stamp /\ going.todo = c.todo
        /\ going.phase = c.phase
    BY <1>2 DEF Call
  <2> HIDE DEF going
  <2>2. QED BY <1>2, <1>3, <2>1 DEF InHand, Claimable, Engaged, Starting
<1>6. InHand(w, refused)
  BY <1>1, RefusedInHand
<1> HIDE DEF starting, going, refused
<1>7. QED BY <1>1, <1>2, <1>4, <1>5, <1>6, HandStep

LEMMA StartKept ==
  ASSUME LockedOnly, IInv, KInv, NEW w \in Runners, Start(w)
  PROVE  KInv'
<1> DEFINE c == call[w]
           refused == [c EXCEPT !.at = "put", !.run = FailedCopy(@, "blocked", "recoverable")]
           going == [c EXCEPT !.at = "grant"]
<1>1. /\ c.at = "start" /\ UNCHANGED <<runs, runner, stamp, now>>
      /\ \/ Goto(w, going) \/ Goto(w, refused) \/ Goto(w, GoOn(c))
  BY DEF Start
<1>2. /\ c \in Call /\ Alone(w) /\ InHand(w, c) /\ InHand(w, GoOn(c)) /\ c.run = runs[c.id] /\ c.id \in RunIds
  BY <1>1, CallHolds DEF Engaged
<1>3. InHand(w, going)
  <2>1. /\ going.at = "grant" /\ going.run = c.run /\ going.id = c.id /\ going.stamp = c.stamp /\ going.todo = c.todo
        /\ going.phase = c.phase
    BY <1>2 DEF Call
  <2> HIDE DEF going
  <2>2. QED BY <1>1, <1>2, <2>1 DEF InHand, Claimable, Engaged, Starting
<1>4. InHand(w, refused)
  BY <1>1, RefusedInHand
<1> HIDE DEF going, refused
<1>5. QED BY <1>1, <1>2, <1>3, <1>4, HandStep

LEMMA DurableKept ==
  ASSUME LockedOnly, IInv, KInv, NEW w \in Runners, Durable(w)
  PROVE  KInv'
<1> DEFINE c == call[w]
           next == [c EXCEPT !.at = "verify", !.run = runs[c.id]]
<1>1. c.at = "durable" /\ UNCHANGED <<runs, runner, stamp, now>> /\ (Goto(w, next) \/ Goto(w, Idle))
  BY DEF Durable
<1>2. c \in Call /\ Alone(w) /\ InHand(w, c) /\ c.id \in RunIds
  BY <1>1, CallHolds DEF Engaged
<1>3. InHand(w, next)
  <2>1. next.at = "verify" /\ next.run = runs[c.id] /\ next.id = c.id /\ next.stamp = c.stamp /\ next.todo = c.todo
    BY <1>2 DEF Call
  <2> HIDE DEF next
  <2>2. QED BY <1>2, <2>1 DEF InHand, Engaged, Starting
<1>4. Idle.at = "idle"
  BY DEF Idle, Step
<1> HIDE DEF next
<1>5. QED BY <1>1, <1>2, <1>3, <1>4, HandStep

LEMMA CutKept ==
  ASSUME LockedOnly, IInv, KInv, NEW w \in Runners, Cut(w)
  PROVE  KInv'
<1>1. Idle.at = "idle"
  BY DEF Idle, Step
<1>2. \A v \in Runners : call'[v].at # "idle" => call'[v] = call[v] /\ call[v].at # "idle"
  BY <1>1 DEF Cut, Goto, IInv, Typed, Callers
<1>3. UNCHANGED <<runs, runner, stamp, now>>
  BY DEF Cut
<1>4. \A v \in Runners : call'[v].at # "idle" => Alone(v)' /\ InHand(v, call[v])'
  BY <1>2, <1>3 DEF KInv, Alone, InHand, Write, Writable, Kept, Granted, Claimable, Free, Abandoned
<1>5. \A id \in RunIds : Kempt(id)'
  BY <1>3 DEF KInv, Kempt, Writable, Kept, Untouched, Free
<1>6. QED BY <1>3, <1>4, <1>5 DEF KInv

-----------------------------------------------------------------------------
(* The steps of a claim that issue a claim, write a run or create one. *)

LEMMA GrantKept ==
  ASSUME LockedOnly, IInv, KInv, NEW w \in Runners, Grant(w)
  PROVE  KInv'
<1> DEFINE c == call[w]
           q == RunningCopy(c.run, Phase(w) = "recover")
           next == [c EXCEPT !.at = "put", !.run = q, !.stamp = stamp + 1, !.then = "reply"]
<1>1. c.at = "grant" /\ UNCHANGED <<runs, runner, now>>
  BY DEF Grant
<1>2. /\ c \in Call /\ Alone(w) /\ InHand(w, c) /\ stamp \in Nat /\ c.id \in RunIds /\ Kempt(c.id)
      /\ \A item \in c.todo : item[2] = runs[item[1]] /\ item[1] # c.id
      /\ c.run = runs[c.id] /\ c.run \in Run /\ c.run.claim \in Nat /\ w \in Callers
  BY <1>1, CallHolds, HandKnown DEF Engaged
<1>3. CASE UNCHANGED stamp /\ Goto(w, Idle)
  BY <1>1, <1>2, <1>3, HandStep DEF Idle, Step
<1>4. CASE stamp' = stamp + 1 /\ Goto(w, next)
  <2>1. Claimable(w, c)
    BY <1>1, <1>2 DEF InHand, Starting
  <2>2. /\ q.status = "running" /\ q.cat = "none" /\ q.claim = stamp + 1 /\ q.lease = stamp + 1
        /\ Phase(w) = "queued" => q.recovery = c.run.recovery
    BY <1>2 DEF RunningCopy, Run
  <2> HIDE DEF q
  <2>3. /\ next.at = "put" /\ next.run = q /\ next.then = "reply" /\ next.id = c.id /\ next.stamp = stamp + 1
        /\ next.todo = c.todo /\ next.phase = c.phase
    BY <1>2 DEF Call
  <2> HIDE DEF next
  <2>4. call'[w] = next
    BY <1>2, <1>4 DEF Goto, IInv, Typed
  <2>5. runs[c.id].claim <= stamp
    BY <1>2 DEF Kempt, Writable, Untouched
  <2>6. Write(w, call[w])'
    <3>2. Writable(call[w].run, call[w].id)'
      BY <1>1, <1>2, <1>4, <2>1, <2>2, <2>3, <2>4 DEF Writable, Claimable, Free
    <3>3. Claimable(w, call[w])'
      BY <1>1, <2>1, <2>2, <2>3, <2>4 DEF Claimable, Free, Phase
    <3>4. Granted(q, stamp + 1) /\ runs'[c.id].claim < stamp + 1
      BY <1>1, <1>2, <2>2, <2>5 DEF Granted
    <3>5. QED BY <1>1, <1>2, <1>4, <2>2, <2>3, <2>4, <3>2, <3>3, <3>4 DEF Write, Granted
  <2>7. InHand(w, call[w])'
    BY <1>1, <1>2, <1>4, <2>3, <2>4, <2>6 DEF InHand, Engaged, Starting
  <2>8. \A id \in RunIds : Kempt(id)'
    <3>1. ASSUME NEW id \in RunIds PROVE Kempt(id)'
      <4>1. runs[id].claim \in Nat /\ Kempt(id)
        BY AutomationRunsAssumption DEF IInv, Typed, Run, Stamps, KInv
      <4>2. QED BY <1>1, <1>2, <1>4, <4>1 DEF Kempt, Writable, Kept, Untouched, Free
    <3>2. QED BY <3>1
  <2>9. \A v \in Runners : runner'[v].beat <= stamp'
    BY <1>1, <1>2, <1>4, AutomationRunsAssumption DEF KInv, IInv, Typed, Stamps
  <2>10. \A u, v \in Runners : runner'[u].run # NoRun /\ runner'[u].run = runner'[v].run => u = v
    BY <1>1 DEF KInv
  <2>11. QED BY <1>2, <1>4, <2>7, <2>8, <2>9, <2>10, HolderStep
<1>5. QED BY <1>3, <1>4 DEF Grant

\* The store takes the run that is written, or leaves one that was started again.
LEMMA StoredFields ==
  ASSUME NEW old, NEW new \in Run
  PROVE  /\ \/ Stored(old, new) = old /\ new.status = "running" /\ new.recovery
            \/ Stored(old, new) = [new EXCEPT !.old = FALSE]
         /\ LET r == [new EXCEPT !.old = FALSE]
            IN  /\ r.status = new.status /\ r.cat = new.cat /\ r.claim = new.claim /\ r.lease = new.lease
                /\ r.recovery = new.recovery /\ r.seen = new.seen /\ r.attempts = new.attempts
                /\ r.automatic = new.automatic /\ ~r.old
BY DEF Stored, Run

LEMMA PutKept ==
  ASSUME LockedOnly, IInv, KInv, NEW w \in Runners, Put(w)
  PROVE  KInv'
<1> DEFINE c == call[w]
           stored == Stored(runs[c.id], c.run)
           rest == [c EXCEPT !.run = stored, !.at = c.then, !.then = "next"]
<1>1. /\ c.at = "put" /\ runs' = [runs EXCEPT ![c.id] = stored] /\ UNCHANGED <<runner, stamp, now>>
      /\ \/ Goto(w, GoOn(c))
         \/ /\ Goto(w, rest) /\ c.then # "next"
            /\ c.then = "reply" /\ Phases(w)[c.phase] \in {"starting", "recover"} => stored.claim = c.stamp
  BY DEF Put, Phase
<1>2. /\ c \in Call /\ Alone(w) /\ InHand(w, c) /\ stamp \in Nat /\ c.stamp <= stamp /\ c.id \in RunIds
      /\ \A item \in c.todo : item[2] = runs[item[1]] /\ item[1] # c.id /\ item[1] \in RunIds /\ item[1] # NoRun
      /\ c.run \in Run /\ w \in Callers /\ runs \in [RunIds -> Run] /\ \A id \in RunIds : Kempt(id)
  BY <1>1, CallHolds, HandKnown DEF Engaged, IInv, Typed
<1>3. Write(w, c)
  BY <1>1, <1>2 DEF InHand
<1>4. /\ \/ stored = runs[c.id] /\ c.run.status = "running" /\ c.run.recovery
         \/ stored = [c.run EXCEPT !.old = FALSE]
      /\ LET r == [c.run EXCEPT !.old = FALSE]
         IN  /\ r.status = c.run.status /\ r.cat = c.run.cat /\ r.claim = c.run.claim /\ r.lease = c.run.lease
             /\ r.recovery = c.run.recovery
  BY <1>2, StoredFields
<1> HIDE DEF stored
<1>5. runs'[c.id] = stored /\ \A id \in RunIds \ {c.id} : runs'[id] = runs[id]
  BY <1>1, <1>2
<1>6. \A id \in RunIds : Kempt(id)'
  <2>1. ASSUME NEW id \in RunIds PROVE Kempt(id)'
    <3>1. CASE runs'[id] = runs[id]
      BY <1>1, <1>2, <3>1 DEF Kempt, Writable, Kept, Untouched, Free
    <3>2. CASE id = c.id /\ stored = [c.run EXCEPT !.old = FALSE]
      <4>1. Writable(c.run, id)
        BY <1>3, <3>2 DEF Write
      <4>2. /\ runs'[id].status = c.run.status /\ runs'[id].cat = c.run.cat /\ runs'[id].claim = c.run.claim
            /\ runs'[id].lease = c.run.lease /\ runs'[id].recovery = c.run.recovery
        BY <1>4, <1>5, <3>2
      <4>3. Writable(runs[id], id)'
        BY <1>1, <4>1, <4>2 DEF Writable, Kept
      <4>4. QED BY <4>3 DEF Kempt
    <3>3. QED BY <1>4, <1>5, <3>1, <3>2
  <2>2. QED BY <2>1
<1>7. \A item \in c.todo : item[2] = runs'[item[1]]
  BY <1>2, <1>5
<1>8. CASE Goto(w, GoOn(c))
  <2>1. call'[w] = GoOn(c)
    BY <1>2, <1>8 DEF Goto, IInv, Typed
  <2>2. /\ GoOn(c).at \in {"list", "each"} /\ GoOn(c).stamp = 0 /\ GoOn(c).todo \subseteq c.todo /\ GoOn(c).id = NoRun
    BY DEF GoOn, AtPhase, Step
  <2>3. InHand(w, call[w])'
    BY <1>1, <1>2, <1>7, <2>1, <2>2 DEF InHand, Engaged, Starting
  <2>4. QED BY <1>1, <1>2, <1>6, <1>8, <2>3, HolderStep DEF KInv
<1>9. CASE /\ Goto(w, rest) /\ c.then # "next"
           /\ c.then = "reply" /\ Phases(w)[c.phase] \in {"starting", "recover"} => stored.claim = c.stamp
  <2>1. call'[w] = rest
    BY <1>2, <1>9 DEF Goto, IInv, Typed
  <2>2. /\ rest.at = c.then /\ rest.run = stored /\ rest.id = c.id /\ rest.stamp = c.stamp
        /\ rest.todo = c.todo /\ rest.phase = c.phase
    BY <1>2 DEF Call
  <2>3. c.then \in Thens /\ (c.then \in Starting => c.run.status # "running" /\ c.then \in {"claim", "start"})
    BY <1>1, <1>2, CallKnown DEF SoundCall, Thens, Starting
  <2>4. rest.at \notin {"put", "block", "recheck"}
    BY <1>9, <2>2, <2>3 DEF Thens
  <2>5. rest.at \in {"release", "queue"} => Phases(w)[c.phase] \notin {"queued"} /\ (rest.at = "release" => Phases(w)[c.phase] # "exhausted")
    BY <1>3, <2>2 DEF Write
  <2>6. ASSUME rest.at \in Starting PROVE Claimable(w, call[w])'
    <3>1. c.then \in {"claim", "start"} /\ c.run.status # "running"
      BY <2>2, <2>3, <2>6
    <3>2. Claimable(w, c)
      BY <1>3, <3>1 DEF Write
    <3>3. stored = [c.run EXCEPT !.old = FALSE]
      BY <1>4, <3>1
    <3>4. stored.cat = c.run.cat /\ stored.recovery = c.run.recovery
      BY <1>4, <3>3
    <3>5. QED BY <1>1, <2>1, <2>2, <3>2, <3>4 DEF Claimable, Free
  <2>7. ASSUME rest.at = "reply" PROVE Free(c.id) /\ Granted(stored, c.stamp)
    <3>1. Claimable(w, c) /\ Granted(c.run, c.stamp) /\ runs[c.id].claim < c.stamp
      BY <1>3, <2>2, <2>7 DEF Write
    <3>2. runs[c.id].claim # c.stamp
      BY <1>2, <3>1, AutomationRunsAssumption DEF Call, Run, Stamps
    <3>3. stored # runs[c.id] \/ stored = [c.run EXCEPT !.old = FALSE]
      BY <1>4, <1>9, <2>2, <2>7, <3>1, <3>2 DEF Claimable
    <3>4. stored = [c.run EXCEPT !.old = FALSE]
      BY <1>4, <3>3
    <3>5. QED BY <1>4, <3>1, <3>4 DEF Granted, Claimable
  <2>8. ASSUME rest.at = "renewed" PROVE runner'[w].run \in {NoRun, c.id} /\ (~stored.recovery => stored.lease = c.stamp)
    <3>1. runner[w].run \in {NoRun, c.id} /\ c.run = [runs[c.id] EXCEPT !.lease = c.stamp]
      BY <1>3, <2>2, <2>8 DEF Write
    <3>2. c.run.lease = c.stamp /\ c.run.recovery = runs[c.id].recovery
      BY <1>2, <3>1 DEF Run
    <3>3. QED BY <1>1, <1>4, <3>1, <3>2
  <2> HIDE DEF rest
  <2>9. InHand(w, call[w])'
    <3>1. call[w]'.id = c.id /\ call[w]'.run = stored /\ call[w]'.at = rest.at /\ call[w]'.stamp = c.stamp /\ call[w]'.todo = c.todo
          /\ call[w]'.phase = c.phase
      BY <2>1, <2>2
    <3>2. rest.at = "reply" => Free(call[w].id)' /\ Granted(call[w].run, call[w].stamp)'
      BY <1>1, <2>7, <3>1 DEF Free, Granted
    <3>3. QED BY <1>1, <1>2, <1>5, <1>7, <2>4, <2>5, <2>6, <2>8, <3>1, <3>2 DEF InHand
  <2>10. QED BY <1>1, <1>2, <1>6, <1>9, <2>9, HolderStep DEF KInv
<1>10. QED BY <1>1, <1>8, <1>9

\* A new run takes the place of none.
LEMMA OneCreated ==
  ASSUME runs \in [RunIds -> Run], NEW automatic \in BOOLEAN
  PROVE  \/ Created(automatic) = runs
         \/ \E id \in RunIds : runs[id].status = "absent" /\ Created(automatic) = [runs EXCEPT ![id] = NewRun(automatic)]
<1> DEFINE first == CHOOSE id \in RunIds \ Existing : \A other \in RunIds \ Existing : id <= other
<1>1. CASE Existing # RunIds
  <2>1. RunIds \ Existing # {} /\ RunIds \ Existing \subseteq Nat
    BY <1>1 DEF Existing, RunIds
  <2>2. first \in RunIds \ Existing
    BY <2>1, LeastElement
  <2>3. Created(automatic) = [runs EXCEPT ![first] = NewRun(automatic)]
    BY <1>1 DEF Created
  <2> HIDE DEF first
  <2>4. QED BY <2>2, <2>3 DEF Existing
<1>2. QED BY <1>1 DEF Created

LEMMA CreatedOnly ==
  ASSUME runs \in [RunIds -> Run], NEW automatic \in BOOLEAN
  PROVE  \A id \in RunIds :
           \/ Created(automatic)[id] = runs[id]
           \/ runs[id].status = "absent" /\ Created(automatic)[id] = NewRun(automatic)
BY OneCreated

LEMMA NewRunFields ==
  ASSUME NEW automatic
  PROVE  /\ NewRun(automatic).status = "queued" /\ NewRun(automatic).claim = 0 /\ NewRun(automatic).cat = "none"
         /\ ~NewRun(automatic).recovery /\ NewRun(automatic).automatic = automatic /\ NewRun(automatic).attempts = 0
BY DEF NewRun, Absent

LEMMA CreateKept ==
  ASSUME LockedOnly, IInv, KInv, NEW w \in Runners, Create(w)
  PROVE  KInv'
<1> DEFINE c == call[w]
<1>1. c.at = "create" /\ runs' = Created(TRUE) /\ UNCHANGED <<runner, stamp, now>> /\ Goto(w, GoOn(c))
  BY DEF Create
<1>2. /\ c \in Call /\ Alone(w) /\ stamp \in Nat /\ w \in Callers
      /\ \A item \in c.todo : item[2] = runs[item[1]] /\ item[1] \in RunIds /\ item[1] # NoRun
      /\ runs \in [RunIds -> Run] /\ \A id \in RunIds : Kempt(id)
  BY <1>1, CallHolds, HandKnown DEF IInv, Typed
<1>3. \A id \in RunIds : runs'[id] = runs[id] \/ (runs[id].status = "absent" /\ runs'[id] = NewRun(TRUE))
  BY <1>1, <1>2, CreatedOnly
<1>4. \A item \in c.todo : item[2].status # "absent"
  <2>1. \A item \in c.todo : Picks(Phases(w)[c.phase], item[2])
    BY <1>2, CallKnown DEF SoundCall
  <2>2. QED BY <2>1 DEF Picks, Active
<1>5. \A item \in c.todo : item[2] = runs'[item[1]]
  BY <1>2, <1>3, <1>4
<1>6. /\ GoOn(c).at \in {"list", "each"} /\ GoOn(c).stamp = 0 /\ GoOn(c).todo \subseteq c.todo /\ GoOn(c).id = NoRun
  BY DEF GoOn, AtPhase, Step
<1>7. call'[w] = GoOn(c)
  BY <1>1, <1>2 DEF Goto, IInv, Typed
<1>8. InHand(w, call[w])'
  <2>1. stamp' \in Nat /\ \A item \in c.todo : item[2] = runs'[item[1]] /\ item[1] # NoRun
    BY <1>1, <1>2, <1>5
  <2>2. \A item \in call[w]'.todo : item[2] = runs'[item[1]] /\ item[1] # call[w]'.id
    BY <1>6, <1>7, <2>1
  <2>3. call[w]'.at \in {"list", "each"} /\ call[w]'.stamp <= stamp'
    BY <1>6, <1>7, <2>1
  <2>4. QED BY <2>2, <2>3 DEF InHand, Engaged, Starting
<1>9. \A id \in RunIds : Kempt(id)'
  <2>1. ASSUME NEW id \in RunIds PROVE Kempt(id)'
    <3>1. CASE runs'[id] = runs[id]
      BY <1>1, <1>2, <3>1 DEF Kempt, Writable, Kept, Untouched, Free
    <3>2. CASE runs[id].status = "absent" /\ runs'[id] = NewRun(TRUE)
      <4>1. Free(id)
        BY <1>2, <3>2 DEF Kempt, Writable
      <4>2. Untouched(runs'[id])
        BY <3>2, NewRunFields DEF Untouched
      <4>3. QED BY <1>1, <4>1, <4>2 DEF Kempt, Free, Untouched
    <3>3. QED BY <1>3, <3>1, <3>2
  <2>2. QED BY <2>1
<1>10. QED BY <1>1, <1>2, <1>8, <1>9, HolderStep DEF KInv

-----------------------------------------------------------------------------
(* The steps of runners. *)

LEMMA ReplyKept ==
  ASSUME LockedOnly, IInv, KInv, NEW w \in Runners, Reply(w)
  PROVE  KInv'
<1> DEFINE c == call[w]
           k == [run |-> c.id, claim |-> c.stamp, beat |-> c.stamp, moved |-> FALSE]
<1>1. c.at = "reply" /\ runner' = [runner EXCEPT ![w] = k] /\ Goto(w, Idle) /\ UNCHANGED <<runs, stamp, now>>
  BY DEF Reply
<1>2. /\ c \in Call /\ Alone(w) /\ InHand(w, c) /\ c.stamp <= stamp /\ c.id \in RunIds /\ c.run = runs[c.id]
      /\ \A id \in RunIds : Kempt(id)
  BY <1>1, CallHolds, HandKnown DEF Engaged
<1>3. Free(c.id) /\ Granted(c.run, c.stamp)
  BY <1>1, <1>2 DEF InHand
<1>4. /\ runner'[w].run = c.id /\ runner'[w].beat = c.stamp /\ \A v \in Runners \ {w} : runner'[v] = runner[v]
  BY <1>1 DEF IInv, Typed
<1>5. \A id \in RunIds : Kempt(id)'
  <2>1. ASSUME NEW id \in RunIds PROVE Kempt(id)'
    <3>1. CASE id # c.id
      BY <1>1, <1>2, <1>4, <3>1 DEF Kempt, Writable, Kept, Untouched, Free
    <3>2. CASE id = c.id
      <4>1. Granted(runs[id], c.stamp) /\ c.stamp \in Nat
        BY <1>2, <1>3, <3>2, AutomationRunsAssumption DEF Call, Stamps
      <4>2. \A v \in Runners : runner'[v].run = id => Kept(runs[id], runner'[v])
        BY <1>3, <1>4, <3>2, <4>1 DEF Granted, Kept, Free
      <4>3. Writable(runs[id], id)'
        BY <1>1, <1>2, <4>1, <4>2 DEF Writable, Granted, Kept
      <4>4. QED BY <4>3 DEF Kempt
    <3>3. QED BY <3>1, <3>2
  <2>2. QED BY <2>1
<1>6. \A u, v \in Runners : runner'[u].run # NoRun /\ runner'[u].run = runner'[v].run => u = v
  BY <1>3, <1>4 DEF KInv, Free
<1>7. \A v \in Runners : runner'[v].beat <= stamp'
  BY <1>1, <1>2, <1>4 DEF KInv
<1>8. QED BY <1>1, <1>2, <1>5, <1>6, <1>7, HolderStep DEF Idle, Step

LEMMA RenewedKept ==
  ASSUME LockedOnly, IInv, KInv, NEW w \in Runners, Renewed(w)
  PROVE  KInv'
<1> DEFINE c == call[w]
<1>1. /\ c.at = "renewed" /\ Goto(w, Idle) /\ UNCHANGED <<runs, stamp, now>>
      /\ runner' = [runner EXCEPT ![w] = IF @ = Unassigned THEN @ ELSE [@ EXCEPT !.beat = c.stamp]]
  BY DEF Renewed
<1>2. /\ c \in Call /\ Alone(w) /\ InHand(w, c) /\ c.stamp <= stamp /\ c.id \in RunIds /\ c.run = runs[c.id]
      /\ \A id \in RunIds : Kempt(id)
  BY <1>1, CallHolds, HandKnown DEF Engaged
<1>3. runner[w].run \in {NoRun, c.id} /\ (~runs[c.id].recovery => runs[c.id].lease = c.stamp)
  BY <1>1, <1>2 DEF InHand
<1>4. /\ runner'[w].run = runner[w].run /\ runner'[w].claim = runner[w].claim /\ runner'[w].beat \in {runner[w].beat, c.stamp}
      /\ \A v \in Runners \ {w} : runner'[v] = runner[v]
  BY <1>1 DEF IInv, Typed
<1>5. c.stamp \in Nat /\ NoRun \notin RunIds
  BY <1>2, AutomationRunsAssumption DEF Call, Stamps, RunIds
<1>6. \A id \in RunIds : Kempt(id)'
  <2>1. ASSUME NEW id \in RunIds PROVE Kempt(id)'
    <3>1. CASE runner[w].run # id
      BY <1>1, <1>2, <1>4, <3>1 DEF Kempt, Writable, Kept, Untouched, Free
    <3>2. CASE runner[w].run = id
      <4>1. id = c.id /\ Writable(runs[id], id)
        BY <1>2, <1>3, <1>5, <3>2 DEF Kempt, Free
      <4>2. Kept(runs[id], runner'[w])
        BY <1>3, <1>4, <1>5, <3>2, <4>1 DEF Writable, Kept
      <4>3. Writable(runs[id], id)'
        BY <1>1, <1>4, <4>1, <4>2 DEF Writable, Kept
      <4>4. QED BY <4>3 DEF Kempt
    <3>3. QED BY <3>1, <3>2
  <2>2. QED BY <2>1
<1>7. \A u, v \in Runners : runner'[u].run # NoRun /\ runner'[u].run = runner'[v].run => u = v
  BY <1>4 DEF KInv
<1>8. \A v \in Runners : runner'[v].beat <= stamp'
  BY <1>1, <1>2, <1>4 DEF KInv
<1>9. QED BY <1>1, <1>2, <1>6, <1>7, <1>8, HolderStep DEF Idle, Step

LEMMA LockingFields ==
  ASSUME NEW w, NEW at, NEW id, NEW r, NEW st, NEW then
  PROVE  LET c == Locking(w, at, id, r, st, then)
         IN  c.at = at /\ c.todo = {} /\ c.id = id /\ c.run = r /\ c.stamp = st /\ c.then = then
BY DEF Locking, Step

LEMMA HeartbeatKept ==
  ASSUME LockedOnly, IInv, KInv, NEW w \in Runners, Heartbeat(w)
  PROVE  KInv'
<1> DEFINE id == runner[w].run
           q == [runs[id] EXCEPT !.lease = stamp + 1]
           next == Locking(w, "put", id, q, stamp + 1, "renewed")
<1>1. /\ Alone(w) /\ runner[w] # Unassigned /\ MayRenew(runs[id], runner[w].claim) /\ stamp' = stamp + 1 /\ Goto(w, next)
      /\ UNCHANGED <<runs, runner, now>>
  BY DEF Heartbeat, Beat, Locked, Alone
<1>2. /\ id \in RunIds /\ runs[id] \in Run /\ stamp \in Nat /\ w \in Callers /\ \A other \in RunIds : Kempt(other)
      /\ \A other \in RunIds : runs[other].claim \in Nat
      /\ \A v \in Runners : runner[v].beat \in Nat /\ runner[v].beat <= stamp
  BY <1>1, AutomationRunsAssumption DEF IInv, Known, Typed, Stamps, Callers, KInv, Run
<1>3. Writable(runs[id], id)
  BY <1>1, <1>2 DEF MayRenew, Kempt, Untouched
<1>4. /\ q.status = runs[id].status /\ q.cat = runs[id].cat /\ q.claim = runs[id].claim /\ q.lease = stamp + 1
      /\ q.recovery = runs[id].recovery
  BY <1>2 DEF Run
<1>5. call'[w] = next
  BY <1>1, <1>2 DEF Goto, IInv, Typed
<1>6. /\ next.at = "put" /\ next.todo = {} /\ next.id = id /\ next.run = q /\ next.stamp = stamp + 1 /\ next.then = "renewed"
  BY LockingFields
<1>7. next.run = [runs'[next.id] EXCEPT !.lease = next.stamp]
  BY <1>1, <1>6
<1> HIDE DEF q, next
<1>8. Writable(call[w].run, call[w].id)'
  BY <1>1, <1>2, <1>3, <1>4, <1>5, <1>6 DEF Writable, Kept
<1>9. q.cat # "interrupted"
  BY <1>1, <1>3, <1>4 DEF Writable, MayRenew, Active
<1>10. Write(w, call[w])'
  BY <1>1, <1>5, <1>6, <1>7, <1>8, <1>9 DEF Write
<1>11. InHand(w, call[w])'
  BY <1>1, <1>2, <1>5, <1>6, <1>10 DEF InHand, Engaged, Starting
<1>12. \A other \in RunIds : Kempt(other)'
  BY <1>1, <1>2 DEF Kempt, Writable, Kept, Untouched, Free
<1>13. QED BY <1>1, <1>2, <1>11, <1>12, HolderStep DEF KInv

\* A report and its write: the runner gives its run up first.
LEMMA ReportKept ==
  ASSUME LockedOnly, IInv, KInv, NEW w \in Runners, Report(w)
  PROVE  KInv'
<1> DEFINE id == runner[w].run
           r == runs[id]
           new(o) == IF o[1] = "completed" THEN [VerifyingCopy(r, r.seen) EXCEPT !.cat = o[2]] ELSE FailedCopy(r, o[1], o[2])
<1>1. /\ Alone(w) /\ call[w].at = "idle" /\ runner[w] # Unassigned /\ runner' = [runner EXCEPT ![w] = Unassigned]
      /\ UNCHANGED <<runs, stamp, now>>
  BY DEF Report, Locked, Alone
<1>2. PICK o \in Reports(w) : Goto(w, Locking(w, "put", id, new(o), 0, "durable")) \/ UNCHANGED call
  BY DEF Report
<1> DEFINE next == Locking(w, "put", id, new(o), 0, "durable")
<1>3. /\ id \in RunIds /\ r \in Run /\ stamp \in Nat /\ w \in Callers /\ \A other \in RunIds : Kempt(other)
      /\ id # NoRun /\ Kempt(id) /\ NoRun \notin RunIds
  BY <1>1, AutomationRunsAssumption DEF IInv, Known, Typed, Stamps, Callers, KInv, RunIds
<1>4. r.claim <= stamp
  BY <1>3 DEF Kempt, Writable, Untouched
<1>5. Unassigned.run = NoRun /\ Unassigned.beat = 0
  BY DEF Unassigned
<1>6. runner'[w] = Unassigned /\ \A v \in Runners \ {w} : runner'[v] = runner[v] /\ runner[v].run # id
  BY <1>1, <1>3 DEF IInv, Typed, KInv
<1>7. \A v \in Runners : runner'[v].run # id
  BY <1>3, <1>5, <1>6
<1>8. new(o).status \in {"verifying", "failed", "timeout"} /\ new(o).claim = r.claim /\ new(o).cat # "interrupted"
  BY <1>3 DEF Reports, VerifyingCopy, FailedCopy, Run
<1>9. \A other \in RunIds : Kempt(other)'
  BY <1>1, <1>3, <1>5, <1>6 DEF Kempt, Writable, Kept, Untouched, Free
<1>10. \A u, v \in Runners : runner'[u].run # NoRun /\ runner'[u].run = runner'[v].run => u = v
  BY <1>5, <1>6 DEF KInv
<1>11. \A v \in Runners : runner'[v].beat <= stamp'
  BY <1>1, <1>3, <1>5, <1>6 DEF KInv
<1>12. CASE Goto(w, next)
  <2>1. call'[w] = next
    BY <1>3, <1>12 DEF Goto, IInv, Typed
  <2>2. /\ next.at = "put" /\ next.todo = {} /\ next.id = id /\ next.run = new(o) /\ next.stamp = 0 /\ next.then = "durable"
    BY LockingFields
  <2> HIDE DEF new, next
  <2>3. Writable(call[w].run, call[w].id)'
    BY <1>1, <1>4, <1>7, <1>8, <2>1, <2>2 DEF Writable
  <2>4. Write(w, call[w])'
    BY <1>8, <2>1, <2>2, <2>3 DEF Write
  <2>5. InHand(w, call[w])'
    BY <1>1, <1>3, <2>1, <2>2, <2>4 DEF InHand, Engaged, Starting
  <2>6. QED BY <1>1, <1>9, <1>10, <1>11, <1>12, <2>5, HolderStep
<1>13. CASE UNCHANGED call
  <2>1. \A v \in Runners : call'[v].at = "idle"
    BY <1>1, <1>13 DEF Alone
  <2>2. QED BY <1>9, <1>10, <1>11, <2>1 DEF KInv
<1>14. QED BY <1>2, <1>12, <1>13

\* A step outside the calls: a runner may stop executing, and leases may run out.
LEMMA OutsideKept ==
  ASSUME LockedOnly, IInv, KInv, UNCHANGED <<runs, call, stamp>>, now' \in {now, now + 1},
         \A w \in Runners : \/ runner'[w] = Unassigned
                            \/ /\ runner'[w].run = runner[w].run /\ runner'[w].claim = runner[w].claim
                               /\ runner'[w].beat = runner[w].beat
  PROVE  KInv'
<1>1. Unassigned.run = NoRun /\ Unassigned.beat = 0 /\ NoRun \notin RunIds
  BY AutomationRunsAssumption DEF Unassigned, RunIds
<1>2. stamp \in Nat /\ now \in Nat /\ runs \in [RunIds -> Run] /\ \A id \in RunIds : runs[id].lease \in Nat
  BY AutomationRunsAssumption DEF IInv, Typed, Stamps, Run
<1>3. \A id \in RunIds : (Free(id) => Free(id)') /\ \A r : Writable(r, id) => Writable(r, id)'
  BY <1>1 DEF Free, Writable, Kept
<1>4. \A id \in RunIds : Kempt(id)'
  BY <1>3 DEF KInv, Kempt, Untouched, Writable
<1>5. \A u, v \in Runners : runner'[u].run # NoRun /\ runner'[u].run = runner'[v].run => u = v
  BY <1>1 DEF KInv
<1>6. \A v \in Runners : runner'[v].beat <= stamp'
  BY <1>1, <1>2 DEF KInv
<1>7. ASSUME NEW w \in Runners, call'[w].at # "idle" PROVE Alone(w)' /\ InHand(w, call[w])'
  <2> DEFINE c == call[w]
  <2>1. call[w].at # "idle" /\ Alone(w) /\ InHand(w, c) /\ c \in Call /\ (c.at \in Engaged => c.id \in RunIds)
    BY <1>7, HandKnown, CallKnown DEF KInv, Callers
  <2>2. c.run \in Run /\ c.run.lease \in Nat
    BY <2>1, AutomationRunsAssumption DEF Call, Run, Stamps
  <2>3. c.at \in Engaged => (Abandoned(c.run) => Abandoned(c.run)') /\ (Abandoned(runs[c.id]) => Abandoned(runs[c.id])')
    BY <1>2, <2>1, <2>2 DEF Abandoned
  <2>4. runner[w].run \in {NoRun, c.id} => runner'[w].run \in {NoRun, c.id}
    BY <1>1
  <2>5. c.id \in RunIds /\ Claimable(w, c) => Claimable(w, call[w])'
    BY <1>3 DEF Claimable, Free
  <2>6. c.at = "put" => Write(w, call[w])'
    <3>1. ASSUME c.at = "put" PROVE Write(w, c) /\ c.id \in RunIds /\ c.at \in Engaged
      BY <2>1, <3>1 DEF InHand, Engaged
    <3>2. ASSUME c.at = "put" PROVE Writable(call[w].run, call[w].id)'
      BY <1>1, <3>1, <3>2 DEF Write, Writable, Kept
    <3>3. QED BY <2>3, <2>4, <2>5, <3>1, <3>2 DEF Write, Granted
  <2>7. c.at = "release" \/ c.at = "reply" => c.id \in RunIds
    BY <2>1 DEF Engaged
  <2>8. c.at \in Starting => c.id \in RunIds
    BY <2>1 DEF Engaged, Starting
  <2>9. c.at \in {"release", "reply"} /\ Free(c.id) => Free(call[w].id)'
    BY <1>1, <2>7 DEF Free
  <2>10. InHand(w, call[w])'
    BY <1>2, <2>1, <2>3, <2>4, <2>5, <2>6, <2>8, <2>9 DEF InHand, Granted, Engaged, Starting
  <2>11. QED BY <2>1, <2>10 DEF Alone
<1>8. QED BY <1>4, <1>5, <1>6, <1>7 DEF KInv

LEMMA RestartKept ==
  ASSUME LockedOnly, IInv, KInv, Restart
  PROVE  KInv'
<1>1. /\ \A w \in Runners : call'[w].at = "idle"
      /\ UNCHANGED <<runner, stamp>>
  BY DEF Restart, Callers, Idle, Step
<1>2. ASSUME NEW id \in RunIds
      PROVE  /\ runs'[id].status = runs[id].status /\ runs'[id].cat = runs[id].cat /\ runs'[id].claim = runs[id].claim
             /\ runs'[id].lease = runs[id].lease /\ runs'[id].recovery = runs[id].recovery
  BY DEF Restart, IInv, Typed, Run
<1>3. \A id \in RunIds : Kempt(id)'
  BY <1>1, <1>2 DEF KInv, Kempt, Writable, Kept, Untouched, Free
<1>4. QED BY <1>1, <1>3 DEF KInv

-----------------------------------------------------------------------------
(* claimMu keeps copies and stored runs together. *)

LEMMA InitKept == ASSUME Init PROVE KInv
<1>1. \A w \in Runners : call[w].at = "idle" /\ runner[w].run = NoRun /\ runner[w].beat = 0
  BY DEF Init, Callers, Idle, Step, Unassigned
<1>2. NoRun \notin RunIds
  BY AutomationRunsAssumption DEF RunIds
<1>3. \A id \in RunIds : Kempt(id)
  BY <1>1, <1>2 DEF Init, Kempt, Untouched, Free, Absent
<1>4. QED BY <1>1, <1>3 DEF KInv, Init

LEMMA NextKept ==
  ASSUME LockedOnly, IInv, KInv, [Next]_vars
  PROVE  KInv'
<1>1. ASSUME NEW w \in Runners, BeginClaim(w) \/ ContinueRunner(w) PROVE KInv'
  BY <1>1, BeginKept, ListKept, EachKept, PutKept, VerifyKept, CloseKept, RecheckKept, ReleaseKept, QueueKept,
     CreateKept, BlockKept, ClaimKept, StartKept, GrantKept, ReplyKept, RenewedKept, DurableKept
     DEF ContinueRunner, Continue
<1>2. ASSUME NEW w \in Runners, Heartbeat(w) \/ Report(w) PROVE KInv'
  BY <1>2, HeartbeatKept, ReportKept
<1>3. ASSUME NEW w \in Runners, AgentMoves(w) PROVE KInv'
  <2>1. \A v \in Runners : /\ runner'[v].run = runner[v].run /\ runner'[v].claim = runner[v].claim
                           /\ runner'[v].beat = runner[v].beat
    BY <1>3 DEF AgentMoves, IInv, Typed
  <2>2. QED BY <1>3, <2>1, OutsideKept DEF AgentMoves
<1>4. ASSUME NEW w \in Runners, RunnerDies(w) PROVE KInv'
  <2>1. \A v \in Runners : runner'[v] = Unassigned \/ runner'[v] = runner[v]
    BY <1>4 DEF RunnerDies, IInv, Typed
  <2>2. QED BY <1>4, <2>1, OutsideKept DEF RunnerDies
<1>5. CASE Reviewed \/ Operator \/ TimePasses \/ UNCHANGED vars
  BY <1>5, OutsideKept DEF Reviewed, Operator, TimePasses, vars
<1>6. CASE Restart
  BY <1>6, RestartKept
<1>7. ASSUME NEW p \in Callers, Cut(p) PROVE KInv'
  BY <1>7, CutKept DEF Callers, LockedOnly
<1>8. QED BY <1>1, <1>2, <1>3, <1>4, <1>5, <1>6, <1>7 DEF Next, LockedOnly

\* A write never times out a run whose runner keeps its lease.
LEMMA FreshKept ==
  ASSUME LockedOnly, IInv, KInv, [Next]_vars, NEW w \in Runners, Fresh(w), ~runs[runner[w].run].recovery
  PROVE  runs'[runner[w].run].cat # "interrupted"
<1> DEFINE id == runner[w].run
<1>1. /\ id \in RunIds /\ runs[id] \in Run /\ runs[id].status \in Active /\ runs[id].claim = runner[w].claim /\ ~runs[id].old
      /\ runner[w].beat > now /\ runner[w].beat \in Nat /\ now \in Nat /\ runs[id].lease \in Nat /\ runs \in [RunIds -> Run]
  BY AutomationRunsAssumption DEF Fresh, IInv, Known, Typed, Stamps, Run
<1>2. Kempt(id) /\ ~Free(id)
  BY <1>1 DEF KInv, Free
<1>3. Writable(runs[id], id) /\ Kept(runs[id], runner[w])
  BY <1>2 DEF Kempt, Writable
<1>4. ~Abandoned(runs[id]) /\ runs[id].cat # "interrupted"
  BY <1>1, <1>3 DEF Abandoned, Kept, Writable, Active
<1>5. ASSUME NEW v \in Runners, Put(v) PROVE runs'[id].cat # "interrupted"
  <2> DEFINE c == call[v]
  <2>1. c.at = "put" /\ runs' = [runs EXCEPT ![c.id] = Stored(runs[c.id], c.run)]
    BY <1>5 DEF Put
  <2>2. Write(v, c) /\ c.run \in Run /\ c.id \in RunIds
    BY <2>1, CallHolds DEF InHand, Engaged
  <2>3. c.id = id => c.run.cat # "interrupted"
    BY <1>4, <2>2 DEF Write
  <2>4. c.id = id => Stored(runs[c.id], c.run).cat # "interrupted"
    <3>1. /\ Stored(runs[c.id], c.run) = runs[c.id] \/ Stored(runs[c.id], c.run) = [c.run EXCEPT !.old = FALSE]
          /\ [c.run EXCEPT !.old = FALSE].cat = c.run.cat
      BY <2>2, StoredFields
    <3>2. QED BY <1>4, <2>3, <3>1
  <2>5. QED BY <1>1, <1>4, <2>1, <2>4
<1>6. ASSUME NEW v \in Runners, Create(v) PROVE runs'[id].cat # "interrupted"
  BY <1>1, <1>4, <1>6, CreatedOnly, NewRunFields DEF Create
<1>7. CASE Restart
  BY <1>1, <1>4, <1>7 DEF Restart, Run
<1>8. CASE UNCHANGED runs
  BY <1>4, <1>8
<1>9. (\E v \in Runners : Put(v) \/ Create(v)) \/ Restart \/ UNCHANGED runs
  <2>1. ASSUME NEW v \in Runners, ContinueRunner(v) PROVE Put(v) \/ Create(v) \/ UNCHANGED runs
    <3>1. CASE List(v) \/ Each(v) \/ Verify(v) \/ Close(v) \/ Recheck(v) \/ Queue(v) \/ Block(v)
      BY <3>1 DEF List, Each, Verify, Close, Recheck, Queue, Block
    <3>2. CASE Release(v) \/ Claim(v) \/ Start(v) \/ Grant(v) \/ Reply(v) \/ Renewed(v) \/ Durable(v)
      BY <3>2 DEF Release, Claim, Start, Grant, Reply, Renewed, Durable
    <3>3. QED BY <2>1, <3>1, <3>2 DEF ContinueRunner, Continue
  <2>2. ASSUME NEW v \in Runners, BeginClaim(v) \/ Heartbeat(v) \/ AgentMoves(v) \/ Report(v) \/ RunnerDies(v)
        PROVE  UNCHANGED runs
    BY <2>2 DEF BeginClaim, Heartbeat, Beat, AgentMoves, Report, RunnerDies
  <2>3. CASE Reviewed \/ Operator \/ TimePasses \/ (\E p \in Callers : Cut(p)) \/ UNCHANGED vars
    BY <2>3 DEF Reviewed, Operator, TimePasses, Cut, vars
  <2>4. QED BY <2>1, <2>2, <2>3 DEF Next, LockedOnly
<1>10. QED BY <1>5, <1>6, <1>7, <1>8, <1>9

\* As long as runs change only under claimMu, a run is not timed out while its runner keeps
\* its lease, for any number of runners, restarts and lost answers (requeueAbandonedRunningRun
\* reads the run again under the mutex). Runs started again by a recovery are excepted: the
\* store keeps their old lease (shouldPreserveExistingRun).
THEOREM FreshRunnersNotTimedOut ==
  ASSUME LockedOnly
  PROVE  Spec => FreshRunnersKeepTheirRuns
<1>1. Init => IInv /\ Markers /\ KInv
  BY InitSound, InitKept
<1>2. IInv /\ Markers /\ KInv /\ [Next]_vars => (IInv /\ Markers /\ KInv)'
  BY NextSound, NextKept
<1>3. /\ IInv /\ KInv /\ [Next]_vars
      => [\A w \in Runners : Fresh(w) /\ ~runs[runner[w].run].recovery => runs'[runner[w].run].cat # "interrupted"]_vars
  BY FreshKept
<1>4. QED BY <1>1, <1>2, <1>3, PTL DEF Spec, FreshRunnersKeepTheirRuns

-----------------------------------------------------------------------------
(* Who may have the task. *)

\* No operator offers a blocked task again by hand.
NoRequeue == OperatorMoves \subseteq {"cancel"}

\* Then every failure counts against the limit.
Unmarked == marked = FALSE /\ forgiven = {}

\* A run that may still change hands or be replaced: with r stored as run id.
LiveAs(r, id) == Pending(r) \/ (Recoverable(r) /\ task.claim = id)
Live(id) == LiveAs(runs[id], id)
NoneLive == \A id \in RunIds : ~Live(id)
NoOther(id) == \A other \in RunIds \ {id} : ~Live(other)

\* A live run that has had its task.
Begun(r, id) == LiveAs(r, id) /\ r.status \notin {"queued", "claiming"}

\* A run that counts against the limit.
Lost(r) == r.status = "failed" /\ r.cat = "exhausted"
BelowLimit == Cardinality(TerminalFailures) < MaxReplacements

\* One run at a time is live, none that has begun while the task is offered, and none
\* once the limit is reached.
Orderly ==
  /\ task.status = "ready" => task.claim = NoRun
  /\ \A id, other \in RunIds : Live(id) /\ Live(other) => id = other
  /\ \A id \in RunIds : Begun(runs[id], id) => task.status # "ready"
  /\ Cardinality(TerminalFailures) <= MaxReplacements
  /\ (\E id \in RunIds : Live(id)) => BelowLimit
  /\ \A id \in RunIds : Lost(runs[id]) /\ runs[id].seen = "ready" => task.claim # id

\* The write that call c is about to make.
OwnWrite(c) ==
  /\ LiveAs(c.run, c.id) => Pending(runs[c.id])
  /\ Begun(c.run, c.id) => task.status # "ready"
  /\ Lost(c.run) => BelowLimit /\ NoOther(c.id) /\ (c.run.seen = "ready" => task.claim # c.id)
  /\ c.then = "release" => Pending(runs[c.id]) /\ c.run.status = "timeout"
  /\ c.then = "queue" => Lost(c.run)
  /\ c.then = "claim" => c.run.status = "claiming"
  /\ c.then = "start" => c.run.status = "starting"

\* Call c of w starts a run that is pending, and releases the task or queues a run for it
\* when no other has it.
InTurn(w, c) ==
  /\ c.at \in Starting => Pending(c.run)
  /\ c.at \in {"start", "grant"} => task.status # "ready"
  /\ c.at = "recheck" => c.run.status \in Active
  /\ c.at = "close" => c.run.status = "verifying"
  /\ c.at = "release" => \/ Phases(w)[c.phase] = "running" /\ NoneLive
                         \/ /\ Phases(w)[c.phase] = "exhausted" /\ NoOther(c.id) /\ BelowLimit
                            /\ Recoverable(c.run) /\ ~CanRetry(c.run)
  /\ c.at = "queue" => \A id \in RunIds : ~Begun(runs[id], id)
  /\ c.at = "create" => NoneLive /\ BelowLimit
  /\ c.at = "put" => OwnWrite(c)

OInv == Orderly /\ \A w \in Runners : call[w].at # "idle" => InTurn(w, call[w])

-----------------------------------------------------------------------------
(* What a step must keep of the order among runs. *)

\* Only status, category and attempts of a run matter.
LEMMA Alike ==
  ASSUME NEW r, NEW q, q.status = r.status, q.cat = r.cat, q.attempts = r.attempts, NEW id
  PROVE  /\ Recoverable(q) = Recoverable(r) /\ Pending(q) = Pending(r) /\ LiveAs(q, id) = LiveAs(r, id)
         /\ Begun(q, id) = Begun(r, id) /\ Lost(q) = Lost(r)
BY DEF Recoverable, Pending, LiveAs, Begun, Lost, CanRetry

\* A run in another status, or that failed for another reason, is not live.
LEMMA NotLive ==
  ASSUME NEW r, NEW id,
         \/ r.status \in {"verifying", "completed", "timeout", "policy_denied", "cancelled"}
         \/ r.status \in {"failed", "blocked"} /\ r.cat # "recoverable"
  PROVE  ~LiveAs(r, id) /\ ~Begun(r, id) /\ ~Pending(r)
BY DEF Recoverable, Pending, LiveAs, Begun, Active

\* A limited set of runs that gains one at most.
LEMMA FewerFailures ==
  ASSUME NEW S, NEW T, S \subseteq RunIds, NEW id, T \subseteq S \cup {id}
  PROVE  /\ Cardinality(S) \in Nat /\ Cardinality(T) \in Nat /\ Cardinality(T) <= Cardinality(S) + 1
         /\ T \subseteq S => Cardinality(T) <= Cardinality(S)
<1>1. IsFiniteSet(RunIds)
  BY AutomationRunsAssumption, FS_Interval DEF RunIds
<1>2. IsFiniteSet(S) /\ Cardinality(S) \in Nat
  BY <1>1, FS_Subset, FS_CardinalityType
<1>3. IsFiniteSet(S \cup {id}) /\ Cardinality(S \cup {id}) \in Nat /\ Cardinality(S \cup {id}) <= Cardinality(S) + 1
  BY <1>2, FS_AddElement, FS_CardinalityType
<1>4. Cardinality(T) \in Nat /\ Cardinality(T) <= Cardinality(S \cup {id})
  BY <1>3, FS_Subset, FS_CardinalityType
<1>5. T \subseteq S => Cardinality(T) <= Cardinality(S)
  BY <1>2, FS_Subset
<1>6. QED BY <1>2, <1>3, <1>4, <1>5

\* A change of the task that leaves the runs brings none to life: it gives the task to a run
\* that is pending already, or to one that no recovery takes up.
LEMMA TaskMoved ==
  ASSUME UNCHANGED runs, Orderly,
         task'.status = "ready" => task'.claim = NoRun /\ \A id \in RunIds : ~Begun(runs[id], id)',
         \A id \in RunIds : \/ task'.claim # id \/ task.claim = id
                            \/ Pending(runs[id]) \/ ~(Recoverable(runs[id]) \/ Lost(runs[id]))
  PROVE  /\ Orderly' /\ (BelowLimit => BelowLimit') /\ (NoneLive => NoneLive')
         /\ \A id \in RunIds : /\ Live(id)' => Live(id)
                               /\ NoOther(id) => \A other \in RunIds \ {id} : ~Live(other)'
                               /\ Begun(runs[id], id)' => Begun(runs[id], id)
<1>1. ASSUME NEW id \in RunIds
      PROVE  (Live(id)' => Live(id)) /\ (Begun(runs[id], id)' => Begun(runs[id], id))
  BY DEF Live, LiveAs, Begun, Pending, Recoverable, CanRetry
<1>2. TerminalFailures' = TerminalFailures
  BY DEF TerminalFailures
<1>3. \A id \in RunIds : Lost(runs[id])' /\ runs'[id].seen = "ready" => task'.claim # id
  BY DEF Orderly, Lost, Pending, Recoverable, Active
<1>4. (task.status = "ready" => task.claim = NoRun)'
  OBVIOUS
<1>5. \A id \in RunIds : Begun(runs[id], id)' => task'.status # "ready"
  OBVIOUS
<1>6. Orderly'
  BY <1>1, <1>2, <1>3, <1>4, <1>5 DEF Orderly, BelowLimit
<1>7. QED BY <1>1, <1>2, <1>6 DEF BelowLimit, NoneLive, NoOther

\* A step of the caller that holds claimMu.
LEMMA TurnStep ==
  ASSUME IInv, KInv, OInv, NEW w \in Runners, Alone(w), NEW d, Goto(w, d),
         d.at # "idle" => InTurn(w, call[w])', Orderly'
  PROVE  OInv'
<1>1. w \in Callers /\ call'[w] = d /\ \A v \in Runners \ {w} : call'[v] = call[v] /\ call'[v].at = "idle"
  BY DEF IInv, Typed, Goto, Callers, Alone
<1>2. QED BY <1>1 DEF OInv

\* One that changes neither the task nor a run.
LEMMA HandTurn ==
  ASSUME IInv, KInv, OInv, NEW w \in Runners, Alone(w), NEW d, Goto(w, d), d.at # "idle" => InTurn(w, d),
         UNCHANGED <<task, runs>>
  PROVE  OInv'
<1>1. call'[w] = d
  BY DEF IInv, Typed, Goto, Callers
<1>2. /\ (BelowLimit <=> BelowLimit') /\ (NoneLive <=> NoneLive') /\ TerminalFailures' = TerminalFailures
      /\ \A id \in RunIds : (Live(id) <=> Live(id)') /\ (Begun(runs[id], id) <=> Begun(runs[id], id)')
  BY DEF BelowLimit, NoneLive, TerminalFailures, Live, LiveAs, Begun, Pending, Recoverable, CanRetry
<1>3. Orderly'
  BY <1>2 DEF OInv, Orderly, BelowLimit, Lost
<1>4. d.at # "idle" => InTurn(w, call[w])'
  <2>1. ASSUME d.at = "put", OwnWrite(d) PROVE OwnWrite(call[w])'
    BY <1>1, <1>2, <2>1 DEF OwnWrite, NoOther, Live, LiveAs, Begun, Pending, Recoverable, CanRetry, Lost
  <2>2. NoOther(d.id) => NoOther(call[w].id)'
    BY <1>1, <1>2 DEF NoOther
  <2>3. Pending(d.run) => Pending(call[w].run)'
    BY <1>1 DEF Pending, Recoverable, CanRetry
  <2>4. /\ Recoverable(d.run) => Recoverable(call[w].run)'
        /\ ~CanRetry(d.run) => (~CanRetry(call[w].run))'
    BY <1>1 DEF Recoverable, CanRetry
  <2>5. QED BY <1>1, <1>2, <2>1, <2>2, <2>3, <2>4 DEF InTurn
<1>5. QED BY <1>3, <1>4, TurnStep

\* A call that leaves the run in hand has nothing to keep.
LEMMA QuietInTurn ==
  ASSUME NEW w, NEW d, d.at \in {"list", "each", "verify", "block", "reply", "renewed", "durable"}
  PROVE  InTurn(w, d)
BY DEF InTurn, Starting

LEMMA GoOnInTurn ==
  ASSUME NEW c
  PROVE  GoOn(c).at \in {"list", "each"}
BY DEF GoOn, AtPhase, Step

\* A step outside the calls, or one that only ends calls: the task is given at most to a run
\* that a runner executes.
LEMMA CallsUnmoved ==
  ASSUME IInv, KInv, OInv, UNCHANGED runs, task'.status = "ready" => task' = task,
         \A id \in RunIds : task'.claim = id => task.claim = id \/ ~Free(id),
         \A v \in Runners : call'[v].at # "idle" => call'[v] = call[v]
  PROVE  OInv'
<1>1. ASSUME NEW id \in RunIds, NEW r, Writable(r, id), ~Free(id) PROVE ~Recoverable(r) /\ ~Lost(r)
  BY <1>1 DEF Writable, Free, Kept, Recoverable, Lost
<1>2. \A id \in RunIds : ~Free(id) => Writable(runs[id], id)
  BY DEF KInv, Kempt
<1>3. task' = task => \A id \in RunIds : Begun(runs[id], id)' => Begun(runs[id], id)
  BY DEF Begun, LiveAs, Pending, Recoverable, CanRetry
<1>4. /\ Orderly' /\ (BelowLimit => BelowLimit') /\ (NoneLive => NoneLive')
      /\ \A id \in RunIds : /\ NoOther(id) => \A other \in RunIds \ {id} : ~Live(other)'
                            /\ Begun(runs[id], id)' => Begun(runs[id], id)
  <2>1. task'.status = "ready" => task'.claim = NoRun /\ \A id \in RunIds : ~Begun(runs[id], id)'
    BY <1>3 DEF OInv, Orderly
  <2>2. \A id \in RunIds : \/ task'.claim # id \/ task.claim = id
                           \/ Pending(runs[id]) \/ ~(Recoverable(runs[id]) \/ Lost(runs[id]))
    BY <1>1, <1>2
  <2>3. QED BY <2>1, <2>2, TaskMoved DEF OInv
<1>5. ASSUME NEW v \in Runners, call'[v].at # "idle" PROVE InTurn(v, call[v])'
  <2> DEFINE c == call[v]
  <2>1. call'[v] = c /\ c.at # "idle" /\ InTurn(v, c) /\ InHand(v, c) /\ v \in Callers
    BY <1>5 DEF OInv, KInv, Callers
  <2>2. c.at \in {"put", "release"} => c.id \in RunIds
    BY <2>1, CallKnown DEF Engaged
  <2>3. Pending(c.run) => Pending(call[v].run)'
    BY <2>1 DEF Pending, Recoverable, CanRetry
  <2>4. /\ Recoverable(c.run) => Recoverable(call[v].run)'
        /\ ~CanRetry(c.run) => (~CanRetry(call[v].run))'
    BY <2>1 DEF Recoverable, CanRetry
  <2>5. c.id \in RunIds /\ NoOther(c.id) => NoOther(call[v].id)'
    BY <1>4, <2>1 DEF NoOther
  <2>6. ASSUME c.at = "put" PROVE OwnWrite(call[v])'
    <3>1. Writable(c.run, c.id) /\ OwnWrite(c) /\ c.id \in RunIds
      BY <2>1, <2>2, <2>6 DEF InHand, Write, InTurn
    <3>2. task'.claim = c.id => task.claim = c.id \/ (~Recoverable(c.run) /\ ~Lost(c.run))
      BY <1>1, <3>1
    <3>3. Pending(c.run) <=> Pending(call[v].run)'
      BY <2>1 DEF Pending, Recoverable, CanRetry
    <3>4. (Recoverable(c.run) <=> Recoverable(call[v].run)') /\ (Lost(c.run) <=> Lost(call[v].run)')
      BY <2>1 DEF Recoverable, Lost
    <3>5. LiveAs(call[v].run, call[v].id)' => LiveAs(c.run, c.id)
      BY <2>1, <3>2, <3>3, <3>4 DEF LiveAs
    <3>6. Pending(runs[c.id]) => Pending(runs[call[v].id])'
      BY <2>1 DEF Pending, Recoverable, CanRetry
    <3>7. Begun(call[v].run, call[v].id)' => Begun(c.run, c.id)
      BY <2>1, <3>5 DEF Begun
    <3>8. QED BY <1>4, <2>1, <2>5, <3>1, <3>2, <3>4, <3>5, <3>6, <3>7 DEF OwnWrite
  <2>7. QED BY <1>4, <2>1, <2>2, <2>3, <2>4, <2>5, <2>6 DEF InTurn
<1>6. QED BY <1>4, <1>5 DEF OInv

-----------------------------------------------------------------------------
(* Decisions of a phase about a live run. *)

\* What a phase may decide of the stored run id.
OwnDo(ph, id, d) ==
  /\ d.at \in Starting => Pending(runs[id])
  /\ d.at \in {"start", "grant"} => task.status # "ready"
  /\ d.at = "recheck" => runs[id].status \in Active
  /\ d.at = "close" => runs[id].status = "verifying"
  /\ d.at = "release" => ph = "exhausted" /\ NoOther(id) /\ BelowLimit /\ Recoverable(runs[id]) /\ ~CanRetry(runs[id])
  /\ d.at = "put" => /\ LiveAs(d.run, id) => Pending(runs[id])
                     /\ Begun(d.run, id) => task.status # "ready"
                     /\ ~Lost(d.run) /\ (d.then = "claim" => d.run.status = "claiming")

\* A phase that has a run leave the state it is in decides to write it so.
LEMMA PuttingOwn ==
  ASSUME NEW id \in RunIds, NEW r \in Run, r = runs[id], Orderly, NEW ph, NEW s, NEW then \in {"next", "verify"}, NEW q,
         \/ q = VerifyingCopy(r, s)
         \/ q = CompletedCopy(r, s)
         \/ q = TerminalCopy(r, s)
         \/ q = [r EXCEPT !.seen = s] /\ r.status \in Active \cup {"verifying"}
  PROVE  OwnDo(ph, id, Do("put", q, s, then))
<1>1. ~Lost(q) /\ (LiveAs(q, id) => Pending(r)) /\ (Begun(q, id) => task.status # "ready")
  <2>1. CASE q = [r EXCEPT !.seen = s] /\ r.status \in Active \cup {"verifying"}
    <3>1. q.status = r.status /\ q.cat = r.cat /\ q.attempts = r.attempts
      BY <2>1 DEF Run
    <3>2. Begun(q, id) = Begun(r, id) /\ LiveAs(q, id) = LiveAs(r, id)
      BY <3>1, Alike
    <3>3. ~Lost(q) /\ (LiveAs(r, id) => Pending(r))
      BY <2>1, <3>1 DEF Lost, Active, LiveAs, Recoverable
    <3>4. QED BY <3>2, <3>3 DEF Orderly
  <2>2. CASE q = VerifyingCopy(r, s) \/ q = CompletedCopy(r, s) \/ q = TerminalCopy(r, s)
    <3>1. /\ q.status \in {"verifying", "completed", "cancelled"} \/ (q.status \in {"failed", "blocked"} /\ q.cat \in {"work_task_blocked", "other"})
      BY <2>2 DEF VerifyingCopy, CompletedCopy, TerminalCopy, Run
    <3>2. ~LiveAs(q, id) /\ ~Begun(q, id)
      BY <3>1, NotLive
    <3>3. QED BY <3>1, <3>2 DEF Lost
  <2>3. QED BY <2>1, <2>2
<1>2. QED BY <1>1, DoFields DEF OwnDo, Starting

LEMMA VerifyingOwn ==
  ASSUME NEW id \in RunIds, NEW r \in Run, r = runs[id], Orderly, r.status = "verifying", NEW ph
  PROVE  OwnDo(ph, id, VerifyingStep(r, task.status))
<1> DEFINE s == task.status
           d == VerifyingStep(r, s)
<1>1. \/ d = Nothing(r, s) \/ d = Do("close", r, s, "next")
      \/ \E q \in {CompletedCopy(r, s), TerminalCopy(r, s), [r EXCEPT !.seen = s]} : d = Do("put", q, s, "next")
  BY DEF VerifyingStep
<1>2. \A at \in {"pass", "close"} : OwnDo(ph, id, Do(at, r, s, "next"))
  BY DoFields DEF OwnDo, Starting
<1>3. QED BY <1>1, <1>2, PuttingOwn DEF Nothing

LEMMA DecideOwn ==
  ASSUME NEW id \in RunIds, runs[id] \in Run, Orderly, NEW ph, Picks(ph, runs[id]), Kempt(id)
  PROVE  OwnDo(ph, id, Decide(ph, id, runs[id]))
<1> DEFINE r == runs[id]
           s == task.status
           d == Decide(ph, id, r)
<1>0. id # NoRun
  BY AutomationRunsAssumption DEF RunIds
<1>1. OwnDo(ph, id, Nothing(r, s)) /\ OwnDo(ph, id, Do("block", r, s, "next"))
  BY DoFields DEF OwnDo, Starting
<1>2. task.claim = id => s # "ready"
  BY <1>0 DEF Orderly
<1>3. CASE ph = "starting"
  <2>1. Pending(r)
    BY <1>3 DEF Picks, Pending, Active
  <2>2. ASSUME NEW at \in {"grant", "start"}, task.claim = id PROVE OwnDo(ph, id, Do(at, r, s, "next"))
    BY <1>2, <2>1, <2>2, DoFields DEF OwnDo, Starting
  <2>3. d = StartingStep(id, r, s)
    BY <1>3 DEF Decide
  <2>4. QED BY <1>1, <2>2, <2>3 DEF StartingStep
<1>4. CASE ph = "running"
  <2>1. d = RunningStep(r, s) /\ r.status \in Active
    BY <1>4 DEF Decide, Picks
  <2>2. OwnDo(ph, id, Do("recheck", r, s, "next"))
    BY <2>1, DoFields DEF OwnDo, Starting
  <2>3. \/ d = Nothing(r, s) \/ d = Do("recheck", r, s, "next")
        \/ \E then \in {"next", "verify"}, q \in {VerifyingCopy(r, s), CompletedCopy(r, s), TerminalCopy(r, s), [r EXCEPT !.seen = s]} :
             d = Do("put", q, s, then)
    BY <2>1 DEF RunningStep
  <2>4. QED BY <1>1, <2>1, <2>2, <2>3, PuttingOwn
<1>5. CASE ph = "verifying"
  BY <1>5, VerifyingOwn DEF Decide, Picks
<1>6. CASE ph \in {"interrupted", "recoverable"}
  <2>1. d = ProgressedStep(id, r, s)
    BY <1>6 DEF Decide
  <2>2. \/ d = Nothing(r, s)
        \/ \E q \in {VerifyingCopy(r, s), CompletedCopy(r, s), TerminalCopy(r, s)}, then \in {"next", "verify"} :
             d = Do("put", q, s, then)
    BY <2>1 DEF ProgressedStep
  <2>3. QED BY <1>1, <2>2, PuttingOwn
<1>7. CASE ph = "exhausted"
  <2>1. Recoverable(r)
    BY <1>7 DEF Picks, Recoverable
  <2>2. ASSUME ~CanRetry(r), task.claim = id PROVE OwnDo(ph, id, Do("release", r, s, "next"))
    <3>1. Live(id)
      BY <2>1, <2>2 DEF Live, LiveAs
    <3>2. NoOther(id) /\ BelowLimit
      BY <3>1 DEF Orderly, NoOther
    <3>3. QED BY <1>7, <2>1, <2>2, <3>2, DoFields DEF OwnDo, Starting
  <2>3. d = Nothing(r, s) \/ (~CanRetry(r) /\ task.claim = id /\ d = Do("release", r, s, "next"))
    BY <1>7 DEF Decide
  <2>4. QED BY <1>1, <2>2, <2>3
<1>8. CASE ph = "repair"
  <2>1. Lost(r) /\ r.seen = "ready"
    BY <1>8 DEF Picks, Lost
  <2>2. task.claim # id
    BY <2>1 DEF Orderly
  <2>3. d = Nothing(r, s)
    BY <1>8, <2>2 DEF Decide
  <2>4. QED BY <1>1, <2>3
<1>9. CASE ph = "recover"
  <2>1. Recoverable(r) /\ d = RecoverStep(id, r, s)
    BY <1>9 DEF Picks, Recoverable, Decide
  <2>2. ASSUME CanRetry(r) PROVE OwnDo(ph, id, Do("claim", r, s, "next"))
    BY <2>1, <2>2, DoFields DEF OwnDo, Starting, Pending
  <2>3. ASSUME CanRetry(r), task.claim = id, NEW at \in {"start", "grant"} PROVE OwnDo(ph, id, Do(at, r, s, "next"))
    BY <1>2, <2>1, <2>3, DoFields DEF OwnDo, Starting, Pending
  <2>4. \/ d = Nothing(r, s)
        \/ CanRetry(r) /\ d = Do("claim", r, s, "next")
        \/ CanRetry(r) /\ task.claim = id /\ \E at \in {"start", "grant"} : d = Do(at, r, s, "next")
    BY <2>1 DEF RecoverStep
  <2>5. QED BY <1>1, <2>2, <2>3, <2>4
<1>10. CASE ph = "queued"
  <2>1. r.status = "queued" /\ d = PrepareStep(r, s)
    BY <1>10 DEF Picks, Decide
  <2>2. OwnDo(ph, id, Do("put", FailedCopy(r, "policy_denied", "task_not_ready"), s, "next"))
    <3> DEFINE q == FailedCopy(r, "policy_denied", "task_not_ready")
    <3>1. q.status = "policy_denied"
      BY DEF FailedCopy, Run
    <3>2. ~LiveAs(q, id) /\ ~Begun(q, id) /\ ~Lost(q)
      BY <3>1, NotLive DEF Lost
    <3> HIDE DEF q
    <3>3. OwnDo(ph, id, Do("put", q, s, "next"))
      BY <3>2, DoFields DEF OwnDo, Starting
    <3>4. QED BY <3>3 DEF q
  <2>3. OwnDo(ph, id, Do("put", [r EXCEPT !.status = "claiming", !.seen = s], s, "claim"))
    <3> DEFINE q == [r EXCEPT !.status = "claiming", !.seen = s]
    <3>1. q.status = "claiming"
      BY DEF Run
    <3>2. Pending(r) /\ ~Begun(q, id) /\ ~Lost(q)
      BY <2>1, <3>1 DEF Pending, Begun, Lost
    <3> HIDE DEF q
    <3>3. OwnDo(ph, id, Do("put", q, s, "claim"))
      BY <3>1, <3>2, DoFields DEF OwnDo, Starting
    <3>4. QED BY <3>3 DEF q
  <2>4. QED BY <1>1, <2>1, <2>2, <2>3 DEF PrepareStep
<1>11. ph \in {"starting", "running", "verifying", "interrupted", "recoverable", "exhausted", "repair", "recover", "queued"}
  BY DEF Picks
<1>12. QED BY <1>3, <1>4, <1>5, <1>6, <1>7, <1>8, <1>9, <1>10, <1>11

\* What a phase decided is the next step of its call.
LEMMA DecidedInTurn ==
  ASSUME NEW w, NEW id \in RunIds, NEW d, NEW ph, KeptDo(ph, id, d), OwnDo(ph, id, d), SoundDo(d), d.at # "pass",
         NEW c, c.at = d.at, c.run = d.run, c.then = d.then, c.id = id, Phases(w)[c.phase] = ph
  PROVE  InTurn(w, c)
<1>1. c.at = "put" => OwnWrite(c)
  BY DEF OwnDo, KeptDo, SoundDo, OwnWrite
<1>2. c.at # "put" => c.run = runs[id]
  BY DEF KeptDo
<1>3. c.at \notin {"queue", "create"}
  BY DEF SoundDo
<1>4. QED BY <1>1, <1>2, <1>3 DEF OwnDo, InTurn, Starting

-----------------------------------------------------------------------------
(* The steps of a claim. *)

LEMMA IdleTurn ==
  ASSUME IInv, KInv, OInv, NEW w \in Runners, Alone(w), NEW d, Goto(w, d), d.at \in {"idle", "list", "each"},
         UNCHANGED <<task, runs>>
  PROVE  OInv'
BY HandTurn, QuietInTurn

LEMMA ListTurn ==
  ASSUME LockedOnly, IInv, KInv, OInv, NEW w \in Runners, BeginClaim(w) \/ List(w)
  PROVE  OInv'
<1>1. CASE BeginClaim(w)
  <2>1. Alone(w) /\ AtPhase(1).at = "list"
    BY <1>1 DEF BeginClaim, Locked, Alone, AtPhase, Step
  <2>2. QED BY <1>1, <2>1, IdleTurn DEF BeginClaim
<1>2. CASE List(w)
  <2> DEFINE later == {n \in call[w].phase..Len(Phases(w)) : HasWork(Phases(w)[n])}
             n == CHOOSE n \in later : \A m \in later : n <= m
             ph == Phases(w)[n]
             queueing == [Step("queue", n, {}, NoRun, Absent, task.status, 0, "next") EXCEPT !.pardoned = forgiven]
             looking == Step("each", n, {<<id, runs[id]>> : id \in Picked(ph)}, NoRun, Absent, "none", 0, "next")
  <2>1. /\ \/ Goto(w, Idle)
           \/ later # {} /\ ph = "ready" /\ Goto(w, queueing)
           \/ Goto(w, looking)
        /\ UNCHANGED <<task, runs>> /\ Alone(w)
    BY <1>2, HandKnown DEF List
  <2>2. Idle.at = "idle" /\ looking.at = "each" /\ queueing.at = "queue"
    BY DEF Idle, Step
  <2>3. ASSUME later # {}, ph = "ready" PROVE \A id \in RunIds : ~Begun(runs[id], id)
    <3>1. later \subseteq Nat
      <4>1. call[w].phase \in Nat
        <5>1. w \in Callers /\ call[w].at = "list"
          BY <1>2 DEF Callers, List
        <5>2. call[w] \in Call
          BY <5>1, CallKnown
        <5>3. QED BY <5>2, Lengths DEF Call
      <4>2. Len(Phases(w)) \in Nat
        BY Lengths DEF Phases
      <4>3. QED BY <4>1, <4>2
    <3> HIDE DEF later
    <3>2. n \in later
      BY <2>3, <3>1, LeastElement
    <3>3. HasWork("ready")
      BY <2>3, <3>2 DEF later
    <3>4. task.status = "ready"
      BY <3>3 DEF HasWork, Picked, Picks
    <3>5. QED BY <3>4 DEF OInv, Orderly
  <2>4. later # {} /\ ph = "ready" => InTurn(w, queueing)
    BY <2>2, <2>3 DEF InTurn, Starting
  <2> HIDE DEF later, queueing, looking
  <2>5. QED BY <2>1, <2>2, <2>4, IdleTurn, HandTurn
<1>3. QED BY <1>1, <1>2

LEMMA EachTurn ==
  ASSUME LockedOnly, IInv, KInv, OInv, NEW w \in Runners, Each(w)
  PROVE  OInv'
<1> DEFINE c == call[w]
<1>1. c.at = "each" /\ UNCHANGED <<task, runs>>
  BY DEF Each
<1>2. PICK item \in c.todo :
        LET d    == Decide(Phase(w), item[1], item[2])
            rest == [c EXCEPT !.todo = @ \ {item}]
        IN  Goto(w, IF d.at = "pass" THEN GoOn(rest)
                    ELSE [rest EXCEPT !.at = d.at, !.id = item[1], !.run = d.run, !.seen = d.seen, !.then = d.then])
  BY DEF Each
<1> DEFINE d    == Decide(Phase(w), item[1], item[2])
           rest == [c EXCEPT !.todo = @ \ {item}]
           next == [rest EXCEPT !.at = d.at, !.id = item[1], !.run = d.run, !.seen = d.seen, !.then = d.then]
           id   == item[1]
<1>3. /\ c \in Call /\ Alone(w) /\ w \in Callers /\ id \in RunIds /\ item[2] = runs[id] /\ runs[id] \in Run /\ Kempt(id)
      /\ stamp \in Stamps
  BY <1>1, HandKnown DEF InHand, IInv, Typed
<1>4. Picks(Phase(w), runs[id]) /\ Sound(runs[id], task) /\ task.status \in Statuses
  <2>1. Picks(Phases(w)[c.phase], item[2])
    BY <1>3, CallKnown DEF SoundCall
  <2>2. QED BY <1>3, <2>1, CallKnown DEF Phase
<1>5. KeptDo(Phase(w), id, d) /\ SoundDo(d) /\ OwnDo(Phase(w), id, d)
  BY <1>3, <1>4, DecideKept, DecideSound, DecideOwn DEF OInv
<1> HIDE DEF d
<1>6. /\ next.at = d.at /\ next.run = d.run /\ next.then = d.then /\ next.id = id /\ Phases(w)[next.phase] = Phase(w)
  BY <1>3 DEF Call, Phase
<1>7. GoOn(rest).at \in {"list", "each"}
  BY GoOnInTurn
<1>8. d.at # "pass" => InTurn(w, next)
  <2> HIDE DEF next
  <2>1. QED BY <1>3, <1>5, <1>6, DecidedInTurn
<1>9. QED BY <1>1, <1>2, <1>3, <1>7, <1>8, IdleTurn, HandTurn DEF d

LEMMA VerifyTurn ==
  ASSUME LockedOnly, IInv, KInv, OInv, NEW w \in Runners, Verify(w)
  PROVE  OInv'
<1> DEFINE c == call[w]
           d == VerifyingStep(c.run, task.status)
           next == [c EXCEPT !.at = d.at, !.run = d.run, !.seen = d.seen, !.then = d.then]
<1>1. /\ c.at = "verify" /\ UNCHANGED <<task, runs>>
      /\ Goto(w, GoOn(c)) \/ (d.at # "pass" /\ c.run.status = "verifying" /\ Goto(w, next))
  BY DEF Verify
<1>2. /\ c \in Call /\ Alone(w) /\ c.id \in RunIds /\ Kempt(c.id)
      /\ c.run = runs[c.id] /\ Sound(c.run, task) /\ c.run \in Run /\ task.status \in Statuses
  BY <1>1, CallHolds DEF Engaged
<1>3. ASSUME d.at # "pass", c.run.status = "verifying" PROVE InTurn(w, next)
  <2>1. Writable(c.run, c.id)
    BY <1>2, <1>3 DEF Kempt, Untouched
  <2>2. KeptDo(Phases(w)[c.phase], c.id, d) /\ OwnDo(Phases(w)[c.phase], c.id, d) /\ SoundDo(d)
    BY <1>2, <1>3, <2>1, VerifyingKept, VerifyingOwn, VerifyingStepSound DEF OInv
  <2> HIDE DEF d
  <2>3. /\ next.at = d.at /\ next.run = d.run /\ next.then = d.then /\ next.id = c.id /\ next.phase = c.phase
    BY <1>2 DEF Call
  <2> HIDE DEF next
  <2>4. QED BY <1>2, <1>3, <2>2, <2>3, DecidedInTurn
<1>4. GoOn(c).at \in {"list", "each"}
  BY GoOnInTurn
<1>5. QED BY <1>1, <1>2, <1>3, <1>4, IdleTurn, HandTurn

LEMMA RecheckTurn ==
  ASSUME LockedOnly, IInv, KInv, OInv, NEW w \in Runners, Recheck(w)
  PROVE  OInv'
<1> DEFINE c == call[w]
           q == InterruptedCopy(runs[c.id], c.seen)
           next == [c EXCEPT !.at = "put", !.run = q, !.then = "release"]
<1>1. c.at = "recheck" /\ UNCHANGED <<task, runs>> /\ (Goto(w, next) \/ Goto(w, GoOn(c)))
  BY DEF Recheck
<1>2. /\ c \in Call /\ Alone(w) /\ c.id \in RunIds /\ c.run = runs[c.id] /\ runs[c.id] \in Run
  BY <1>1, CallHolds DEF Engaged
<1>3. Pending(runs[c.id])
  BY <1>1, <1>2 DEF OInv, InTurn, Pending
<1>4. q.status = "timeout"
  BY <1>2 DEF InterruptedCopy, Run
<1>5. ~LiveAs(q, c.id) /\ ~Begun(q, c.id) /\ ~Lost(q)
  BY <1>4, NotLive DEF Lost
<1> HIDE DEF q
<1>6. next.at = "put" /\ next.run = q /\ next.then = "release" /\ next.id = c.id
  BY <1>2 DEF Call
<1>7. GoOn(c).at \in {"list", "each"}
  BY GoOnInTurn
<1> HIDE DEF next
<1>8. InTurn(w, next)
  BY <1>3, <1>4, <1>5, <1>6 DEF InTurn, OwnWrite, Starting
<1>9. QED BY <1>1, <1>2, <1>7, <1>8, IdleTurn, HandTurn

\* A run is queued for the task only if no run is live, whatever the call has seen.
LEMMA QueueTurn ==
  ASSUME LockedOnly, IInv, KInv, OInv, Unmarked, NEW w \in Runners, Queue(w)
  PROVE  OInv'
<1> DEFINE c == call[w]
           creating == [c EXCEPT !.at = "create"]
           blocking == [c EXCEPT !.at = "block"]
<1>1. /\ c.at = "queue" /\ UNCHANGED <<task, runs>>
      /\ \/ Goto(w, GoOn(c)) \/ Goto(w, blocking)
         \/ /\ Goto(w, creating) /\ ~LimitReached(c.pardoned)
            /\ \A id \in Existing : Replaceable(runs[id], c.seen)
  BY DEF Queue
<1>2. c \in Call /\ Alone(w) /\ \A id \in RunIds : ~Begun(runs[id], id)
  BY <1>1, CallHolds DEF OInv, InTurn
<1>3. ASSUME ~LimitReached(c.pardoned), \A id \in Existing : Replaceable(runs[id], c.seen) PROVE NoneLive /\ BelowLimit
  <2>1. ASSUME NEW id \in RunIds PROVE ~Live(id)
    <3>1. CASE id \in Existing
      <4>1. runs[id].status \notin {"queued"} \cup Active
        BY <1>3, <3>1 DEF Replaceable, Active
      <4>2. QED BY <1>2, <4>1 DEF Begun, Live, Active
    <3>2. CASE id \notin Existing
      BY <3>2 DEF Existing, Live, LiveAs, Pending, Recoverable, Active
    <3>3. QED BY <3>1, <3>2
  <2>2. Cardinality(TerminalFailures) \in Nat
    BY FewerFailures DEF TerminalFailures
  <2>3. Counted(c.pardoned) = TerminalFailures
    BY DEF Counted, Unmarked
  <2>4. QED BY <1>3, <2>1, <2>2, <2>3, AutomationRunsAssumption DEF NoneLive, BelowLimit, LimitReached
<1>4. creating.at = "create" /\ blocking.at = "block"
  BY <1>2 DEF Call
<1> HIDE DEF creating, blocking
<1>5. GoOn(c).at \in {"list", "each"} /\ InTurn(w, blocking)
  BY <1>4, GoOnInTurn, QuietInTurn
<1>6. NoneLive /\ BelowLimit => InTurn(w, creating)
  BY <1>4 DEF InTurn, Starting
<1>7. QED BY <1>1, <1>2, <1>3, <1>5, <1>6, IdleTurn, HandTurn

LEMMA GrantTurn ==
  ASSUME LockedOnly, IInv, KInv, OInv, NEW w \in Runners, Grant(w)
  PROVE  OInv'
<1> DEFINE c == call[w]
           q == RunningCopy(c.run, Phase(w) = "recover")
           next == [c EXCEPT !.at = "put", !.run = q, !.stamp = stamp + 1, !.then = "reply"]
<1>1. c.at = "grant" /\ UNCHANGED <<task, runs>> /\ (Goto(w, next) \/ Goto(w, Idle))
  BY DEF Grant
<1>2. c \in Call /\ Alone(w) /\ c.run = runs[c.id] /\ c.run \in Run
  BY <1>1, CallHolds DEF Engaged
<1>3. Pending(runs[c.id]) /\ task.status # "ready"
  BY <1>1, <1>2 DEF OInv, InTurn, Starting
<1>4. ~Lost(q)
  BY <1>2 DEF Lost, RunningCopy, Run
<1> HIDE DEF q
<1>5. next.at = "put" /\ next.run = q /\ next.then = "reply" /\ next.id = c.id
  BY <1>2 DEF Call
<1> HIDE DEF next
<1>6. InTurn(w, next)
  BY <1>3, <1>4, <1>5 DEF InTurn, OwnWrite, Starting
<1>7. Idle.at = "idle"
  BY DEF Idle, Step
<1>8. QED BY <1>1, <1>2, <1>6, <1>7, IdleTurn, HandTurn

\* Calls that end or go on with what is stored, and calls that are cut off.
LEMMA QuietTurn ==
  ASSUME LockedOnly, IInv, KInv, OInv, NEW w \in Runners, Reply(w) \/ Renewed(w) \/ Durable(w)
  PROVE  OInv'
<1> DEFINE c == call[w]
           next == [c EXCEPT !.at = "verify", !.run = runs[c.id]]
<1>1. /\ c.at \notin {"idle", "list"} /\ UNCHANGED <<task, runs>> /\ (Goto(w, next) \/ Goto(w, Idle))
  BY DEF Reply, Renewed, Durable
<1>2. c \in Call /\ Alone(w)
  BY <1>1, CallHolds
<1>3. next.at = "verify" /\ Idle.at = "idle"
  BY <1>2 DEF Call, Idle, Step
<1> HIDE DEF next
<1>4. InTurn(w, next)
  BY <1>3, QuietInTurn
<1>5. QED BY <1>1, <1>2, <1>3, <1>4, IdleTurn, HandTurn

LEMMA CutTurn ==
  ASSUME LockedOnly, IInv, KInv, OInv, NEW w \in Runners, Cut(w)
  PROVE  OInv'
<1>1. Idle.at = "idle"
  BY DEF Idle, Step
<1>2. Goto(w, Idle) /\ UNCHANGED <<task, runs>> /\ call[w] # Idle
  BY DEF Cut
<1>3. CASE call[w].at # "idle"
  <2>1. Alone(w)
    BY <1>3 DEF KInv
  <2>2. QED BY <1>1, <1>2, <2>1, IdleTurn
<1>4. CASE call[w].at = "idle"
  <2>1. \A v \in Runners : call'[v].at # "idle" => call'[v] = call[v]
    BY <1>1, <1>2, <1>4 DEF Goto, IInv, Typed, Callers
  <2>2. QED BY <1>2, <2>1, CallsUnmoved
<1>5. QED BY <1>3, <1>4

\* CompleteWorkTask.
LEMMA CloseTurn ==
  ASSUME LockedOnly, IInv, KInv, OInv, NEW w \in Runners, Close(w)
  PROVE  OInv'
<1> DEFINE c == call[w]
           new == Changed(task, c.id, "done", {}, {}, FALSE)
           q == CompletedCopy(c.run, "done")
           next == [c EXCEPT !.at = "put", !.run = q, !.seen = "done"]
<1>1. /\ c.at = "close" /\ UNCHANGED runs
      /\ (task' = new /\ Goto(w, next)) \/ (task' = task /\ Goto(w, Fail(w)))
  BY DEF Close
<1>2. /\ c \in Call /\ Alone(w) /\ Fail(w).at = "idle" /\ c.id \in RunIds /\ c.run = runs[c.id] /\ c.run \in Run /\ task \in Task
      /\ c.then = "next" /\ Orderly
  BY <1>1, CallHolds, CallKnown DEF Engaged, OInv, Callers, SoundCall
<1>3. runs[c.id].status = "verifying" /\ c.id # NoRun
  BY <1>1, <1>2, AutomationRunsAssumption DEF OInv, InTurn, RunIds
<1>4. CASE task' = task /\ Goto(w, Fail(w))
  BY <1>1, <1>2, <1>4, IdleTurn
<1>5. CASE task' = new /\ Goto(w, next)
  <2>1. task'.status = "done" /\ task'.claim = c.id
    BY <1>2, <1>3, <1>5 DEF Changed, Task
  <2>2. ~(Recoverable(runs[c.id]) \/ Lost(runs[c.id]))
    BY <1>3 DEF Lost, Recoverable
  <2>3. Orderly'
    BY <1>1, <1>2, <2>1, <2>2, TaskMoved
  <2>4. q.status = "completed"
    BY <1>2 DEF CompletedCopy, Run
  <2> HIDE DEF q
  <2>5. next.at = "put" /\ next.run = q /\ next.then = "next" /\ next.id = c.id
    BY <1>2 DEF Call
  <2> HIDE DEF next
  <2>6. call'[w] = next
    BY <1>5 DEF Goto, IInv, Typed, Callers
  <2>7. OwnWrite(call[w])'
    BY <2>4, <2>5, <2>6 DEF OwnWrite, LiveAs, Begun, Pending, Recoverable, Lost, Active
  <2>8. InTurn(w, call[w])'
    BY <2>5, <2>6, <2>7 DEF InTurn, Starting
  <2>9. QED BY <1>2, <1>5, <2>3, <2>8, TurnStep
<1>6. QED BY <1>1, <1>4, <1>5

\* A release is made when no other run is live, and then none is.
LEMMA ReleaseTurn ==
  ASSUME LockedOnly, IInv, KInv, OInv, NEW w \in Runners, Release(w)
  PROVE  OInv'
<1> DEFINE c == call[w]
           s == Released(c.id).status
           q == [FailedCopy(c.run, "failed", "exhausted") EXCEPT !.seen = s, !.recovery = FALSE]
           failing == [c EXCEPT !.at = "put", !.seen = s, !.pardoned = forgiven', !.then = "queue", !.run = q]
           queueing == [c EXCEPT !.at = "queue", !.seen = s, !.pardoned = forgiven', !.run = Absent]
<1>1. /\ c.at = "release" /\ UNCHANGED runs
      /\ \/ /\ task' = Released(c.id)
            /\ \/ Phases(w)[c.phase] # "exhausted" /\ Goto(w, queueing)
               \/ Phases(w)[c.phase] = "exhausted" /\ Goto(w, failing)
         \/ task' = task /\ (Goto(w, GoOn(c)) \/ Goto(w, Fail(w)))
  BY DEF Release, Phase
<1>2. /\ c \in Call /\ Alone(w) /\ Fail(w).at = "idle" /\ c.id \in RunIds /\ c.run = runs[c.id] /\ c.run \in Run /\ task \in Task
      /\ Orderly /\ InTurn(w, c)
  BY <1>1, CallHolds, CallKnown DEF Engaged, OInv, Callers
<1>3. CASE task' = task /\ (Goto(w, GoOn(c)) \/ Goto(w, Fail(w)))
  <2>1. GoOn(c).at \in {"list", "each"}
    BY GoOnInTurn
  <2>2. QED BY <1>1, <1>2, <1>3, <2>1, IdleTurn
<1>4. CASE task' = Released(c.id)
  <2>1. \/ task' = task /\ task.status # "ready"
        \/ task'.status = "ready" /\ task'.claim = NoRun
    BY <1>2, <1>4 DEF Released, ReleaseIsStale, Finished, Changed, Task
  <2>2. task'.status = "ready" => \A id \in RunIds : ~Live(id)'
    <3>1. ASSUME task'.status = "ready", NEW id \in RunIds PROVE ~Live(id)'
      <4>1. task'.claim # id
        BY <2>1, <3>1, AutomationRunsAssumption DEF RunIds
      <4>2. Live(id)' => Pending(runs[id]) /\ Live(id)
        BY <1>1, <4>1 DEF Live, LiveAs, Pending, Recoverable, CanRetry
      <4>3. CASE NoneLive
        BY <4>2, <4>3 DEF NoneLive
      <4>4. CASE NoOther(c.id) /\ ~CanRetry(c.run) /\ Recoverable(c.run)
        <5>1. ~Pending(runs[c.id])
          BY <1>2, <4>4 DEF Pending, Recoverable, Active
        <5>2. QED BY <4>2, <4>4, <5>1 DEF NoOther
      <4>5. QED BY <1>1, <1>2, <4>3, <4>4 DEF InTurn
    <3>2. QED BY <3>1
  <2>3. \A id \in RunIds : Begun(runs[id], id)' => Live(id)'
    BY DEF Begun, Live
  <2>4. /\ Orderly' /\ (BelowLimit => BelowLimit') /\ (NoneLive => NoneLive')
        /\ \A id \in RunIds : /\ NoOther(id) => \A other \in RunIds \ {id} : ~Live(other)'
                              /\ Begun(runs[id], id)' => Begun(runs[id], id)
    BY <1>1, <1>2, <2>1, <2>2, <2>3, AutomationRunsAssumption, TaskMoved DEF RunIds
  <2>5. s = task'.status
    BY <1>4
  <2>6. CASE Phases(w)[c.phase] # "exhausted" /\ Goto(w, queueing)
    <3>1. NoneLive'
      BY <1>1, <1>2, <2>4, <2>6 DEF InTurn
    <3>2. queueing.at = "queue"
      BY <1>2 DEF Call
    <3> HIDE DEF queueing
    <3>3. call'[w] = queueing
      BY <2>6 DEF Goto, IInv, Typed, Callers
    <3>4. InTurn(w, call[w])'
      BY <2>3, <3>1, <3>2, <3>3 DEF InTurn, NoneLive, Starting
    <3>5. QED BY <1>2, <2>4, <2>6, <3>4, TurnStep
  <2>7. CASE Phases(w)[c.phase] = "exhausted" /\ Goto(w, failing)
    <3>1. NoOther(c.id) /\ BelowLimit
      BY <1>1, <1>2, <2>7 DEF InTurn
    <3>2. q.status = "failed" /\ q.cat = "exhausted" /\ q.seen = s
      BY <1>2 DEF FailedCopy, Run
    <3>3. s = "ready" => task'.claim # c.id
      BY <1>2, <2>1, <2>5, AutomationRunsAssumption DEF RunIds
    <3> HIDE DEF q, s
    <3>4. /\ failing.at = "put" /\ failing.run = q /\ failing.then = "queue" /\ failing.id = c.id
      BY <1>2 DEF Call
    <3> HIDE DEF failing
    <3>5. call'[w] = failing
      BY <2>7 DEF Goto, IInv, Typed, Callers
    <3>6. BelowLimit' /\ NoOther(call[w].id)'
      BY <1>2, <2>4, <3>1, <3>4, <3>5 DEF NoOther
    <3>7. OwnWrite(call[w])'
      BY <3>2, <3>3, <3>4, <3>5, <3>6 DEF OwnWrite, LiveAs, Begun, Pending, Recoverable, Lost, Active
    <3>8. InTurn(w, call[w])'
      BY <3>4, <3>5, <3>7 DEF InTurn, Starting
    <3>9. QED BY <1>2, <2>4, <2>7, <3>8, TurnStep
  <2>8. QED BY <1>1, <1>3, <1>4, <2>6, <2>7
<1>5. QED BY <1>1, <1>3, <1>4

LEMMA BlockTurn ==
  ASSUME LockedOnly, IInv, KInv, OInv, NEW w \in Runners, Block(w)
  PROVE  OInv'
<1> DEFINE c == call[w]
           q == [FailedCopy(c.run, "blocked", "other") EXCEPT !.seen = "blocked", !.recovery = FALSE]
           next == [c EXCEPT !.at = "put", !.run = q]
<1>1. /\ c.at = "block" /\ UNCHANGED runs
      /\ task' \in {task, Changed(task, NoRun, "blocked", {}, {}, FALSE)}
      /\ Goto(w, next) \/ Goto(w, GoOn(c)) \/ Goto(w, Fail(w))
  BY DEF Block
<1>2. /\ c \in Call /\ Alone(w) /\ Fail(w).at = "idle" /\ c.run \in Run /\ task \in Task /\ c.then = "next" /\ Orderly
  BY <1>1, CallHolds, CallKnown DEF OInv, Callers, SoundCall
<1>3. task'.claim = task.claim /\ (task'.status = "ready" => task' = task)
  BY <1>1, <1>2 DEF Changed, Task
<1>4. task' = task => \A id \in RunIds : Begun(runs[id], id)' => Begun(runs[id], id)
  BY <1>1 DEF Begun, LiveAs, Pending, Recoverable, CanRetry
<1>5. Orderly'
  BY <1>1, <1>2, <1>3, <1>4, TaskMoved DEF Orderly
<1>6. GoOn(c).at \in {"list", "each"}
  BY GoOnInTurn
<1>7. q.status = "blocked" /\ q.cat = "other"
  BY <1>2 DEF FailedCopy, Run
<1> HIDE DEF q
<1>8. next.at = "put" /\ next.run = q /\ next.then = "next"
  BY <1>2 DEF Call
<1> HIDE DEF next
<1>9. \A d : Goto(w, d) => call'[w] = d
  BY DEF Goto, IInv, Typed, Callers
<1>10. Goto(w, next) => InTurn(w, call[w])'
  <2>1. Goto(w, next) => OwnWrite(call[w])'
    BY <1>7, <1>8, <1>9 DEF OwnWrite, LiveAs, Begun, Pending, Recoverable, Lost, Active
  <2>2. QED BY <1>8, <1>9, <2>1 DEF InTurn, Starting
<1>11. Goto(w, GoOn(c)) => InTurn(w, call[w])'
  BY <1>6, <1>9 DEF InTurn, Starting
<1>12. QED BY <1>1, <1>2, <1>5, <1>10, <1>11, TurnStep

\* ClaimWorkTask and StartWorkTask give the task to a run that is pending.
LEMMA TakenMoved ==
  ASSUME Orderly, UNCHANGED runs, task \in Task, NEW id \in RunIds, Pending(runs[id]), NEW s \in {"claimed", "in_progress"},
         task' = Changed(task, id, s, {}, {}, FALSE)
  PROVE  Orderly' /\ task'.status # "ready"
<1>1. task'.status = s /\ task'.claim = id
  BY AutomationRunsAssumption DEF Changed, Task, RunIds
<1>2. QED BY <1>1, TaskMoved

LEMMA RefusedInTurn ==
  ASSUME NEW w, NEW c \in Call, c.run = runs[c.id], c.run \in Run, Pending(c.run), task.status # "ready", c.then = "next"
  PROVE  InTurn(w, [c EXCEPT !.at = "put", !.run = FailedCopy(@, "blocked", "recoverable")])
<1> DEFINE q == FailedCopy(c.run, "blocked", "recoverable")
           next == [c EXCEPT !.at = "put", !.run = q]
<1>1. ~Lost(q)
  BY DEF FailedCopy, Run, Lost
<1> HIDE DEF q
<1>2. next.at = "put" /\ next.run = q /\ next.then = "next" /\ next.id = c.id
  BY DEF Call
<1> HIDE DEF next
<1>3. InTurn(w, next)
  BY <1>1, <1>2 DEF InTurn, OwnWrite, Starting
<1>4. QED BY <1>3 DEF next, q

LEMMA ClaimTurn ==
  ASSUME LockedOnly, IInv, KInv, OInv, NEW w \in Runners, Claim(w)
  PROVE  OInv'
<1> DEFINE c == call[w]
           q == [c.run EXCEPT !.status = "starting", !.seen = "claimed"]
           starting == [c EXCEPT !.at = "put", !.run = q, !.then = "start"]
           refused == [c EXCEPT !.at = "put", !.run = FailedCopy(@, "blocked", "recoverable")]
           going == [c EXCEPT !.at = "start"]
<1>1. /\ c.at = "claim" /\ UNCHANGED runs
      /\ \/ task' = Changed(task, c.id, "claimed", {}, {}, FALSE) /\ (Goto(w, starting) \/ Goto(w, going))
         \/ ~Permitted(task, c.id, "claimed") /\ task' = task /\ (Goto(w, refused) \/ Goto(w, GoOn(c)))
  BY DEF Claim
<1>2. /\ c \in Call /\ Alone(w) /\ c.id \in RunIds /\ c.run = runs[c.id] /\ c.run \in Run /\ task \in Task /\ c.then = "next"
      /\ Orderly /\ Pending(c.run) /\ c.id # NoRun
  BY <1>1, CallHolds, CallKnown, AutomationRunsAssumption DEF Engaged, OInv, Callers, SoundCall, InTurn, Starting, RunIds
<1>3. CASE ~Permitted(task, c.id, "claimed") /\ task' = task /\ (Goto(w, refused) \/ Goto(w, GoOn(c)))
  <2>1. task.status # "ready"
    BY <1>2, <1>3 DEF Permitted, AllowedNext, Orderly
  <2>2. InTurn(w, refused) /\ GoOn(c).at \in {"list", "each"}
    BY <1>2, <2>1, RefusedInTurn, GoOnInTurn
  <2> HIDE DEF refused
  <2>3. QED BY <1>1, <1>2, <1>3, <2>2, IdleTurn, HandTurn
<1>4. CASE task' = Changed(task, c.id, "claimed", {}, {}, FALSE) /\ (Goto(w, starting) \/ Goto(w, going))
  <2>1. Orderly' /\ task'.status # "ready"
    BY <1>1, <1>2, <1>4, TakenMoved
  <2>2. q.status = "starting"
    BY <1>2 DEF Run
  <2> HIDE DEF q
  <2>3. /\ starting.at = "put" /\ starting.run = q /\ starting.then = "start" /\ starting.id = c.id
        /\ going.at = "start" /\ going.run = c.run
    BY <1>2 DEF Call
  <2> HIDE DEF starting, going
  <2>4. call'[w] = starting \/ call'[w] = going
    BY <1>4 DEF Goto, IInv, Typed, Callers
  <2>5. Pending(runs[c.id]) /\ (Pending(runs[c.id]) => Pending(runs'[c.id])) /\ (Pending(c.run) => (call'[w] = going => Pending(call[w].run)'))
    BY <1>1, <1>2, <2>3 DEF Pending, Recoverable, CanRetry
  <2>6. call'[w] = starting => OwnWrite(call[w])'
    BY <1>1, <1>2, <2>1, <2>2, <2>3 DEF OwnWrite, Lost, Pending, Recoverable, CanRetry
  <2>7. InTurn(w, call[w])'
    BY <1>2, <2>1, <2>3, <2>4, <2>5, <2>6 DEF InTurn, Starting
  <2>8. QED BY <1>2, <1>4, <2>1, <2>7, TurnStep
<1>5. QED BY <1>1, <1>3, <1>4

LEMMA StartTurn ==
  ASSUME LockedOnly, IInv, KInv, OInv, NEW w \in Runners, Start(w)
  PROVE  OInv'
<1> DEFINE c == call[w]
           refused == [c EXCEPT !.at = "put", !.run = FailedCopy(@, "blocked", "recoverable")]
           going == [c EXCEPT !.at = "grant"]
<1>1. /\ c.at = "start" /\ UNCHANGED runs
      /\ \/ task' = Changed(task, c.id, "in_progress", {}, {}, FALSE) /\ Goto(w, going)
         \/ task' = task /\ (Goto(w, refused) \/ Goto(w, GoOn(c)))
  BY DEF Start
<1>2. /\ c \in Call /\ Alone(w) /\ c.id \in RunIds /\ c.run = runs[c.id] /\ c.run \in Run /\ task \in Task /\ c.then = "next"
      /\ Orderly /\ Pending(c.run) /\ task.status # "ready"
  BY <1>1, CallHolds, CallKnown DEF Engaged, OInv, Callers, SoundCall, InTurn, Starting
<1>3. CASE task' = task /\ (Goto(w, refused) \/ Goto(w, GoOn(c)))
  <2>1. InTurn(w, refused) /\ GoOn(c).at \in {"list", "each"}
    BY <1>2, RefusedInTurn, GoOnInTurn
  <2> HIDE DEF refused
  <2>2. QED BY <1>1, <1>2, <1>3, <2>1, IdleTurn, HandTurn
<1>4. CASE task' = Changed(task, c.id, "in_progress", {}, {}, FALSE) /\ Goto(w, going)
  <2>1. Orderly' /\ task'.status # "ready"
    BY <1>1, <1>2, <1>4, TakenMoved
  <2>2. going.at = "grant" /\ going.run = c.run
    BY <1>2 DEF Call
  <2> HIDE DEF going
  <2>3. call'[w] = going
    BY <1>4 DEF Goto, IInv, Typed, Callers
  <2>4. Pending(call[w].run)'
    BY <1>2, <2>2, <2>3 DEF Pending, Recoverable, CanRetry
  <2>5. InTurn(w, call[w])'
    BY <2>1, <2>2, <2>3, <2>4 DEF InTurn, Starting
  <2>6. QED BY <1>2, <1>4, <2>1, <2>5, TurnStep
<1>5. QED BY <1>1, <1>3, <1>4

-----------------------------------------------------------------------------
(* The steps that write a run or create one. *)

\* With the task as it is, only the runs themselves matter.
LEMMA RunsMoved ==
  ASSUME UNCHANGED task
  PROVE  \A id \in RunIds : /\ Live(id)' <=> LiveAs(runs'[id], id)
                            /\ Begun(runs[id], id)' <=> Begun(runs'[id], id)
                            /\ Lost(runs[id])' <=> Lost(runs'[id])
BY DEF Live, LiveAs, Begun, Pending, Recoverable, CanRetry, Lost

\* Whatever is written of a run, none comes to life, and the limit is met by the last one.
LEMMA WriteOrderly ==
  ASSUME Orderly, UNCHANGED task, runs \in [RunIds -> Run], NEW id \in RunIds, NEW r, runs' = [runs EXCEPT ![id] = r],
         LiveAs(r, id) => Pending(runs[id]), Begun(r, id) => task.status # "ready",
         Lost(r) => BelowLimit /\ NoOther(id) /\ (r.seen = "ready" => task.claim # id)
  PROVE  /\ Orderly' /\ (~LiveAs(r, id) /\ (NoOther(id) \/ Pending(runs[id])) => NoneLive')
<1>1. runs'[id] = r /\ \A other \in RunIds \ {id} : runs'[other] = runs[other]
  OBVIOUS
<1>2. \A other \in RunIds : Live(other)' => Live(other)
  <2>1. Live(id)' => Live(id)
    BY <1>1, RunsMoved DEF Live, LiveAs
  <2>2. \A other \in RunIds \ {id} : Live(other)' => Live(other)
    BY <1>1, RunsMoved DEF Live
  <2>3. QED BY <2>1, <2>2
<1>3. ~LiveAs(r, id) /\ (NoOther(id) \/ Pending(runs[id])) => NoneLive'
  <2>1. Pending(runs[id]) => NoOther(id)
    BY DEF Orderly, Live, LiveAs, NoOther
  <2>2. ~LiveAs(r, id) => ~Live(id)'
    BY <1>1, RunsMoved
  <2>3. NoOther(id) => \A other \in RunIds \ {id} : ~Live(other)'
    BY <1>2 DEF NoOther
  <2>4. QED BY <2>1, <2>2, <2>3 DEF NoneLive
<1>4. \A other \in RunIds : Begun(runs[other], other)' => task'.status # "ready"
  BY <1>1, RunsMoved DEF Orderly
<1>5. \A other \in RunIds : Lost(runs[other])' /\ runs'[other].seen = "ready" => task'.claim # other
  BY <1>1, RunsMoved DEF Orderly
<1>6. /\ TerminalFailures \subseteq RunIds /\ TerminalFailures' \subseteq TerminalFailures \cup {id}
      /\ ~Lost(r) => TerminalFailures' \subseteq TerminalFailures
  BY <1>1 DEF TerminalFailures, Lost
<1>7. /\ Cardinality(TerminalFailures) \in Nat /\ Cardinality(TerminalFailures') \in Nat
      /\ Cardinality(TerminalFailures') <= Cardinality(TerminalFailures) + 1
      /\ ~Lost(r) => Cardinality(TerminalFailures') <= Cardinality(TerminalFailures)
  BY <1>6, FewerFailures
<1>8. MaxReplacements \in Nat
  BY AutomationRunsAssumption
<1>9. Cardinality(TerminalFailures') <= MaxReplacements
  BY <1>7, <1>8 DEF Orderly, BelowLimit
<1>10. (\E other \in RunIds : Live(other)') => Cardinality(TerminalFailures') < MaxReplacements
  <2>1. CASE Lost(r)
    BY <1>3, <2>1 DEF NoneLive, LiveAs, Pending, Recoverable, Lost, Active
  <2>2. CASE ~Lost(r)
    BY <1>2, <1>7, <1>8, <2>2 DEF Orderly, BelowLimit
  <2>3. QED BY <2>1, <2>2
<1>11. QED BY <1>2, <1>3, <1>4, <1>5, <1>9, <1>10 DEF Orderly, BelowLimit

LEMMA PutTurn ==
  ASSUME LockedOnly, IInv, KInv, OInv, NEW w \in Runners, Put(w)
  PROVE  OInv'
<1> DEFINE c == call[w]
           stored == Stored(runs[c.id], c.run)
           rest == [c EXCEPT !.run = stored, !.at = c.then, !.then = "next"]
<1>1. /\ c.at = "put" /\ runs' = [runs EXCEPT ![c.id] = stored] /\ UNCHANGED task
      /\ Goto(w, GoOn(c)) \/ (Goto(w, rest) /\ c.then # "next")
  BY DEF Put
<1>2. /\ c \in Call /\ Alone(w) /\ c.id \in RunIds /\ c.run \in Run /\ w \in Callers /\ runs \in [RunIds -> Run]
      /\ Write(w, c) /\ OwnWrite(c) /\ Orderly
  BY <1>1, CallHolds DEF Engaged, IInv, Typed, OInv, InHand, InTurn, Callers
<1>3. c.then \in Thens
  BY <1>2, CallKnown DEF SoundCall
<1>4. /\ \/ stored = runs[c.id] /\ c.run.status = "running"
         \/ stored = [c.run EXCEPT !.old = FALSE]
      /\ LET r == [c.run EXCEPT !.old = FALSE]
         IN  r.status = c.run.status /\ r.cat = c.run.cat /\ r.attempts = c.run.attempts /\ r.seen = c.run.seen
  BY <1>2, StoredFields
<1>5. rest.at = c.then /\ rest.run = stored /\ rest.id = c.id /\ rest.phase = c.phase
  BY <1>2 DEF Call
<1>6. GoOn(c).at \in {"list", "each"}
  BY GoOnInTurn
<1> HIDE DEF stored, rest
<1>7. CASE stored = runs[c.id] /\ c.run.status = "running"
  <2>1. UNCHANGED runs
    BY <1>1, <1>2, <1>7
  <2>2. c.then \notin {"release", "queue", "claim", "start"}
    BY <1>2, <1>7 DEF OwnWrite, Lost
  <2>3. c.then # "next" => c.then \in {"verify", "reply", "renewed", "durable"}
    BY <1>3, <2>2 DEF Thens
  <2>4. c.then # "next" => InTurn(w, rest)
    BY <1>5, <2>3, QuietInTurn
  <2>5. QED BY <1>1, <1>2, <1>6, <2>1, <2>4, IdleTurn, HandTurn
<1>8. CASE stored = [c.run EXCEPT !.old = FALSE]
  <2>1. stored.status = c.run.status /\ stored.cat = c.run.cat /\ stored.attempts = c.run.attempts /\ stored.seen = c.run.seen
    BY <1>4, <1>8
  <2>2. /\ Pending(stored) = Pending(c.run) /\ LiveAs(stored, c.id) = LiveAs(c.run, c.id)
        /\ Begun(stored, c.id) = Begun(c.run, c.id) /\ Lost(stored) = Lost(c.run)
    BY <2>1, Alike
  <2>3. Orderly' /\ (~LiveAs(stored, c.id) /\ (NoOther(c.id) \/ Pending(runs[c.id])) => NoneLive')
    BY <1>1, <1>2, <2>1, <2>2, WriteOrderly DEF OwnWrite
  <2>4. CASE Goto(w, GoOn(c))
    <3>1. call'[w] = GoOn(c)
      BY <1>2, <2>4 DEF Goto, IInv, Typed
    <3>2. InTurn(w, call[w])'
      BY <1>6, <3>1 DEF InTurn, Starting
    <3>3. QED BY <1>2, <2>3, <2>4, <3>2, TurnStep
  <2>5. CASE Goto(w, rest) /\ c.then # "next"
    <3>1. call'[w] = rest
      BY <1>2, <2>5 DEF Goto, IInv, Typed
    <3>2. c.then \in {"verify", "release", "queue", "claim", "start", "reply", "renewed", "durable"}
      BY <1>3, <2>5 DEF Thens
    <3>3. c.then = "release" => NoneLive' /\ Phases(w)[c.phase] = "running"
      BY <1>2, <2>2, <2>3, NotLive DEF Write, OwnWrite
    <3>4. c.then = "queue" => NoneLive'
      <4>1. Lost(c.run) => ~LiveAs(c.run, c.id)
        BY NotLive DEF Lost
      <4>2. QED BY <1>2, <2>2, <2>3, <4>1 DEF OwnWrite
    <3>5. NoneLive' => \A id \in RunIds : ~Begun(runs[id], id)'
      BY DEF NoneLive, Begun, Live
    <3>6. c.then \in {"claim", "start"} => Pending(call[w].run)'
      BY <1>2, <1>5, <2>1, <3>1 DEF OwnWrite, Pending, Active
    <3>7. c.then = "start" => task'.status # "ready"
      BY <1>1, <1>2 DEF OwnWrite, Begun, LiveAs, Pending, Active
    <3>8. InTurn(w, call[w])'
      BY <1>5, <3>1, <3>2, <3>3, <3>4, <3>5, <3>6, <3>7 DEF InTurn, Starting
    <3>9. QED BY <1>2, <2>3, <2>5, <3>8, TurnStep
  <2>6. QED BY <1>1, <2>4, <2>5
<1>9. QED BY <1>4, <1>7, <1>8

\* The run that replaces another is the only one.
LEMMA CreateTurn ==
  ASSUME LockedOnly, IInv, KInv, OInv, NEW w \in Runners, Create(w)
  PROVE  OInv'
<1> DEFINE c == call[w]
<1>1. c.at = "create" /\ runs' = Created(TRUE) /\ UNCHANGED task /\ Goto(w, GoOn(c))
  BY DEF Create
<1>2. Alone(w) /\ w \in Callers /\ runs \in [RunIds -> Run] /\ NoneLive /\ BelowLimit /\ Orderly
  BY <1>1, CallHolds DEF IInv, Typed, OInv, InTurn, Callers
<1>3. CASE runs' = runs
  BY <1>1, <1>2, <1>3, GoOnInTurn, IdleTurn
<1>4. CASE runs' # runs
  <2> DEFINE first == CHOOSE id \in RunIds \ Existing : \A other \in RunIds \ Existing : id <= other
  <2>1. runs' = [runs EXCEPT ![first] = NewRun(TRUE)]
    BY <1>1, <1>4 DEF Created
  <2> HIDE DEF first
  <2>2. first \in RunIds /\ runs'[first] = NewRun(TRUE) /\ \A other \in RunIds \ {first} : runs'[other] = runs[other]
    BY <1>2, <1>4, <2>1
  <2>3. NewRun(TRUE).status = "queued" /\ ~Lost(NewRun(TRUE)) /\ ~Begun(NewRun(TRUE), first)
    BY NewRunFields DEF Lost, Begun
  <2>4. \A other \in RunIds \ {first} : ~Live(other)'
    BY <1>1, <1>2, <2>2, RunsMoved DEF NoneLive, Live
  <2>5. TerminalFailures' \subseteq TerminalFailures /\ TerminalFailures \subseteq RunIds
    BY <2>2, <2>3 DEF TerminalFailures, Lost
  <2>6. /\ Cardinality(TerminalFailures) \in Nat /\ Cardinality(TerminalFailures') \in Nat
        /\ Cardinality(TerminalFailures') <= Cardinality(TerminalFailures)
    BY <2>5, FewerFailures
  <2>7. Cardinality(TerminalFailures') < MaxReplacements /\ Cardinality(TerminalFailures') <= MaxReplacements
    BY <1>2, <2>6, AutomationRunsAssumption DEF BelowLimit
  <2>8. \A other \in RunIds : Begun(runs[other], other)' => task'.status # "ready"
    BY <1>1, <1>2, <2>2, <2>3, RunsMoved DEF Orderly
  <2>9. \A other \in RunIds : Lost(runs[other])' /\ runs'[other].seen = "ready" => task'.claim # other
    BY <1>1, <1>2, <2>2, <2>3, RunsMoved DEF Orderly
  <2>10. Orderly'
    BY <1>1, <1>2, <2>4, <2>7, <2>8, <2>9 DEF Orderly, BelowLimit
  <2>11. call'[w] = GoOn(c) /\ GoOn(c).at \in {"list", "each"}
    BY <1>1, <1>2, GoOnInTurn DEF Goto, IInv, Typed
  <2>12. InTurn(w, call[w])'
    BY <2>11 DEF InTurn, Starting
  <2>13. QED BY <1>1, <1>2, <2>10, <2>12, TurnStep
<1>5. QED BY <1>3, <1>4

-----------------------------------------------------------------------------
(* Runners, their agents and the rest. *)

LEMMA HeartbeatTurn ==
  ASSUME LockedOnly, IInv, KInv, OInv, NEW w \in Runners, Heartbeat(w)
  PROVE  OInv'
<1> DEFINE id == runner[w].run
           q == [runs[id] EXCEPT !.lease = stamp + 1]
           next == Locking(w, "put", id, q, stamp + 1, "renewed")
<1>1. /\ Alone(w) /\ runner[w] # Unassigned /\ MayRenew(runs[id], runner[w].claim) /\ Goto(w, next)
      /\ UNCHANGED <<task, runs>>
  BY DEF Heartbeat, Beat, Locked, Alone
<1>2. id \in RunIds /\ runs[id] \in Run /\ Orderly
  BY <1>1 DEF IInv, Known, Typed, OInv
<1>3. q.status = runs[id].status /\ q.cat = runs[id].cat /\ q.attempts = runs[id].attempts
  BY <1>2 DEF Run
<1>4. next.at = "put" /\ next.id = id /\ next.run = q /\ next.then = "renewed"
  BY LockingFields
<1> HIDE DEF q, next
<1>5. Begun(q, id) = Begun(runs[id], id) /\ Lost(q) = Lost(runs[id])
  BY <1>3, Alike
<1>6. Pending(runs[id]) /\ ~Lost(q)
  BY <1>1, <1>5 DEF MayRenew, Pending, Lost, Active
<1>7. Begun(q, id) => task.status # "ready"
  BY <1>2, <1>5 DEF Orderly
<1>8. InTurn(w, next)
  BY <1>4, <1>6, <1>7 DEF InTurn, OwnWrite, Starting
<1>9. QED BY <1>1, <1>8, HandTurn

\* A report of failure is taken only of a run that has the task.
LEMMA ReportTurn ==
  ASSUME LockedOnly, IInv, KInv, OInv, NEW w \in Runners, Report(w)
  PROVE  OInv'
<1> DEFINE id == runner[w].run
           r == runs[id]
           new(o) == IF o[1] = "completed" THEN [VerifyingCopy(r, r.seen) EXCEPT !.cat = o[2]] ELSE FailedCopy(r, o[1], o[2])
<1>1. Alone(w) /\ runner[w] # Unassigned /\ UNCHANGED <<task, runs>>
  BY DEF Report, Locked, Alone
<1>2. PICK o \in Reports(w) : \/ Accepted(r, id, o[1], runner[w].claim) /\ Goto(w, Locking(w, "put", id, new(o), 0, "durable"))
                              \/ UNCHANGED call
  BY DEF Report
<1> DEFINE next == Locking(w, "put", id, new(o), 0, "durable")
<1>3. id \in RunIds /\ r \in Run /\ Orderly /\ NoRun \notin RunIds
  BY <1>1, AutomationRunsAssumption DEF IInv, Known, Typed, OInv, RunIds
<1>4. CASE Accepted(r, id, o[1], runner[w].claim) /\ Goto(w, next)
  <2>1. next.at = "put" /\ next.id = id /\ next.run = new(o) /\ next.then = "durable"
    BY LockingFields
  <2>2. \/ o[1] = "completed" /\ new(o).status = "verifying"
        \/ o[1] # "completed" /\ new(o).cat # "exhausted"
    BY <1>3 DEF Reports, VerifyingCopy, FailedCopy, Run
  <2>3. ASSUME o[1] # "completed" PROVE Pending(r) /\ task.status # "ready"
    <3>1. r.status = "running" \/ (r.status \in {"claiming", "starting"} /\ task.claim = id)
      BY <1>4, <2>3 DEF Accepted
    <3>2. Pending(r)
      BY <3>1 DEF Pending, Active
    <3>3. CASE r.status \in {"running", "starting"}
      BY <1>3, <3>2, <3>3 DEF Begun, LiveAs, Orderly
    <3>4. CASE task.claim = id
      <4>1. task.status = "ready" => task.claim = NoRun
        BY <1>3 DEF Orderly
      <4>2. QED BY <1>3, <3>2, <3>4, <4>1
    <3>5. QED BY <3>1, <3>2, <3>3, <3>4
  <2> HIDE DEF new, next
  <2>4. OwnWrite(next)
    <3>1. CASE new(o).status = "verifying"
      BY <2>1, <3>1, NotLive DEF OwnWrite, Lost
    <3>2. CASE o[1] # "completed" /\ new(o).cat # "exhausted"
      BY <2>1, <2>3, <3>2 DEF OwnWrite, Lost
    <3>3. QED BY <2>2, <3>1, <3>2
  <2>5. InTurn(w, next)
    BY <2>1, <2>4 DEF InTurn, Starting
  <2>6. QED BY <1>1, <1>4, <2>5, HandTurn
<1>5. CASE UNCHANGED call
  BY <1>1, <1>5, CallsUnmoved
<1>6. QED BY <1>2, <1>4, <1>5

\* A restart ends all calls and leaves what the runs and the task are.
LEMMA RestartTurn ==
  ASSUME IInv, OInv, Restart
  PROVE  OInv'
<1>1. (\A w \in Runners : call'[w].at = "idle") /\ UNCHANGED task
  BY DEF Restart, Callers, Idle, Step
<1>2. ASSUME NEW id \in RunIds
      PROVE  /\ runs'[id].status = runs[id].status /\ runs'[id].cat = runs[id].cat
             /\ runs'[id].attempts = runs[id].attempts /\ runs'[id].seen = runs[id].seen
  BY DEF Restart, IInv, Typed, Run
<1>3. ASSUME NEW id \in RunIds
      PROVE  /\ Live(id)' <=> Live(id)
             /\ Begun(runs[id], id)' <=> Begun(runs[id], id)
             /\ Lost(runs[id])' <=> Lost(runs[id])
  <2>1. LiveAs(runs'[id], id) = Live(id) /\ Begun(runs'[id], id) = Begun(runs[id], id) /\ Lost(runs'[id]) = Lost(runs[id])
    BY <1>2, Alike DEF Live
  <2>2. QED BY <1>1, <2>1, RunsMoved
<1>4. TerminalFailures' = TerminalFailures
  BY <1>2 DEF TerminalFailures
<1>5. Orderly'
  BY <1>1, <1>2, <1>3, <1>4 DEF OInv, Orderly, BelowLimit
<1>6. QED BY <1>1, <1>5 DEF OInv

\* What happens outside the calls.
LEMMA OutsideTurn ==
  ASSUME NoRequeue, IInv, KInv, OInv,
         (\E w \in Runners : AgentMoves(w) \/ RunnerDies(w)) \/ Reviewed \/ Operator \/ TimePasses \/ UNCHANGED vars
  PROVE  OInv'
<1>1. UNCHANGED <<runs, call>> /\ task \in Task
  BY DEF AgentMoves, RunnerDies, Reviewed, Operator, TimePasses, vars, IInv, Typed
<1>2. ASSUME NEW w \in Runners, AgentMoves(w)
      PROVE  task'.status # "ready" /\ (task'.claim = task.claim \/ task'.claim = runner[w].run)
  BY <1>1, <1>2 DEF AgentMoves, Changed, Task
<1>3. CASE Reviewed \/ Operator
  <2>1. OperatorMoves \subseteq {"cancel"}
    BY DEF NoRequeue
  <2>2. task'.status # "ready" /\ task'.claim = task.claim
    BY <1>1, <1>3, <2>1 DEF Reviewed, Operator, Changed, Task
  <2>3. QED BY <1>1, <2>2, CallsUnmoved
<1>4. ASSUME NEW w \in Runners, AgentMoves(w) PROVE OInv'
  <2>1. task'.status # "ready" /\ \A id \in RunIds : task'.claim = id => task.claim = id \/ ~Free(id)
    BY <1>2, <1>4 DEF Free
  <2>2. QED BY <1>1, <2>1, CallsUnmoved
<1>5. CASE UNCHANGED task
  BY <1>1, <1>5, CallsUnmoved
<1>6. (\E w \in Runners : AgentMoves(w)) \/ Reviewed \/ Operator \/ UNCHANGED task
  BY DEF RunnerDies, TimePasses, vars
<1>7. QED BY <1>3, <1>4, <1>5, <1>6

-----------------------------------------------------------------------------
(* One run at a time has the task. *)

LEMMA InitOrderly == ASSUME Init PROVE OInv
<1>1. \A id \in RunIds : runs[id].status = "absent"
  BY DEF Init, Absent
<1>2. \A id \in RunIds : ~Live(id) /\ ~Begun(runs[id], id) /\ ~Lost(runs[id])
  BY <1>1 DEF Live, LiveAs, Begun, Pending, Recoverable, Lost, Active
<1>3. TerminalFailures = {}
  BY <1>1 DEF TerminalFailures
<1>4. Cardinality(TerminalFailures) = 0
  BY <1>3, FS_EmptySet
<1>5. Cardinality(TerminalFailures) <= MaxReplacements
  BY <1>4, AutomationRunsAssumption
<1>6. task.claim = NoRun
  BY DEF Init, NewTask
<1>7. \A w \in Runners : call[w].at = "idle"
  BY DEF Init, Callers, Idle, Step
<1>8. QED BY <1>2, <1>5, <1>6, <1>7 DEF OInv, Orderly

LEMMA InitUnmarked == ASSUME Init PROVE Unmarked
BY DEF Init, Unmarked

LEMMA NextUnmarked ==
  ASSUME NoRequeue, Unmarked, [Next]_vars
  PROVE  Unmarked'
<1>1. Refresh(marked) \/ UNCHANGED <<marked, forgiven>> => Unmarked'
  BY DEF Refresh, Unmarked
<1>2. ASSUME NEW p \in Callers, Continue(p) PROVE Unmarked'
  <2>1. CASE Put(p)
    BY <2>1 DEF Put, Unmarked
  <2>2. CASE ~Put(p)
    BY <1>1, <1>2, <2>2 DEF Continue, List, Each, Verify, Close, Recheck, Release, Queue, Create, Block
  <2>3. QED BY <2>1, <2>2
<1>3. ASSUME NEW w \in Runners, ContinueRunner(w) PROVE Unmarked'
  <2>1. w \in Callers
    BY DEF Callers
  <2>2. QED BY <1>1, <1>2, <1>3, <2>1 DEF ContinueRunner, Claim, Start, Grant, Reply, Renewed, Durable
<1>4. ASSUME NEW w \in Runners, BeginClaim(w) \/ Heartbeat(w) \/ AgentMoves(w) \/ Report(w) \/ RunnerDies(w) PROVE Unmarked'
  BY <1>1, <1>4 DEF BeginClaim, Heartbeat, Beat, AgentMoves, Report, RunnerDies
<1>5. ASSUME NEW l \in Clients, BeginList(l) \/ Submit(l) \/ Continue(l) PROVE Unmarked'
  <2>1. l \in Callers
    BY DEF Callers
  <2>2. QED BY <1>1, <1>2, <1>5, <2>1 DEF BeginList, Submit
<1>6. CASE Operator
  <2>1. PICK move \in OperatorMoves : Refresh(marked \/ move = "rerun")
    BY <1>6 DEF Operator
  <2>2. (marked \/ move = "rerun") = FALSE
    BY <2>1 DEF NoRequeue, Unmarked
  <2>3. QED BY <2>1, <2>2 DEF Refresh, Unmarked
<1>7. CASE Reviewed \/ TimePasses \/ Restart \/ (\E p \in Callers : Cut(p)) \/ UNCHANGED vars
  BY <1>1, <1>7 DEF Reviewed, TimePasses, Restart, Cut, vars
<1>8. QED BY <1>3, <1>4, <1>5, <1>6, <1>7 DEF Next

LEMMA NextOrderly ==
  ASSUME LockedOnly, NoRequeue, IInv, KInv, Unmarked, OInv, [Next]_vars
  PROVE  OInv'
<1>1. ASSUME NEW w \in Runners, BeginClaim(w) \/ ContinueRunner(w) PROVE OInv'
  BY <1>1, ListTurn, EachTurn, PutTurn, VerifyTurn, CloseTurn, RecheckTurn, ReleaseTurn, QueueTurn,
     CreateTurn, BlockTurn, ClaimTurn, StartTurn, GrantTurn, QuietTurn
     DEF ContinueRunner, Continue
<1>2. ASSUME NEW w \in Runners, Heartbeat(w) \/ Report(w) PROVE OInv'
  BY <1>2, HeartbeatTurn, ReportTurn
<1>3. CASE (\E w \in Runners : AgentMoves(w) \/ RunnerDies(w)) \/ Reviewed \/ Operator \/ TimePasses \/ UNCHANGED vars
  BY <1>3, OutsideTurn
<1>4. CASE Restart
  BY <1>4, RestartTurn
<1>5. ASSUME NEW p \in Callers, Cut(p) PROVE OInv'
  BY <1>5, CutTurn DEF Callers, LockedOnly
<1>6. QED BY <1>1, <1>2, <1>3, <1>4, <1>5 DEF Next, LockedOnly

\* At most one of the runs that are live, so at most one that starts or runs.
LEMMA OneStarted ==
  ASSUME OInv
  PROVE  OneActiveOwner
<1> DEFINE S == {id \in RunIds : runs[id].status \in {"starting", "running"}}
<1>1. \A id, other \in S : id = other
  BY DEF OInv, Orderly, Live, LiveAs, Pending, Active
<1>2. CASE S = {}
  BY <1>2, FS_EmptySet DEF OneActiveOwner
<1>3. CASE S # {}
  <2>1. PICK id \in S : TRUE
    BY <1>3
  <2>2. S = {id}
    BY <1>1, <2>1
  <2>3. Cardinality(S) = 1
    BY <2>2, FS_Singleton
  <2>4. QED BY <2>3 DEF OneActiveOwner
<1>4. QED BY <1>2, <1>3

\* The service's own are no more than all runs that failed for good.
LEMMA FewFailures ==
  ASSUME OInv
  PROVE  ReplacementsCapped
<1> DEFINE T == {id \in Counted(forgiven) : runs[id].automatic}
<1>1. TerminalFailures \subseteq RunIds /\ T \subseteq TerminalFailures
  BY DEF Counted, TerminalFailures
<1>2. Cardinality(T) <= Cardinality(TerminalFailures) /\ Cardinality(T) \in Nat /\ Cardinality(TerminalFailures) \in Nat
  BY <1>1, FewerFailures
<1>3. Cardinality(TerminalFailures) <= MaxReplacements /\ MaxReplacements \in Nat
  BY AutomationRunsAssumption DEF OInv, Orderly
<1>4. QED BY <1>2, <1>3 DEF ReplacementsCapped

\* A task has at most one run that starts or runs, for any number of runners, restarts, lost
\* answers and expired leases, as long as runs change only under claimMu and no operator
\* offers a blocked task again: an abandoned run is stored as timed out before its task is
\* released, and a run is queued only when no other may be started, retried or given back its
\* task (requeueAbandonedRunningRun, queueReadyDependentAutomation, CompleteAttempt).
THEOREM OneOwner ==
  ASSUME LockedOnly, NoRequeue
  PROVE  Spec => []OneActiveOwner
<1>1. Init => IInv /\ Markers /\ KInv /\ Unmarked /\ OInv
  BY InitSound, InitKept, InitUnmarked, InitOrderly
<1>2. IInv /\ Markers /\ KInv /\ Unmarked /\ OInv /\ [Next]_vars => (IInv /\ Markers /\ KInv /\ Unmarked /\ OInv)'
  BY NextSound, NextKept, NextUnmarked, NextOrderly
<1>3. OInv => OneActiveOwner
  BY OneStarted
<1>4. QED BY <1>1, <1>2, <1>3, PTL DEF Spec

\* Under the same conditions no more runs fail for good than replacements are allowed, for
\* any cap, although the check that stops replacements (replacementRetryLimitReached) is made
\* when a run is queued and the failures are recorded later, one attempt after the other.
THEOREM ReplacementsStop ==
  ASSUME LockedOnly, NoRequeue
  PROVE  Spec => []ReplacementsCapped
<1>1. Init => IInv /\ Markers /\ KInv /\ Unmarked /\ OInv
  BY InitSound, InitKept, InitUnmarked, InitOrderly
<1>2. IInv /\ Markers /\ KInv /\ Unmarked /\ OInv /\ [Next]_vars => (IInv /\ Markers /\ KInv /\ Unmarked /\ OInv)'
  BY NextSound, NextKept, NextUnmarked, NextOrderly
<1>3. OInv => ReplacementsCapped
  BY FewFailures
<1>4. QED BY <1>1, <1>2, <1>3, PTL DEF Spec
-----------------------------------------------------------------------------
(* Runs succeed one another, and a run that is over stays over. *)

Over(r) == r.status # "absent" /\ ~Pending(r)

\* A run that has ended, and may not be tried again, is never started or queued again.
OverIsOver == [][\A id \in RunIds : Over(runs[id]) => Over(runs'[id])]_vars

Waiting(r) == Pending(r) /\ r.status # "running"

\* The start of a run that was stored as r.
Starts(r, q) == Waiting(r) /\ q.status = "running" /\ q.attempts = r.attempts + 1

\* What else may be written of it.
Follows(r, q) ==
  /\ q.attempts = r.attempts
  /\ Pending(q) => /\ Pending(r)
                   /\ q.status = "running" => r.status = "running"
                   /\ r.status = "running" => q.status = "running" \/ CanRetry(q)

\* The write of q, and the step then after it.
Written(r, q, then) ==
  IF then = "reply" THEN Starts(r, q) ELSE Follows(r, q) /\ (then \in Starting => Waiting(q))

Advances(r, q) == r.status # "absent" /\ q.status # "absent" /\ (Follows(r, q) \/ Starts(r, q))

Stands(id) == id \in RunIds => runs[id].status # "absent"

\* What call c starts is waiting, and it writes what may be written.
Going(c) ==
  /\ Stands(c.id)
  /\ c.at \in Starting => Waiting(c.run)
  /\ c.at = "put" => Written(runs[c.id], c.run, c.then)

Unstarted == \A id \in RunIds : runs[id].status = "absent" => runs[id].attempts = 0

EInv == Unstarted /\ \A w \in Runners : call[w].at # "idle" => Going(call[w])

\* What a phase decides of the stored run id.
GoingDo(id, d) ==
  /\ d.at \in Starting => Waiting(d.run)
  /\ d.at = "put" => Written(runs[id], d.run, d.then)

\* A step of the caller that holds claimMu.
LEMMA GoingStep ==
  ASSUME IInv, EInv, NEW w \in Runners, Alone(w), NEW d, Goto(w, d), d.at # "idle" => Going(call[w])', Unstarted'
  PROVE  EInv'
<1>1. w \in Callers /\ call'[w] = d /\ \A v \in Runners \ {w} : call'[v] = call[v] /\ call'[v].at = "idle"
  BY DEF IInv, Typed, Goto, Callers, Alone
<1>2. QED BY <1>1 DEF EInv

\* Only the stored runs matter to what a call has in hand.
LEMMA GoingMoved ==
  ASSUME UNCHANGED runs, NEW d, NEW v, call'[v] = d, Going(d)
  PROVE  Going(call[v])'
BY DEF Going, Stands, Written, Starts, Follows, Waiting, Pending, Recoverable, CanRetry

LEMMA GoingHand ==
  ASSUME IInv, EInv, NEW w \in Runners, Alone(w), NEW d, Goto(w, d), d.at # "idle" => Going(d), UNCHANGED runs
  PROVE  EInv'
<1>1. call'[w] = d
  BY DEF IInv, Typed, Goto, Callers
<1>2. d.at # "idle" => Going(call[w])'
  BY <1>1, GoingMoved
<1>3. Unstarted'
  BY DEF EInv, Unstarted
<1>4. QED BY <1>2, <1>3, GoingStep

\* Nobody starts a call.
LEMMA CallsStay ==
  ASSUME EInv, UNCHANGED runs, \A w \in Runners : call'[w].at # "idle" => call'[w] = call[w]
  PROVE  EInv'
<1>1. ASSUME NEW w \in Runners, call'[w].at # "idle" PROVE Going(call[w])'
  BY <1>1, GoingMoved DEF EInv
<1>2. QED BY <1>1 DEF EInv, Unstarted

\* A call that neither writes nor starts a run.
LEMMA GoingQuiet ==
  ASSUME IInv, EInv, NEW w \in Runners, Alone(w), NEW d, Goto(w, d), d.at \notin Starting \cup {"put"},
         d.at # "idle" => Stands(d.id), UNCHANGED runs
  PROVE  EInv'
BY GoingHand DEF Going

LEMMA GoOnGoing ==
  ASSUME NEW c
  PROVE  Going(GoOn(c)) /\ Stands(GoOn(c).id) /\ GoOn(c).at \in {"list", "each"}
<1>1. GoOn(c).id = NoRun /\ GoOn(c).at \in {"list", "each"}
  BY DEF GoOn, AtPhase, Step
<1>2. NoRun \notin RunIds
  BY AutomationRunsAssumption DEF RunIds
<1>3. QED BY <1>1, <1>2 DEF Going, Stands, Starting

\* Runs that are written as they end are not pending.
LEMMA EndedCopies ==
  ASSUME NEW r \in Run, NEW s
  PROVE  \A q \in {VerifyingCopy(r, s), CompletedCopy(r, s), TerminalCopy(r, s), InterruptedCopy(r, s),
                    [FailedCopy(r, "failed", "exhausted") EXCEPT !.seen = s, !.recovery = FALSE],
                    [FailedCopy(r, "blocked", "other") EXCEPT !.seen = s, !.recovery = FALSE],
                    FailedCopy(r, "policy_denied", "task_not_ready")} :
           ~Pending(q) /\ q.attempts = r.attempts
<1>1. \A q \in {VerifyingCopy(r, s), CompletedCopy(r, s), InterruptedCopy(r, s), FailedCopy(r, "policy_denied", "task_not_ready")} :
        q.status \in {"verifying", "completed", "timeout", "policy_denied"} /\ q.attempts = r.attempts
  BY DEF VerifyingCopy, CompletedCopy, InterruptedCopy, FailedCopy, Run
<1>2. LET q == TerminalCopy(r, s)
      IN  q.attempts = r.attempts /\ (q.status = "cancelled" \/ (q.status \in {"blocked", "failed"} /\ q.cat # "recoverable"))
  BY DEF TerminalCopy, Run
<1>3. LET q == [FailedCopy(r, "failed", "exhausted") EXCEPT !.seen = s, !.recovery = FALSE]
      IN  q.attempts = r.attempts /\ q.status = "failed" /\ q.cat = "exhausted"
  BY DEF FailedCopy, Run
<1>4. LET q == [FailedCopy(r, "blocked", "other") EXCEPT !.seen = s, !.recovery = FALSE]
      IN  q.attempts = r.attempts /\ q.status = "blocked" /\ q.cat = "other"
  BY DEF FailedCopy, Run
<1>5. QED BY <1>1, <1>2, <1>3, <1>4 DEF Pending, Recoverable, Active

LEMMA PuttingGoing ==
  ASSUME NEW id \in RunIds, NEW r \in Run, r = runs[id], NEW s, NEW then \in {"next", "verify"}, NEW q,
         \/ q = VerifyingCopy(r, s)
         \/ q = CompletedCopy(r, s)
         \/ q = TerminalCopy(r, s)
         \/ q = [r EXCEPT !.seen = s]
  PROVE  GoingDo(id, Do("put", q, s, then))
<1>1. Follows(r, q)
  <2>1. CASE q = [r EXCEPT !.seen = s]
    <3>1. q.status = r.status /\ q.cat = r.cat /\ q.attempts = r.attempts
      BY <2>1 DEF Run
    <3>2. QED BY <3>1 DEF Follows, Pending, Recoverable, CanRetry
  <2>2. CASE q \in {VerifyingCopy(r, s), CompletedCopy(r, s), TerminalCopy(r, s)}
    <3>1. /\ ~Pending(VerifyingCopy(r, s)) /\ VerifyingCopy(r, s).attempts = r.attempts
          /\ ~Pending(CompletedCopy(r, s)) /\ CompletedCopy(r, s).attempts = r.attempts
          /\ ~Pending(TerminalCopy(r, s)) /\ TerminalCopy(r, s).attempts = r.attempts
      BY EndedCopies
    <3>2. QED BY <2>2, <3>1 DEF Follows
  <2>3. QED BY <2>1, <2>2
<1>2. QED BY <1>1, DoFields DEF GoingDo, Written, Starting

LEMMA VerifyingGoing ==
  ASSUME NEW id \in RunIds, NEW r \in Run, r = runs[id]
  PROVE  GoingDo(id, VerifyingStep(r, task.status))
<1> DEFINE s == task.status
           d == VerifyingStep(r, s)
<1>1. \/ d = Nothing(r, s) \/ d = Do("close", r, s, "next")
      \/ \E q \in {CompletedCopy(r, s), TerminalCopy(r, s), [r EXCEPT !.seen = s]} : d = Do("put", q, s, "next")
  BY DEF VerifyingStep
<1>2. \A at \in {"pass", "close"} : GoingDo(id, Do(at, r, s, "next"))
  BY DoFields DEF GoingDo, Starting
<1>3. QED BY <1>1, <1>2, PuttingGoing DEF Nothing

LEMMA DecideGoing ==
  ASSUME NEW id \in RunIds, runs[id] \in Run, NEW ph, Picks(ph, runs[id])
  PROVE  GoingDo(id, Decide(ph, id, runs[id]))
<1> DEFINE r == runs[id]
           s == task.status
           d == Decide(ph, id, r)
<1>1. GoingDo(id, Nothing(r, s)) /\ \A at \in {"block", "recheck", "release"} : GoingDo(id, Do(at, r, s, "next"))
  BY DoFields DEF GoingDo, Starting
<1>2. ASSUME Waiting(r), NEW at \in Starting PROVE GoingDo(id, Do(at, r, s, "next"))
  BY <1>2, DoFields DEF GoingDo, Starting
<1>3. CASE ph = "starting"
  <2>1. Waiting(r)
    BY <1>3 DEF Picks, Waiting, Pending, Active
  <2>2. d = StartingStep(id, r, s)
    BY <1>3 DEF Decide
  <2>3. d = Nothing(r, s) \/ \E at \in Starting : d = Do(at, r, s, "next")
    BY <2>2 DEF StartingStep, Starting
  <2>4. QED BY <1>1, <1>2, <2>1, <2>3
<1>4. CASE ph = "running"
  <2>1. d = RunningStep(r, s)
    BY <1>4 DEF Decide
  <2>2. \/ d = Nothing(r, s) \/ d = Do("recheck", r, s, "next")
        \/ \E then \in {"next", "verify"}, q \in {VerifyingCopy(r, s), CompletedCopy(r, s), TerminalCopy(r, s), [r EXCEPT !.seen = s]} :
             d = Do("put", q, s, then)
    BY <2>1 DEF RunningStep
  <2>3. QED BY <1>1, <2>2, PuttingGoing
<1>5. CASE ph = "verifying"
  BY <1>5, VerifyingGoing DEF Decide
<1>6. CASE ph \in {"interrupted", "recoverable"}
  <2>1. d = ProgressedStep(id, r, s)
    BY <1>6 DEF Decide
  <2>2. \/ d = Nothing(r, s)
        \/ \E q \in {VerifyingCopy(r, s), CompletedCopy(r, s), TerminalCopy(r, s)}, then \in {"next", "verify"} :
             d = Do("put", q, s, then)
    BY <2>1 DEF ProgressedStep
  <2>3. QED BY <1>1, <2>2, PuttingGoing
<1>7. CASE ph \in {"exhausted", "repair"}
  <2>1. d = Nothing(r, s) \/ d = Do("release", r, s, "next")
    BY <1>7 DEF Decide
  <2>2. QED BY <1>1, <2>1
<1>8. CASE ph = "recover"
  <2>1. Recoverable(r) /\ d = RecoverStep(id, r, s)
    BY <1>8 DEF Picks, Recoverable, Decide
  <2>2. \/ d = Nothing(r, s)
        \/ CanRetry(r) /\ \E at \in Starting : d = Do(at, r, s, "next")
    BY <2>1 DEF RecoverStep, Starting
  <2>3. QED BY <1>1, <1>2, <2>1, <2>2 DEF Waiting, Pending, Recoverable
<1>9. CASE ph = "queued"
  <2>1. r.status = "queued" /\ d = PrepareStep(r, s)
    BY <1>9 DEF Picks, Decide
  <2>2. ASSUME NEW q, Follows(r, q), NEW then \in {"next", "claim"}, then = "claim" => Waiting(q)
        PROVE  GoingDo(id, Do("put", q, s, then))
    BY <2>2, DoFields DEF GoingDo, Written, Starting
  <2>3. Follows(r, FailedCopy(r, "policy_denied", "task_not_ready"))
    BY EndedCopies DEF Follows
  <2>4. LET q == [r EXCEPT !.status = "claiming", !.seen = s] IN Follows(r, q) /\ Waiting(q)
    BY <2>1 DEF Run, Follows, Waiting, Pending, Active
  <2>5. QED BY <1>1, <2>1, <2>2, <2>3, <2>4 DEF PrepareStep
<1>10. ph \in {"starting", "running", "verifying", "interrupted", "recoverable", "exhausted", "repair", "recover", "queued"}
  BY DEF Picks
<1>11. QED BY <1>3, <1>4, <1>5, <1>6, <1>7, <1>8, <1>9, <1>10

\* The lists of a call, and the steps that end it.
LEMMA QuietGoing ==
  ASSUME LockedOnly, IInv, KInv, EInv, NEW w \in Runners,
         BeginClaim(w) \/ List(w) \/ Queue(w) \/ Reply(w) \/ Renewed(w) \/ Durable(w)
  PROVE  EInv'
<1> DEFINE c == call[w]
<1>1. UNCHANGED runs
  BY DEF BeginClaim, List, Queue, Reply, Renewed, Durable
<1>2. Idle.at = "idle" /\ (\A n : AtPhase(n).at = "list" /\ AtPhase(n).id = NoRun) /\ Stands(NoRun)
  BY AutomationRunsAssumption DEF Idle, AtPhase, Step, Stands, RunIds
<1>3. CASE BeginClaim(w)
  BY <1>1, <1>2, <1>3, GoingQuiet DEF BeginClaim, Locked, Alone, Starting
<1>4. CASE List(w)
  <2>1. PICK d : Goto(w, d) /\ d.at \in {"idle", "queue", "each"} /\ (d.at # "idle" => d.id = NoRun)
    <3> DEFINE queueing(n) == [Step("queue", n, {}, NoRun, Absent, task.status, 0, "next") EXCEPT !.pardoned = forgiven]
               looking(n, items) == Step("each", n, items, NoRun, Absent, "none", 0, "next")
    <3>1. Goto(w, Idle) \/ \E n, items : Goto(w, queueing(n)) \/ Goto(w, looking(n, items))
      BY <1>4 DEF List
    <3>2. \A n, items : /\ queueing(n).at = "queue" /\ queueing(n).id = NoRun
                        /\ looking(n, items).at = "each" /\ looking(n, items).id = NoRun
      BY DEF Step
    <3> HIDE DEF queueing, looking
    <3>3. QED BY <1>2, <3>1, <3>2
  <2>2. Alone(w)
    BY <1>4, HandKnown DEF List
  <2>3. QED BY <1>1, <1>2, <2>1, <2>2, GoingQuiet DEF Starting
<1>5. CASE Queue(w) \/ Reply(w) \/ Renewed(w) \/ Durable(w)
  <2>1. c \in Call /\ Alone(w) /\ Stands(c.id)
    BY <1>5, CallHolds DEF Queue, Reply, Renewed, Durable, EInv, Going
  <2>2. ASSUME NEW d, Goto(w, d), d.at \in {"idle", "list", "each", "block", "create", "verify"},
               d.at # "idle" => Stands(d.id)
        PROVE EInv'
    BY <1>1, <2>1, <2>2, GoingQuiet DEF Starting
  <2> DEFINE blocking == [c EXCEPT !.at = "block"]
             creating == [c EXCEPT !.at = "create"]
             verifying == [c EXCEPT !.at = "verify", !.run = runs[c.id]]
  <2>3. Goto(w, GoOn(c)) \/ Goto(w, blocking) \/ Goto(w, creating) \/ Goto(w, verifying) \/ Goto(w, Idle)
    BY <1>5 DEF Queue, Reply, Renewed, Durable
  <2>4. /\ blocking.at = "block" /\ creating.at = "create" /\ verifying.at = "verify"
        /\ blocking.id = c.id /\ creating.id = c.id /\ verifying.id = c.id
    BY <2>1 DEF Call
  <2> HIDE DEF blocking, creating, verifying
  <2>5. QED BY <1>2, <2>1, <2>2, <2>3, <2>4, GoOnGoing
<1>6. QED BY <1>3, <1>4, <1>5

LEMMA EachGoing ==
  ASSUME LockedOnly, IInv, KInv, EInv, NEW w \in Runners, Each(w)
  PROVE  EInv'
<1> DEFINE c == call[w]
<1>1. c.at = "each" /\ UNCHANGED runs
  BY DEF Each
<1>2. PICK item \in c.todo :
        LET d    == Decide(Phase(w), item[1], item[2])
            rest == [c EXCEPT !.todo = @ \ {item}]
        IN  Goto(w, IF d.at = "pass" THEN GoOn(rest)
                    ELSE [rest EXCEPT !.at = d.at, !.id = item[1], !.run = d.run, !.seen = d.seen, !.then = d.then])
  BY DEF Each
<1> DEFINE d    == Decide(Phase(w), item[1], item[2])
           rest == [c EXCEPT !.todo = @ \ {item}]
           next == [rest EXCEPT !.at = d.at, !.id = item[1], !.run = d.run, !.seen = d.seen, !.then = d.then]
           id   == item[1]
<1>3. c \in Call /\ Alone(w) /\ w \in Callers /\ id \in RunIds /\ item[2] = runs[id] /\ runs[id] \in Run
  BY <1>1, HandKnown DEF InHand
<1>4. Picks(Phase(w), runs[id])
  BY <1>1, <1>3, CallKnown DEF SoundCall, Phase
<1>5. GoingDo(id, d)
  BY <1>3, <1>4, DecideGoing
<1>6. Stands(id)
  BY <1>4 DEF Picks, Stands, Active
<1> HIDE DEF d
<1>7. next.at = d.at /\ next.run = d.run /\ next.then = d.then /\ next.id = id
  BY <1>3 DEF Call
<1> HIDE DEF next, rest
<1>8. Going(next) /\ Going(GoOn(rest))
  BY <1>5, <1>6, <1>7, GoOnGoing DEF GoingDo, Going
<1>9. QED BY <1>1, <1>2, <1>3, <1>8, GoingHand DEF d, next, rest

LEMMA VerifyGoing ==
  ASSUME LockedOnly, IInv, KInv, EInv, NEW w \in Runners, Verify(w)
  PROVE  EInv'
<1> DEFINE c == call[w]
           d == VerifyingStep(c.run, task.status)
           next == [c EXCEPT !.at = d.at, !.run = d.run, !.seen = d.seen, !.then = d.then]
<1>1. c.at = "verify" /\ UNCHANGED runs /\ (Goto(w, GoOn(c)) \/ Goto(w, next))
  BY DEF Verify
<1>2. c \in Call /\ Alone(w) /\ c.id \in RunIds /\ c.run = runs[c.id] /\ c.run \in Run /\ Stands(c.id)
  BY <1>1, CallHolds DEF Engaged, EInv, Going
<1>3. GoingDo(c.id, d)
  BY <1>2, VerifyingGoing
<1> HIDE DEF d
<1>4. next.at = d.at /\ next.run = d.run /\ next.then = d.then /\ next.id = c.id
  BY <1>2 DEF Call
<1> HIDE DEF next
<1>5. Going(next)
  BY <1>2, <1>3, <1>4 DEF GoingDo, Going
<1>6. QED BY <1>1, <1>2, <1>5, GoOnGoing, GoingHand

\* Runs are written as they end.
LEMMA EndingGoing ==
  ASSUME LockedOnly, IInv, KInv, EInv, NEW w \in Runners, Close(w) \/ Recheck(w) \/ Release(w) \/ Block(w)
  PROVE  EInv'
<1> DEFINE c == call[w]
<1>1. c.at \notin {"idle", "list"} /\ UNCHANGED runs
  BY DEF Close, Recheck, Release, Block
<1>2. c \in Call /\ Alone(w) /\ c.run \in Run /\ Fail(w).at = "idle" /\ c.then = "next" /\ Stands(c.id)
  BY <1>1, CallHolds, CallKnown DEF Callers, SoundCall, Close, Recheck, Release, Block, EInv, Going
<1>3. ASSUME NEW q, NEW then \in {"next", "release", "queue"}, ~Pending(q), q.attempts = runs[c.id].attempts,
             NEW d, Goto(w, d), d.at = "put", d.run = q, d.then = then, d.id = c.id
      PROVE  EInv'
  <2>1. Going(d)
    BY <1>2, <1>3 DEF Going, Written, Follows, Starting
  <2>2. QED BY <1>1, <1>2, <1>3, <2>1, GoingHand
<1>4. ASSUME NEW d, Goto(w, d), d.at \in {"idle", "queue"}, d.at = "queue" => d.id = c.id PROVE EInv'
  BY <1>1, <1>2, <1>4, GoingQuiet DEF Starting
<1>5. ASSUME Goto(w, GoOn(c)) PROVE EInv'
  BY <1>1, <1>2, <1>5, GoOnGoing, GoingHand
<1>6. CASE Close(w)
  <2> DEFINE q == CompletedCopy(c.run, "done")
             next == [c EXCEPT !.at = "put", !.run = q, !.seen = "done"]
  <2>1. (Goto(w, next) \/ Goto(w, Fail(w))) /\ c.run = runs[c.id]
    BY <1>6, CallHolds DEF Close, Engaged
  <2>2. ~Pending(q) /\ q.attempts = c.run.attempts
    BY <1>2, EndedCopies
  <2> HIDE DEF q
  <2>3. next.at = "put" /\ next.run = q /\ next.then = "next" /\ next.id = c.id
    BY <1>2 DEF Call
  <2> HIDE DEF next
  <2>4. QED BY <1>2, <1>3, <1>4, <2>1, <2>2, <2>3
<1>7. CASE Recheck(w)
  <2> DEFINE q == InterruptedCopy(runs[c.id], c.seen)
             next == [c EXCEPT !.at = "put", !.run = q, !.then = "release"]
  <2>1. (Goto(w, next) \/ Goto(w, GoOn(c))) /\ runs[c.id] \in Run
    BY <1>7, CallHolds DEF Recheck, Engaged
  <2>2. ~Pending(q) /\ q.attempts = runs[c.id].attempts
    BY <2>1, EndedCopies
  <2> HIDE DEF q
  <2>3. next.at = "put" /\ next.run = q /\ next.then = "release" /\ next.id = c.id
    BY <1>2 DEF Call
  <2> HIDE DEF next
  <2>4. QED BY <1>3, <1>5, <2>1, <2>2, <2>3
<1>8. CASE Release(w)
  <2> DEFINE s == Released(c.id).status
             q == [FailedCopy(c.run, "failed", "exhausted") EXCEPT !.seen = s, !.recovery = FALSE]
             failing == [c EXCEPT !.at = "put", !.seen = s, !.pardoned = forgiven', !.then = "queue", !.run = q]
             queueing == [c EXCEPT !.at = "queue", !.seen = s, !.pardoned = forgiven', !.run = Absent]
  <2>1. /\ Goto(w, failing) \/ Goto(w, queueing) \/ Goto(w, GoOn(c)) \/ Goto(w, Fail(w))
        /\ c.run = runs[c.id]
    BY <1>8, CallHolds DEF Release, Engaged
  <2>2. ~Pending(q) /\ q.attempts = c.run.attempts
    BY <1>2, EndedCopies
  <2> HIDE DEF q, s
  <2>3. /\ failing.at = "put" /\ failing.run = q /\ failing.then = "queue" /\ queueing.at = "queue"
        /\ failing.id = c.id /\ queueing.id = c.id
    BY <1>2 DEF Call
  <2> HIDE DEF failing, queueing
  <2>4. QED BY <1>2, <1>3, <1>4, <1>5, <2>1, <2>2, <2>3
<1>9. CASE Block(w)
  <2> DEFINE q == [FailedCopy(c.run, "blocked", "other") EXCEPT !.seen = "blocked", !.recovery = FALSE]
             next == [c EXCEPT !.at = "put", !.run = q]
  <2>1. (Phase(w) = "queued" /\ Goto(w, next)) \/ Goto(w, GoOn(c)) \/ Goto(w, Fail(w))
    BY <1>9 DEF Block
  <2>2. ~Pending(q) /\ q.attempts = c.run.attempts
    BY <1>2, EndedCopies
  <2>3. Phase(w) = "queued" => c.run = runs[c.id]
    BY <1>2, <1>9, CallHolds DEF Block, InHand, Phase
  <2> HIDE DEF q
  <2>4. next.at = "put" /\ next.run = q /\ next.then = "next" /\ next.id = c.id
    BY <1>2 DEF Call
  <2> HIDE DEF next
  <2>5. QED BY <1>2, <1>3, <1>4, <1>5, <2>1, <2>2, <2>3, <2>4
<1>10. QED BY <1>6, <1>7, <1>8, <1>9

\* A run that is being started is waiting as it is stored.
LEMMA StartingGoing ==
  ASSUME LockedOnly, IInv, KInv, EInv, NEW w \in Runners, Claim(w) \/ Start(w) \/ Grant(w)
  PROVE  EInv'
<1> DEFINE c == call[w]
           failure == FailedCopy(c.run, "blocked", "recoverable")
           refused == [c EXCEPT !.at = "put", !.run = failure]
<1>1. c.at \in Starting /\ UNCHANGED runs
  BY DEF Claim, Start, Grant, Starting
<1>2. /\ c \in Call /\ Alone(w) /\ c.run \in Run /\ c.run = runs[c.id] /\ Waiting(c.run) /\ c.then = "next"
      /\ Stands(c.id)
  BY <1>1, CallHolds, CallKnown DEF Callers, SoundCall, EInv, Going, Engaged, Starting
<1>3. Idle.at = "idle"
  BY DEF Idle, Step
<1>4. ASSUME NEW d, Goto(w, d), d.at = "put", d.id = c.id, Written(c.run, d.run, d.then) PROVE EInv'
  <2>1. Going(d)
    BY <1>2, <1>4 DEF Going, Starting
  <2>2. QED BY <1>1, <1>2, <1>4, <2>1, GoingHand
<1>5. ASSUME NEW d, Goto(w, d), d.at \in Starting, d.run = c.run, d.id = c.id PROVE EInv'
  <2>1. Going(d)
    BY <1>2, <1>5 DEF Going, Starting
  <2>2. QED BY <1>1, <1>2, <1>5, <2>1, GoingHand
<1>6. ASSUME Goto(w, GoOn(c)) \/ Goto(w, Idle) PROVE EInv'
  BY <1>1, <1>2, <1>3, <1>6, GoOnGoing, GoingHand
<1>7. refused.at = "put" /\ refused.id = c.id /\ refused.run = failure /\ refused.then = "next"
  BY <1>2 DEF Call
<1>8. failure.attempts = c.run.attempts /\ failure.status = "blocked"
  BY <1>2 DEF FailedCopy, Run
<1> HIDE DEF failure, refused
<1>9. Written(c.run, refused.run, refused.then)
  BY <1>2, <1>7, <1>8 DEF Written, Follows, Waiting, Starting
<1>10. CASE Claim(w)
  <2> DEFINE q == [c.run EXCEPT !.status = "starting", !.seen = "claimed"]
             starting == [c EXCEPT !.at = "put", !.run = q, !.then = "start"]
             going == [c EXCEPT !.at = "start"]
  <2>1. Goto(w, starting) \/ Goto(w, going) \/ Goto(w, refused) \/ Goto(w, GoOn(c))
    BY <1>10 DEF Claim, refused, failure
  <2>2. q.status = "starting" /\ q.attempts = c.run.attempts
    BY <1>2 DEF Run
  <2> HIDE DEF q
  <2>3. Written(c.run, q, "start")
    BY <1>2, <2>2 DEF Written, Follows, Waiting, Pending, Active
  <2>4. /\ starting.at = "put" /\ starting.run = q /\ starting.id = c.id /\ starting.then = "start"
        /\ going.at = "start" /\ going.run = c.run /\ going.id = c.id
    BY <1>2 DEF Call
  <2> HIDE DEF starting, going
  <2>5. QED BY <1>4, <1>5, <1>6, <1>7, <1>9, <2>1, <2>3, <2>4 DEF Starting
<1>11. CASE Start(w)
  <2> DEFINE going == [c EXCEPT !.at = "grant"]
  <2>1. Goto(w, going) \/ Goto(w, refused) \/ Goto(w, GoOn(c))
    BY <1>11 DEF Start, refused, failure
  <2>2. going.at = "grant" /\ going.run = c.run /\ going.id = c.id
    BY <1>2 DEF Call
  <2> HIDE DEF going
  <2>3. QED BY <1>4, <1>5, <1>6, <1>7, <1>9, <2>1, <2>2 DEF Starting
<1>12. CASE Grant(w)
  <2> DEFINE q == RunningCopy(c.run, Phase(w) = "recover")
             next == [c EXCEPT !.at = "put", !.run = q, !.stamp = stamp + 1, !.then = "reply"]
  <2>1. Goto(w, next) \/ Goto(w, Idle)
    BY <1>12 DEF Grant
  <2>2. q.status = "running" /\ q.attempts = c.run.attempts + 1
    BY <1>2 DEF RunningCopy, Run
  <2> HIDE DEF q
  <2>3. Written(c.run, q, "reply")
    BY <1>2, <2>2 DEF Written, Starts
  <2>4. next.at = "put" /\ next.id = c.id /\ next.run = q /\ next.then = "reply"
    BY <1>2 DEF Call
  <2> HIDE DEF next
  <2>5. QED BY <1>4, <1>6, <2>1, <2>3, <2>4
<1>13. QED BY <1>10, <1>11, <1>12

\* The write of a run is its start, or follows what was stored.
LEMMA PutGoing ==
  ASSUME LockedOnly, IInv, KInv, EInv, NEW w \in Runners, Put(w)
  PROVE  EInv' /\ \E id \in RunIds : \E q : Advances(runs[id], q) /\ runs' = [runs EXCEPT ![id] = q]
<1> DEFINE c == call[w]
           stored == Stored(runs[c.id], c.run)
           rest == [c EXCEPT !.run = stored, !.at = c.then, !.then = "next"]
<1>1. c.at = "put" /\ runs' = [runs EXCEPT ![c.id] = stored] /\ (Goto(w, GoOn(c)) \/ Goto(w, rest))
  BY DEF Put
<1>2. /\ c \in Call /\ Alone(w) /\ c.id \in RunIds /\ c.run \in Run /\ w \in Callers /\ runs \in [RunIds -> Run]
      /\ Going(c) /\ Writable(c.run, c.id) /\ c.then \in Thens /\ (c.then \in Starting => c.run.status # "running")
      /\ Unstarted
  BY <1>1, CallHolds, CallKnown DEF Engaged, IInv, Typed, EInv, InHand, Write, Callers, SoundCall
<1>3. /\ \/ stored = runs[c.id] /\ c.run.status = "running"
         \/ stored = [c.run EXCEPT !.old = FALSE]
      /\ LET r == [c.run EXCEPT !.old = FALSE]
         IN  r.status = c.run.status /\ r.cat = c.run.cat /\ r.attempts = c.run.attempts /\ r.seen = c.run.seen
  BY <1>2, StoredFields
<1>4. rest.at = c.then /\ rest.run = stored /\ rest.id = c.id
  BY <1>2 DEF Call
<1> HIDE DEF stored, rest
<1>5. \/ stored = runs[c.id] /\ c.then \notin Starting
      \/ /\ stored.status = c.run.status /\ stored.attempts = c.run.attempts
         /\ Pending(stored) = Pending(c.run) /\ CanRetry(stored) = CanRetry(c.run)
  BY <1>2, <1>3 DEF Pending, Recoverable, CanRetry
<1>6. runs[c.id].status # "absent" /\ c.run.status # "absent" /\ stored.status # "absent"
  BY <1>2, <1>5 DEF Going, Stands, Writable
<1>7. Written(runs[c.id], c.run, c.then)
  BY <1>1, <1>2 DEF Going
<1>8. Advances(runs[c.id], stored)
  <2>1. CASE stored = runs[c.id]
    BY <1>6, <2>1 DEF Advances, Follows
  <2>2. CASE /\ stored.status = c.run.status /\ stored.attempts = c.run.attempts
             /\ Pending(stored) = Pending(c.run) /\ CanRetry(stored) = CanRetry(c.run)
    BY <1>6, <1>7, <2>2 DEF Advances, Written, Starts, Follows
  <2>3. QED BY <1>5, <2>1, <2>2
<1>9. c.then \in Starting => Waiting(stored)
  BY <1>2, <1>5, <1>7 DEF Written, Waiting, Starting
<1>10. c.then # "put"
  BY <1>2 DEF Thens
<1>11. runs'[c.id] = stored /\ \A id \in RunIds \ {c.id} : runs'[id] = runs[id]
  BY <1>1, <1>2
<1>12. Unstarted'
  BY <1>2, <1>6, <1>11 DEF Unstarted
<1>13. \A id \in RunIds : runs[id].status # "absent" => runs'[id].status # "absent"
  BY <1>6, <1>11
<1>14. EInv'
  <2>1. ASSUME NEW d, Goto(w, d), d.at # "put", d.at \in Starting => Waiting(d.run), Stands(d.id) PROVE EInv'
    <3>1. call'[w] = d
      BY <1>2, <2>1 DEF Goto, IInv, Typed
    <3>2. Going(call[w])'
      BY <1>13, <2>1, <3>1 DEF Going, Stands, Waiting, Pending, Recoverable, CanRetry
    <3>3. QED BY <1>2, <1>12, <2>1, <3>2, GoingStep
  <2>2. Stands(c.id)
    BY <1>2 DEF Going
  <2>3. QED BY <1>1, <1>4, <1>9, <1>10, <2>1, <2>2, GoOnGoing DEF Starting
<1>15. QED BY <1>1, <1>2, <1>8, <1>14

LEMMA CreateGoing ==
  ASSUME LockedOnly, IInv, KInv, EInv, NEW w \in Runners, Create(w)
  PROVE  /\ EInv'
         /\ \/ UNCHANGED runs
            \/ \E id \in RunIds : runs[id].status = "absent" /\ runs' = [runs EXCEPT ![id] = NewRun(TRUE)]
<1> DEFINE c == call[w]
<1>1. c.at = "create" /\ runs' = Created(TRUE) /\ Goto(w, GoOn(c))
  BY DEF Create
<1>2. Alone(w) /\ w \in Callers /\ runs \in [RunIds -> Run] /\ Unstarted
  BY <1>1, CallHolds DEF IInv, Typed, Callers, EInv
<1>3. \/ UNCHANGED runs
      \/ \E id \in RunIds : runs[id].status = "absent" /\ runs' = [runs EXCEPT ![id] = NewRun(TRUE)]
  BY <1>1, <1>2, OneCreated
<1>4. Unstarted'
  BY <1>2, <1>3, NewRunFields DEF Unstarted
<1>5. call'[w] = GoOn(c)
  BY <1>1, <1>2 DEF Goto, IInv, Typed
<1>6. GoOn(c).id = NoRun /\ GoOn(c).at \in {"list", "each"} /\ NoRun \notin RunIds
  BY AutomationRunsAssumption DEF GoOn, AtPhase, Step, RunIds
<1>7. Going(call[w])'
  BY <1>5, <1>6 DEF Going, Stands, Starting
<1>8. QED BY <1>1, <1>2, <1>3, <1>4, <1>7, GoingStep

LEMMA HeartbeatGoing ==
  ASSUME LockedOnly, IInv, KInv, EInv, NEW w \in Runners, Heartbeat(w)
  PROVE  EInv'
<1> DEFINE id == runner[w].run
           q == [runs[id] EXCEPT !.lease = stamp + 1]
           next == Locking(w, "put", id, q, stamp + 1, "renewed")
<1>1. Alone(w) /\ runner[w] # Unassigned /\ MayRenew(runs[id], runner[w].claim) /\ Goto(w, next) /\ UNCHANGED runs
  BY DEF Heartbeat, Beat, Locked, Alone
<1>2. next.at = "put" /\ next.id = id /\ next.run = q /\ next.then = "renewed"
  BY LockingFields
<1>3. runs[id] \in Run /\ Stands(id)
  BY <1>1 DEF IInv, Known, Typed, Stands, MayRenew, Active
<1>4. q.status = runs[id].status /\ q.cat = runs[id].cat /\ q.attempts = runs[id].attempts
  BY <1>3 DEF Run
<1> HIDE DEF q, next
<1>5. Follows(runs[id], q)
  BY <1>4 DEF Follows, Pending, Recoverable, CanRetry
<1>6. Going(next)
  BY <1>2, <1>3, <1>5 DEF Going, Written, Starting
<1>7. QED BY <1>1, <1>6, GoingHand

\* A failure that may be tried again is taken only of a run that has not ended.
LEMMA ReportGoing ==
  ASSUME LockedOnly, IInv, KInv, EInv, NEW w \in Runners, Report(w)
  PROVE  EInv'
<1> DEFINE id == runner[w].run
           r == runs[id]
           new(o) == IF o[1] = "completed" THEN [VerifyingCopy(r, r.seen) EXCEPT !.cat = o[2]] ELSE FailedCopy(r, o[1], o[2])
<1>1. Alone(w) /\ runner[w] # Unassigned /\ UNCHANGED runs
  BY DEF Report, Locked, Alone
<1>2. PICK o \in Reports(w) : \/ Accepted(r, id, o[1], runner[w].claim) /\ Goto(w, Locking(w, "put", id, new(o), 0, "durable"))
                              \/ UNCHANGED call
  BY DEF Report
<1> DEFINE next == Locking(w, "put", id, new(o), 0, "durable")
<1>3. r \in Run
  BY <1>1 DEF IInv, Known, Typed
<1>4. CASE Accepted(r, id, o[1], runner[w].claim) /\ Goto(w, next)
  <2>1. next.at = "put" /\ next.id = id /\ next.run = new(o) /\ next.then = "durable"
    BY LockingFields
  <2>2. Stands(id)
    BY <1>4 DEF Accepted, Stands
  <2>3. Follows(r, new(o))
    <3>1. CASE o[1] = "completed"
      <4>1. new(o).status = "verifying" /\ new(o).attempts = r.attempts
        BY <1>3, <3>1 DEF VerifyingCopy, Run
      <4>2. QED BY <4>1 DEF Follows, Pending, Recoverable, Active
    <3>2. CASE o[1] # "completed"
      <4>1. new(o).status \in {"failed", "timeout"} /\ new(o).attempts = r.attempts
        BY <1>3, <3>2 DEF Reports, FailedCopy, Run
      <4>2. Pending(r)
        BY <1>4, <3>2 DEF Accepted, Pending, Active
      <4>3. Pending(new(o)) => CanRetry(new(o))
        BY <4>1 DEF Pending, Active
      <4>4. QED BY <4>1, <4>2, <4>3 DEF Follows
    <3>3. QED BY <3>1, <3>2
  <2> HIDE DEF new, next
  <2>4. Going(next)
    BY <2>1, <2>2, <2>3 DEF Going, Written, Starting
  <2>5. QED BY <1>1, <1>4, <2>4, GoingHand
<1>5. CASE UNCHANGED call
  BY <1>1, <1>5, CallsStay
<1>6. QED BY <1>2, <1>4, <1>5

\* What a step does to the runs: one is created, one is written, or the process restarts.
RunsAdvance ==
  \/ \E id \in RunIds : \E q : Advances(runs[id], q) /\ runs' = [runs EXCEPT ![id] = q]
  \/ \E w \in Runners : Create(w) /\ \E id \in RunIds : runs[id].status = "absent" /\ runs' = [runs EXCEPT ![id] = NewRun(TRUE)]
  \/ \A id \in RunIds : runs'[id].status = runs[id].status /\ runs'[id].cat = runs[id].cat /\ runs'[id].attempts = runs[id].attempts

LEMMA NextGoing ==
  ASSUME LockedOnly, IInv, KInv, EInv, [Next]_vars
  PROVE  EInv' /\ RunsAdvance
<1>1. ASSUME NEW w \in Runners, Put(w) PROVE EInv' /\ RunsAdvance
  BY <1>1, PutGoing DEF RunsAdvance
<1>2. ASSUME NEW w \in Runners, Create(w) PROVE EInv' /\ RunsAdvance
  BY <1>2, CreateGoing DEF RunsAdvance
<1>3. ASSUME UNCHANGED runs PROVE RunsAdvance
  BY <1>3 DEF RunsAdvance
<1>4. ASSUME NEW w \in Runners,
             \/ BeginClaim(w) \/ List(w) \/ Queue(w) \/ Reply(w) \/ Renewed(w) \/ Durable(w) \/ Each(w) \/ Verify(w)
             \/ Close(w) \/ Recheck(w) \/ Release(w) \/ Block(w) \/ Claim(w) \/ Start(w) \/ Grant(w)
             \/ Heartbeat(w) \/ Report(w)
      PROVE  EInv' /\ RunsAdvance
  <2>1. EInv'
    BY <1>4, QuietGoing, EachGoing, VerifyGoing, EndingGoing, StartingGoing, HeartbeatGoing, ReportGoing
  <2>2. UNCHANGED runs
    BY <1>4 DEF BeginClaim, List, Queue, Reply, Renewed, Durable, Each, Verify, Close, Recheck, Release, Block, Claim,
                Start, Grant, Heartbeat, Beat, Report
  <2>3. QED BY <1>3, <2>1, <2>2
<1>5. ASSUME NEW p \in Callers, Cut(p) PROVE EInv' /\ RunsAdvance
  <2>1. UNCHANGED runs /\ \A v \in Runners : call'[v].at # "idle" => call'[v] = call[v]
    BY <1>5 DEF Cut, Goto, Idle, Step, IInv, Typed, Callers
  <2>2. QED BY <1>3, <2>1, CallsStay
<1>6. CASE (\E w \in Runners : AgentMoves(w) \/ RunnerDies(w)) \/ Reviewed \/ Operator \/ TimePasses \/ UNCHANGED vars
  <2>1. UNCHANGED <<runs, call>>
    BY <1>6 DEF AgentMoves, RunnerDies, Reviewed, Operator, TimePasses, vars
  <2>2. QED BY <1>3, <2>1, CallsStay
<1>7. CASE Restart
  <2>1. \A w \in Runners : call'[w].at = "idle"
    BY <1>7 DEF Restart, Callers, Idle, Step
  <2>2. ASSUME NEW id \in RunIds
        PROVE  runs'[id].status = runs[id].status /\ runs'[id].cat = runs[id].cat /\ runs'[id].attempts = runs[id].attempts
    BY <1>7 DEF Restart, IInv, Typed, Run
  <2>3. QED BY <2>1, <2>2 DEF EInv, Unstarted, RunsAdvance
<1>8. QED BY <1>1, <1>2, <1>4, <1>5, <1>6, <1>7 DEF Next, LockedOnly, ContinueRunner, Continue

LEMMA InitGoing == ASSUME Init PROVE EInv
BY DEF Init, EInv, Unstarted, Callers, Idle, Step, Absent

LEMMA OverAdvances ==
  ASSUME RunsAdvance, runs \in [RunIds -> Run], NEW id \in RunIds, Over(runs[id])
  PROVE  Over(runs'[id])
<1>1. ASSUME NEW other \in RunIds, NEW q, Advances(runs[other], q), runs' = [runs EXCEPT ![other] = q]
      PROVE  Over(runs'[id])
  BY <1>1 DEF Over, Advances, Follows, Starts, Waiting
<1>2. ASSUME NEW other \in RunIds, runs[other].status = "absent", runs' = [runs EXCEPT ![other] = NewRun(TRUE)]
      PROVE  Over(runs'[id])
  BY <1>2 DEF Over
<1>3. CASE \A k \in RunIds : runs'[k].status = runs[k].status /\ runs'[k].cat = runs[k].cat /\ runs'[k].attempts = runs[k].attempts
  BY <1>3 DEF Over, Pending, Recoverable, CanRetry
<1>4. QED BY <1>1, <1>2, <1>3 DEF RunsAdvance

\* As long as runs change only under claimMu, a run that has ended and may not be tried again
\* stays so, whatever reports and heartbeats come late, runners die, answers are lost or
\* operators do: no call writes a copy of a run from before its end (ClaimNextRun,
\* CompleteAttempt, HeartbeatRun). ListRuns, which takes no mutex, does write such copies.
THEOREM EndedRunsStayEnded ==
  ASSUME LockedOnly
  PROVE  Spec => OverIsOver
<1>1. Init => IInv /\ Markers /\ KInv /\ EInv
  BY InitSound, InitKept, InitGoing
<1>2. IInv /\ Markers /\ KInv /\ EInv /\ [Next]_vars => (IInv /\ Markers /\ KInv /\ EInv)'
  BY NextSound, NextKept, NextGoing
<1>3. IInv /\ KInv /\ EInv /\ [Next]_vars => [\A id \in RunIds : Over(runs[id]) => Over(runs'[id])]_vars
  BY NextGoing, OverAdvances DEF IInv, Typed
<1>4. QED BY <1>1, <1>2, <1>3, PTL DEF Spec, OverIsOver

-----------------------------------------------------------------------------
(* The refinement. *)

Stages == [id \in RunIds |-> Stage(runs[id])]
Tries == [id \in RunIds |-> runs[id].attempts]

\* One run changes.
LEMMA StageMoved ==
  ASSUME NEW id \in RunIds, NEW q, runs \in [RunIds -> Run], runs' = [runs EXCEPT ![id] = q]
  PROVE  /\ Stages' = [Stages EXCEPT ![id] = Stage(q)]
         /\ Tries' = [Tries EXCEPT ![id] = q.attempts]
<1>1. runs'[id] = q /\ \A other \in RunIds \ {id} : runs'[other] = runs[other]
  OBVIOUS
<1>2. Stage(runs[id])' = Stage(q) /\ \A other \in RunIds \ {id} : Stage(runs[other])' = Stage(runs[other])
  BY <1>1 DEF Stage, Pending, Recoverable, CanRetry
<1>3. QED BY <1>1, <1>2 DEF Stages, Tries

\* What a write means for the succession.
LEMMA AdvancesStage ==
  ASSUME NEW r \in Run, NEW q \in Run, Advances(r, q), q.attempts <= MaxRetries
  PROVE  \/ Stage(q) = Stage(r) /\ q.attempts = r.attempts
         \/ Stage(r) = "waiting" /\ Stage(q) = "executing" /\ q.attempts = r.attempts + 1 /\ r.attempts < MaxRetries
         \/ Stage(r) = "executing" /\ Stage(q) = "waiting" /\ q.attempts = r.attempts /\ r.attempts < MaxRetries
         \/ Stage(r) \in {"waiting", "executing"} /\ Stage(q) = "over" /\ q.attempts = r.attempts
<1>1. r.attempts \in Nat /\ MaxRetries \in Nat
  BY AutomationRunsAssumption DEF Run
<1>2. CASE Starts(r, q)
  <2>1. Stage(r) = "waiting" /\ Stage(q) = "executing"
    BY <1>2 DEF Advances, Starts, Waiting, Stage
  <2>2. QED BY <1>1, <1>2, <2>1 DEF Starts
<1>3. CASE Follows(r, q)
  <2>1. r.status = "running" => Pending(r)
    BY DEF Pending, Active
  <2>2. r.status # "absent" /\ q.status # "absent" /\ q.attempts = r.attempts
    BY <1>3 DEF Advances, Follows
  <2>3. CASE ~Pending(q)
    <3>1. Stage(q) = "over"
      BY <2>2, <2>3 DEF Stage, Pending, Active
    <3>2. QED BY <2>2, <3>1 DEF Stage
  <2>4. CASE Pending(q) /\ r.status # "running"
    BY <1>3, <2>2, <2>4 DEF Follows, Stage
  <2>5. CASE Pending(q) /\ r.status = "running"
    <3>1. q.status = "running" \/ (q.status # "running" /\ r.attempts < MaxRetries)
      BY <1>3, <2>2, <2>5 DEF Follows, CanRetry
    <3>2. QED BY <2>2, <2>5, <3>1 DEF Stage
  <2>6. QED BY <2>3, <2>4, <2>5
<1>4. QED BY <1>2, <1>3 DEF Advances

\* Every step of the service is a step of RunSuccession, or none.
LEMMA NextSuccession ==
  ASSUME LockedOnly, IInv, IInv', KInv, OInv, EInv, [Next]_vars
  PROVE  Succession!Next \/ UNCHANGED <<Stages, Tries>>
<1>1. /\ runs \in [RunIds -> Run] /\ runs' \in [RunIds -> Run]
      /\ \A id \in RunIds : runs'[id].attempts <= MaxRetries
  BY DEF IInv, Typed, Sound
<1>2. RunsAdvance
  BY NextGoing
<1>3. ASSUME NEW id \in RunIds, NEW q, Advances(runs[id], q), runs' = [runs EXCEPT ![id] = q]
      PROVE  Succession!Next \/ UNCHANGED <<Stages, Tries>>
  <2> DEFINE r == runs[id]
  <2>1. r \in Run /\ q \in Run /\ q.attempts <= MaxRetries
    BY <1>1, <1>3
  <2>2. /\ Stages' = [Stages EXCEPT ![id] = Stage(q)] /\ Stages[id] = Stage(r)
        /\ Tries' = [Tries EXCEPT ![id] = q.attempts] /\ Tries[id] = r.attempts
    BY <1>1, <1>3, StageMoved DEF Stages, Tries
  <2>3. \/ Stage(q) = Stage(r) /\ q.attempts = r.attempts
        \/ Stage(r) = "waiting" /\ Stage(q) = "executing" /\ q.attempts = r.attempts + 1 /\ r.attempts < MaxRetries
        \/ Stage(r) = "executing" /\ Stage(q) = "waiting" /\ q.attempts = r.attempts /\ r.attempts < MaxRetries
        \/ Stage(r) \in {"waiting", "executing"} /\ Stage(q) = "over" /\ q.attempts = r.attempts
    BY <1>3, <2>1, AdvancesStage
  <2> HIDE DEF r
  <2>4. q.attempts = r.attempts => UNCHANGED Tries
    BY <2>2 DEF Tries
  <2>5. CASE Stage(q) = Stage(r) /\ q.attempts = r.attempts
    <3>1. UNCHANGED Stages
      BY <2>2, <2>5 DEF Stages
    <3>2. QED BY <2>4, <2>5, <3>1
  <2>6. CASE Stage(r) = "waiting" /\ Stage(q) = "executing" /\ q.attempts = r.attempts + 1 /\ r.attempts < MaxRetries
    <3>1. Succession!Execute(id)
      BY <2>2, <2>6 DEF Succession!Execute, Succession!Move, Stages, Tries
    <3>2. QED BY <3>1 DEF Succession!Next
  <2>7. CASE Stage(r) = "executing" /\ Stage(q) = "waiting" /\ q.attempts = r.attempts /\ r.attempts < MaxRetries
    <3>1. Succession!PutBack(id)
      BY <2>2, <2>4, <2>7 DEF Succession!PutBack, Succession!Move, Stages, Tries
    <3>2. QED BY <3>1 DEF Succession!Next
  <2>8. CASE Stage(r) \in {"waiting", "executing"} /\ Stage(q) = "over" /\ q.attempts = r.attempts
    <3>1. Succession!End(id)
      BY <2>2, <2>4, <2>8 DEF Succession!End, Succession!Open, Succession!Move, Stages, Tries
    <3>2. QED BY <3>1 DEF Succession!Next
  <2>9. QED BY <2>3, <2>5, <2>6, <2>7, <2>8
<1>4. ASSUME NEW w \in Runners, Create(w),
             NEW id \in RunIds, runs[id].status = "absent", runs' = [runs EXCEPT ![id] = NewRun(TRUE)]
      PROVE  Succession!Next
  <2>1. \A other \in RunIds : ~Pending(runs[other])
    <3>1. NoneLive
      BY <1>4 DEF Create, OInv, InTurn
    <3>2. QED BY <3>1 DEF NoneLive, Live, LiveAs
  <2>2. \A other \in RunIds : Stage(runs[other]) \notin {"waiting", "executing"}
    BY <2>1 DEF Stage, Pending, Active
  <2>3. Stage(runs[id]) = "none" /\ Stage(NewRun(TRUE)) = "waiting" /\ NewRun(TRUE).attempts = 0 /\ runs[id].attempts = 0
    BY <1>4, NewRunFields DEF Stage, Pending, Recoverable, Active, EInv, Unstarted
  <2>4. /\ Stages' = [Stages EXCEPT ![id] = "waiting"] /\ Tries' = [Tries EXCEPT ![id] = 0]
    BY <1>1, <1>4, <2>3, StageMoved
  <2>5. UNCHANGED Tries
    BY <2>3, <2>4 DEF Tries
  <2>6. Succession!Enter(id)
    BY <2>2, <2>3, <2>4, <2>5 DEF Succession!Enter, Succession!Open, Succession!Move, Stages, Tries
  <2>7. QED BY <2>6 DEF Succession!Next
<1>5. CASE \A id \in RunIds :
             runs'[id].status = runs[id].status /\ runs'[id].cat = runs[id].cat /\ runs'[id].attempts = runs[id].attempts
  BY <1>5 DEF Stages, Tries, Stage, Pending, Recoverable, CanRetry
<1>6. QED BY <1>2, <1>3, <1>4, <1>5 DEF RunsAdvance

LEMMA InitSuccession == ASSUME Init PROVE Succession!Init
<1>1. Absent.status = "absent" /\ Absent.attempts = 0
  BY DEF Absent
<1>2. Stage(Absent) = "none"
  BY <1>1 DEF Stage, Pending, Recoverable, Active
<1>3. \A id \in RunIds : runs[id] = Absent
  BY DEF Init
<1>4. QED BY <1>1, <1>2, <1>3 DEF Succession!Init

\* As long as runs change only under claimMu and no operator offers a blocked task again, the
\* runs of a task succeed one another, for every value of the constants: a run is created
\* when every earlier one is over, is executed at most MaxRetries times, and stays over.
THEOREM SuccessionImplemented ==
  ASSUME LockedOnly, NoRequeue
  PROVE  Spec => ImplementsSuccession
<1>1. Init => IInv /\ Markers /\ KInv /\ Unmarked /\ OInv /\ EInv /\ Succession!Init
  BY InitSound, InitKept, InitUnmarked, InitOrderly, InitGoing, InitSuccession
<1>2. IInv /\ Markers /\ KInv /\ Unmarked /\ OInv /\ EInv /\ [Next]_vars => (IInv /\ Markers /\ KInv /\ Unmarked /\ OInv /\ EInv)'
  BY NextSound, NextKept, NextUnmarked, NextOrderly, NextGoing
<1>3. IInv /\ IInv' /\ KInv /\ OInv /\ EInv /\ [Next]_vars
      => [Succession!Next]_<<[id \in RunIds |-> Stage(runs[id])], [id \in RunIds |-> runs[id].attempts]>>
  BY NextSuccession DEF Stages, Tries
<1>4. QED BY <1>1, <1>2, <1>3, PTL DEF Spec, ImplementsSuccession, Succession!Spec
=============================================================================
