---------------------- MODULE IngestionSchedulerProofs ----------------------
(***************************************************************************)
(* Machine-checked proofs about the ingestion scheduler, for any sets of   *)
(* workers, projects and tasks, any queue depth and any per-project limit. *)
(***************************************************************************)
EXTENDS IngestionSchedulerProperties, FiniteSetTheorems, TLAPS

-----------------------------------------------------------------------------
(* Type correctness. *)

\* Every worker's task fits its program counter: idle workers have none, the
\* others have a task in the phase that their place in runTask implies.
WorkMatchesPC ==
  \A w \in Workers :
    /\ pc[w] \in IdlePCs => work[w] = NoTask
    /\ pc[w] \in WaitingPCs => work[w] \in Tasks /\ phase[work[w]] = "claimed"
    /\ pc[w] \in HoldingPCs => work[w] \in Tasks /\ phase[work[w]] = "active"
    /\ pc[w] = "failrun" => work[w] \in Tasks /\ phase[work[w]] = "abandoned"

\* No two workers have the same task.
OneWorkerPerTask ==
  \A v, w \in Workers : v /= w /\ work[v] = work[w] => work[w] = NoTask

\* A channel holds queued tasks of its own kind, each once.
ChannelsHoldQueuedTasks ==
  /\ \A i \in 1..Len(fullCh) : fullCh[i] \in Wide /\ phase[fullCh[i]] = "queued"
  /\ \A i \in 1..Len(liveCh) : liveCh[i] \notin Wide /\ phase[liveCh[i]] = "queued"
  /\ \A i, j \in 1..Len(fullCh) : fullCh[i] = fullCh[j] => i = j
  /\ \A i, j \in 1..Len(liveCh) : liveCh[i] = liveCh[j] => i = j

\* A process that is down has no workers.
DownIsIdle == server = "down" => \A w \in Workers : pc[w] = "exited"

Shape ==
  /\ TypeOK
  /\ WorkMatchesPC
  /\ OneWorkerPerTask
  /\ ChannelsHoldQueuedTasks
  /\ DownIsIdle

\* Sending to and receiving from a channel.
LEMMA ChannelSend ==
  ASSUME NEW S, NEW c \in Seq(S), NEW x \in S
  PROVE  /\ Append(c, x) \in Seq(S)
         /\ Len(Append(c, x)) = Len(c) + 1
         /\ \A i \in 1..Len(c) : Append(c, x)[i] = c[i]
         /\ Append(c, x)[Len(c) + 1] = x
OBVIOUS

LEMMA ChannelReceive ==
  ASSUME NEW S, NEW c \in Seq(S), c /= <<>>
  PROVE  /\ Head(c) \in S
         /\ Head(c) = c[1]
         /\ Len(c) \in Nat \ {0}
         /\ Tail(c) \in Seq(S)
         /\ Len(Tail(c)) = Len(c) - 1
         /\ \A i \in 1..Len(Tail(c)) : Tail(c)[i] = c[i + 1]
OBVIOUS

\* The conjuncts of TypeOK, in groups small enough for a leaf proof.
TasksTypeOK == phase \in [Tasks -> Phases] /\ run \in [Tasks -> RunStatuses]
ChannelsTypeOK ==
  /\ liveCh \in Seq(Tasks) /\ Len(liveCh) <= QueueDepth
  /\ fullCh \in Seq(Tasks) /\ Len(fullCh) <= QueueDepth
GateTypeOK ==
  /\ active \in [Projects -> Nat]
  /\ wideActive \in [Projects -> BOOLEAN]
  /\ widePending \in [Projects -> Nat]
WorkersTypeOK ==
  /\ pc \in [Workers -> IdlePCs \cup WaitingPCs \cup HoldingPCs \cup {"failrun"}]
  /\ work \in [Workers -> Tasks \cup {NoTask}]
ServerTypeOK ==
  server \in {"up", "stopping", "down"} /\ restarts \in Nat /\ recovering \in BOOLEAN

LEMMA TypeOKParts ==
  TypeOK <=> ServerTypeOK /\ TasksTypeOK /\ ChannelsTypeOK /\ GateTypeOK /\ WorkersTypeOK
BY DEF TypeOK, ServerTypeOK, TasksTypeOK, ChannelsTypeOK, GateTypeOK, WorkersTypeOK

LEMMA InitShape == Init => Shape
<1> SUFFICES ASSUME Init PROVE Shape
  OBVIOUS
<1>1. TypeOK
  <2>1. QueueDepth \in Nat /\ <<>> \in Seq(Tasks) /\ Len(<<>>) = 0
    BY SchedulerAssumption DEF SchedulerAssumption
  <2>2. ServerTypeOK BY DEF Init, ServerTypeOK
  <2>3. TasksTypeOK BY DEF Init, TasksTypeOK, Phases, RunStatuses
  <2>4. ChannelsTypeOK BY <2>1 DEF Init, ChannelsTypeOK
  <2>5. GateTypeOK BY DEF Init, GateTypeOK
  <2>6. WorkersTypeOK BY DEF Init, WorkersTypeOK, IdlePCs
  <2>7. QED BY <2>2, <2>3, <2>4, <2>5, <2>6, TypeOKParts
<1>2. WorkMatchesPC
  BY DEF Init, WorkMatchesPC, IdlePCs, WaitingPCs, HoldingPCs
<1>3. OneWorkerPerTask
  BY DEF Init, OneWorkerPerTask
<1>4. ChannelsHoldQueuedTasks
  BY DEF Init, ChannelsHoldQueuedTasks
<1>5. DownIsIdle
  BY DEF Init, DownIsIdle
<1>6. QED BY <1>1, <1>2, <1>3, <1>4, <1>5 DEF Shape

\* Waking the workers parked on a project changes nothing else about them.
LEMMA WokenShape ==
  ASSUME TypeOK, NEW p \in Projects
  PROVE  /\ Woken(p) \in [Workers -> IdlePCs \cup WaitingPCs \cup HoldingPCs \cup {"failrun"}]
         /\ \A w \in Workers :
              /\ pc[w] /= "parked" => Woken(p)[w] = pc[w]
              /\ pc[w] = "parked" => Woken(p)[w] \in {"parked", "woken"}
              /\ Woken(p)[w] = "parked" => pc[w] = "parked" /\ Project[work[w]] /= p
BY DEF TypeOK, Woken, IdlePCs, WaitingPCs, HoldingPCs

LEMMA NextTypeOK == Shape /\ [Next]_vars => TypeOK'
<1> SUFFICES ASSUME Shape, [Next]_vars PROVE TypeOK'
  OBVIOUS
<1> USE DEF TypeOK, Phases, RunStatuses, serverVars, gateVars, Decremented
<1>0. /\ TypeOK /\ WorkMatchesPC
      /\ Project \in [Tasks -> Projects] /\ QueueDepth \in Nat /\ Wide \subseteq Tasks
  BY SchedulerAssumption DEF Shape, SchedulerAssumption
<1>p. ServerTypeOK /\ TasksTypeOK /\ ChannelsTypeOK /\ GateTypeOK /\ WorkersTypeOK
  BY <1>0, TypeOKParts
<1>1. ASSUME NEW t \in Tasks, Caller(t) PROVE TypeOK'
  <2>1. CASE Admit(t) BY <1>0, <2>1 DEF Admit
  <2>2. CASE PrepareProjectRun(t) BY <1>0, <2>2 DEF PrepareProjectRun
  <2>3. CASE RegisterPendingProjectWide(t)
    BY <1>0, <2>3, WokenShape DEF RegisterPendingProjectWide
  <2>4. CASE Enqueue(t)
    <3> HIDE DEF TypeOK
    <3>1. ChannelsTypeOK'
      <4>1. CASE t \in Wide
        <5>1. fullCh' = Append(fullCh, t) /\ liveCh' = liveCh /\ Len(fullCh) < QueueDepth
          BY <2>4, <4>1 DEF Enqueue
        <5>2. /\ fullCh \in Seq(Tasks) /\ Len(fullCh) \in Nat
              /\ liveCh \in Seq(Tasks) /\ Len(liveCh) <= QueueDepth
          BY <1>p DEF ChannelsTypeOK
        <5>3. fullCh' \in Seq(Tasks) /\ Len(fullCh') = Len(fullCh) + 1
          BY <5>1, <5>2, ChannelSend
        <5>4. Len(fullCh') <= QueueDepth
          BY <1>0, <5>1, <5>2, <5>3
        <5>5. QED BY <5>1, <5>2, <5>3, <5>4 DEF ChannelsTypeOK
      <4>2. CASE t \notin Wide
        <5>1. liveCh' = Append(liveCh, t) /\ fullCh' = fullCh /\ Len(liveCh) < QueueDepth
          BY <2>4, <4>2 DEF Enqueue
        <5>2. /\ liveCh \in Seq(Tasks) /\ Len(liveCh) \in Nat
              /\ fullCh \in Seq(Tasks) /\ Len(fullCh) <= QueueDepth
          BY <1>p DEF ChannelsTypeOK
        <5>3. liveCh' \in Seq(Tasks) /\ Len(liveCh') = Len(liveCh) + 1
          BY <5>1, <5>2, ChannelSend
        <5>4. Len(liveCh') <= QueueDepth
          BY <1>0, <5>1, <5>2, <5>3
        <5>5. QED BY <5>1, <5>2, <5>3, <5>4 DEF ChannelsTypeOK
      <4>3. QED BY <4>1, <4>2
    <3>2. ServerTypeOK' /\ TasksTypeOK' /\ GateTypeOK' /\ WorkersTypeOK'
      BY <1>0, <1>p, <2>4 DEF Enqueue, ServerTypeOK, TasksTypeOK, GateTypeOK, WorkersTypeOK
    <3>3. QED BY <3>1, <3>2 DEF TypeOK, ServerTypeOK, TasksTypeOK,
          ChannelsTypeOK, GateTypeOK, WorkersTypeOK
  <2>5. CASE QueueFull(t) BY <1>0, <2>5 DEF QueueFull, GiveUpSend
  <2>6. CASE CallerCanceled(t) BY <1>0, <2>6 DEF CallerCanceled, GiveUpSend
  <2>7. CASE UnregisterPendingProjectWide(t)
    BY <1>0, <2>7, WokenShape DEF UnregisterPendingProjectWide
  <2>8. CASE FailPreparedRun(t) BY <1>0, <2>8 DEF FailPreparedRun
  <2>9. QED BY <1>1, <2>1, <2>2, <2>3, <2>4, <2>5, <2>6, <2>7, <2>8 DEF Caller
<1>2. ASSUME NEW w \in Workers, Worker(w) PROVE TypeOK'
  <2> USE DEF IdlePCs, WaitingPCs, HoldingPCs
  <2>a. ASSUME TakeFull(w) PROVE TypeOK'
    BY <1>0, <2>a, ChannelReceive DEF TakeFull, Take
  <2>b. ASSUME TakeLive(w) PROVE TypeOK'
    BY <1>0, <2>b, ChannelReceive DEF TakeLive, Take
  <2>1. CASE Poll(w) BY <1>0, <2>1 DEF Poll, Goto, AfterFull
  <2>2. CASE TryFull(w) BY <1>0, <2>2, <2>a DEF TryFull, Goto, AfterFull
  <2>3. CASE TryLive(w) BY <1>0, <2>3, <2>b DEF TryLive, Goto
  <2>4. CASE Select(w) BY <1>0, <2>4, <2>a, <2>b DEF Select, Goto
  <2>5. CASE TryAcquire(w)
    <3> HIDE DEF TypeOK
    <3>1. work[w] \in Tasks /\ Project[work[w]] \in Projects
      BY <1>0, <2>5 DEF TryAcquire, WorkMatchesPC
    <3>2. GateTypeOK'
      <4>1. CASE work[w] \in Wide
        <5>1. /\ active' = [active EXCEPT ![Project[work[w]]] = @ + 1]
              /\ wideActive' = [wideActive EXCEPT ![Project[work[w]]] = TRUE]
              /\ widePending' = [widePending EXCEPT ![Project[work[w]]] = Decremented(@)]
          BY <2>5, <4>1 DEF TryAcquire
        <5>2. QED BY <1>p, <3>1, <5>1 DEF GateTypeOK
      <4>2. CASE work[w] \notin Wide
        BY <1>p, <2>5, <3>1, <4>2 DEF TryAcquire, GateTypeOK
      <4>3. QED BY <4>1, <4>2
    <3>3. WorkersTypeOK'
      BY <1>0, <1>p, <2>5, <3>1, WokenShape DEF TryAcquire, WorkersTypeOK
    <3>4. ServerTypeOK' /\ TasksTypeOK' /\ ChannelsTypeOK'
      BY <1>0, <1>p, <2>5 DEF TryAcquire, ServerTypeOK, TasksTypeOK, ChannelsTypeOK
    <3>5. QED BY <3>2, <3>3, <3>4 DEF TypeOK, ServerTypeOK, TasksTypeOK,
          ChannelsTypeOK, GateTypeOK, WorkersTypeOK
  <2>6. CASE Park(w) BY <1>0, <2>6 DEF Park, Goto
  <2>7. CASE CancelAcquire(w) BY <1>0, <2>7 DEF CancelAcquire, Goto
  <2>8. CASE AbandonTask(w)
    <3> HIDE DEF TypeOK
    <3>1. work[w] \in Tasks /\ Project[work[w]] \in Projects
      BY <1>0, <2>8 DEF AbandonTask, WorkMatchesPC
    <3>2. GateTypeOK'
      BY <1>0, <1>p, <2>8, <3>1 DEF AbandonTask, GateTypeOK
    <3>3. WorkersTypeOK'
      BY <1>0, <1>p, <2>8, <3>1, WokenShape DEF AbandonTask, WorkersTypeOK
    <3>4. ServerTypeOK' /\ TasksTypeOK' /\ ChannelsTypeOK'
      BY <1>0, <1>p, <2>8 DEF AbandonTask, ServerTypeOK, TasksTypeOK, ChannelsTypeOK
    <3>5. QED BY <3>2, <3>3, <3>4 DEF TypeOK, ServerTypeOK, TasksTypeOK,
          ChannelsTypeOK, GateTypeOK, WorkersTypeOK
  <2>9. CASE FailAbandonedRun(w) BY <1>0, <2>9 DEF FailAbandonedRun
  <2>10. CASE BeginRun(w) BY <1>0, <2>10 DEF BeginRun
  <2>11. CASE FinishRun(w) \/ Checkpoint(w) BY <1>0, <2>11 DEF FinishRun, Checkpoint
  <2>12. CASE ReleaseProject(w)
    <3> HIDE DEF TypeOK
    <3>1. work[w] \in Tasks /\ Project[work[w]] \in Projects
      BY <1>0, <2>12 DEF ReleaseProject, WorkMatchesPC
    <3>2. GateTypeOK'
      BY <1>0, <1>p, <2>12, <3>1 DEF ReleaseProject, GateTypeOK
    <3>3. WorkersTypeOK'
      BY <1>0, <1>p, <2>12, <3>1, WokenShape DEF ReleaseProject, WorkersTypeOK
    <3>4. ServerTypeOK' /\ TasksTypeOK' /\ ChannelsTypeOK'
      BY <1>0, <1>p, <2>12 DEF ReleaseProject, ServerTypeOK, TasksTypeOK, ChannelsTypeOK
    <3>5. QED BY <3>2, <3>3, <3>4 DEF TypeOK, ServerTypeOK, TasksTypeOK,
          ChannelsTypeOK, GateTypeOK, WorkersTypeOK
  <2>13. QED
    BY <1>2, <2>1, <2>2, <2>3, <2>4, <2>5, <2>6, <2>7, <2>8, <2>9, <2>10, <2>11, <2>12
       DEF Worker
<1>3. CASE Stop BY <1>0, <1>3 DEF Stop
<1>4. CASE Exit
  <2> HIDE DEF TypeOK
  <2>1. ServerTypeOK' /\ TasksTypeOK'
    BY <1>0, <1>p, <1>4 DEF Exit, ServerTypeOK, TasksTypeOK
  <2>2. ChannelsTypeOK'
    <3>1. <<>> \in Seq(Tasks) /\ Len(<<>>) = 0
      OBVIOUS
    <3>2. QED BY <1>0, <1>p, <1>4, <3>1 DEF Exit, ChannelsTypeOK
  <2>3. GateTypeOK'
    BY <1>4 DEF Exit, GateTypeOK
  <2>4. WorkersTypeOK'
    BY <1>4 DEF Exit, WorkersTypeOK, IdlePCs
  <2>5. QED BY <2>1, <2>2, <2>3, <2>4 DEF TypeOK, ServerTypeOK, TasksTypeOK,
          ChannelsTypeOK, GateTypeOK, WorkersTypeOK
<1>5. CASE Boot BY <1>0, <1>5 DEF Boot, IdlePCs
<1>6. CASE UNCHANGED vars BY <1>0, <1>6 DEF vars
<1>7. QED BY <1>1, <1>2, <1>3, <1>4, <1>5, <1>6 DEF Next

-----------------------------------------------------------------------------
(* Workers, their tasks, and the channels. *)

\* A task that a worker holds has one of three phases; callers never touch it.
HeldPhases == {"claimed", "active", "abandoned"}

LEMMA CallerEffect ==
  ASSUME Shape, NEW t \in Tasks, Caller(t)
  PROVE  /\ server /= "down"
         /\ phase[t] \notin HeldPhases \cup {"queued"}
         /\ \E x \in Phases \ HeldPhases : phase' = [phase EXCEPT ![t] = x]
         /\ \/ pc' = pc
            \/ \E p \in Projects : pc' = Woken(p)
         /\ work' = work
         /\ server' = server
<1> USE DEF HeldPhases, Phases, serverVars
<1>0. Project \in [Tasks -> Projects]
  BY SchedulerAssumption DEF SchedulerAssumption
<1>1. CASE Admit(t) BY <1>1 DEF Admit
<1>2. CASE PrepareProjectRun(t) BY <1>2 DEF PrepareProjectRun
<1>3. CASE RegisterPendingProjectWide(t)
  BY <1>0, <1>3 DEF RegisterPendingProjectWide
<1>4. CASE Enqueue(t) BY <1>4 DEF Enqueue
<1>5. CASE QueueFull(t) BY <1>5 DEF QueueFull, GiveUpSend
<1>6. CASE CallerCanceled(t) BY <1>6 DEF CallerCanceled, GiveUpSend
<1>7. CASE UnregisterPendingProjectWide(t)
  BY <1>0, <1>7 DEF UnregisterPendingProjectWide
<1>8. CASE FailPreparedRun(t) BY <1>8 DEF FailPreparedRun
<1>9. QED BY <1>1, <1>2, <1>3, <1>4, <1>5, <1>6, <1>7, <1>8 DEF Caller

LEMMA CallerKeepsWork ==
  ASSUME Shape, NEW t \in Tasks, Caller(t)
  PROVE  WorkMatchesPC' /\ OneWorkerPerTask' /\ DownIsIdle'
<1> USE DEF Shape
<1>0. PICK x \in Phases \ HeldPhases : phase' = [phase EXCEPT ![t] = x]
  BY CallerEffect
<1>1. /\ \A w \in Workers : /\ pc[w] /= "parked" => pc'[w] = pc[w]
                            /\ pc[w] = "parked" => pc'[w] \in {"parked", "woken"}
      /\ work' = work /\ server' = server /\ phase[t] \notin HeldPhases
      /\ server /= "down"
  BY CallerEffect, WokenShape
<1>2. \A w \in Workers :
        work[w] \in Tasks /\ phase[work[w]] \in HeldPhases => phase'[work[w]] = phase[work[w]]
  BY <1>0, <1>1 DEF TypeOK, HeldPhases
<1>3. WorkMatchesPC'
  BY <1>1, <1>2 DEF WorkMatchesPC, TypeOK, HeldPhases, IdlePCs, WaitingPCs, HoldingPCs
<1>4. OneWorkerPerTask'
  BY <1>1 DEF OneWorkerPerTask
<1>5. DownIsIdle'
  BY <1>1 DEF DownIsIdle
<1>6. QED BY <1>3, <1>4, <1>5

\* What a dequeue does, from either channel.
LEMMA TakeKeepsWork ==
  ASSUME Shape, NEW w \in Workers, pc[w] \in IdlePCs, server /= "down",
         NEW t \in Tasks, phase[t] = "queued", Take(w, t)
  PROVE  WorkMatchesPC' /\ OneWorkerPerTask' /\ DownIsIdle'
<1> USE DEF Shape
<1>1. /\ pc' = [pc EXCEPT ![w] = "acquire"]
      /\ work' = [work EXCEPT ![w] = t]
      /\ phase' = [phase EXCEPT ![t] = "claimed"]
      /\ server' = server
  BY DEF Take, serverVars
<1>2. \A v \in Workers : work[v] /= t
  BY SchedulerAssumption DEF SchedulerAssumption, WorkMatchesPC, TypeOK, IdlePCs, WaitingPCs, HoldingPCs
<1>3. WorkMatchesPC'
  BY <1>1, <1>2 DEF WorkMatchesPC, TypeOK, IdlePCs, WaitingPCs, HoldingPCs
<1>4. OneWorkerPerTask'
  BY <1>1, <1>2 DEF OneWorkerPerTask, TypeOK
<1>5. DownIsIdle'
  BY <1>1 DEF DownIsIdle
<1>6. QED BY <1>3, <1>4, <1>5

LEMMA ReceivedTask ==
  /\ Shape /\ fullCh /= <<>> =>
       /\ Head(fullCh) \in Wide \cap Tasks /\ phase[Head(fullCh)] = "queued"
       /\ Head(fullCh) = fullCh[1] /\ Len(fullCh) \in Nat \ {0}
  /\ Shape /\ liveCh /= <<>> =>
       /\ Head(liveCh) \in Tasks \ Wide /\ phase[Head(liveCh)] = "queued"
       /\ Head(liveCh) = liveCh[1] /\ Len(liveCh) \in Nat \ {0}
BY ChannelReceive DEF Shape, TypeOK, ChannelsHoldQueuedTasks

LEMMA WorkerKeepsWork ==
  ASSUME Shape, NEW w \in Workers, Worker(w)
  PROVE  WorkMatchesPC' /\ OneWorkerPerTask' /\ DownIsIdle'
<1> USE DEF Shape, serverVars, IdlePCs, WaitingPCs, HoldingPCs
<1>0. /\ pc \in [Workers -> IdlePCs \cup WaitingPCs \cup HoldingPCs \cup {"failrun"}]
      /\ work \in [Workers -> Tasks \cup {NoTask}]
      /\ phase \in [Tasks -> Phases]
      /\ Project \in [Tasks -> Projects]
      /\ NoTask \notin Tasks
  BY SchedulerAssumption DEF SchedulerAssumption, TypeOK
<1>a. CASE \E label \in IdlePCs \ {"exited"} :
             pc[w] \in IdlePCs \ {"exited"} /\ Goto(w, label)
  BY <1>0, <1>a DEF Goto, WorkMatchesPC, OneWorkerPerTask, DownIsIdle
<1>b. CASE pc[w] \in IdlePCs \ {"exited"} /\ (TakeFull(w) \/ TakeLive(w))
  BY <1>b, ReceivedTask, TakeKeepsWork DEF TakeFull, TakeLive, DownIsIdle
<1>1. CASE Poll(w) BY <1>1, <1>a DEF Poll, AfterFull
<1>2. CASE TryFull(w) BY <1>2, <1>a, <1>b DEF TryFull, AfterFull
<1>3. CASE TryLive(w) BY <1>3, <1>a, <1>b DEF TryLive
<1>4. CASE Select(w)
  <2>1. CASE server = "stopping" /\ Goto(w, "exited")
    BY <1>0, <1>4, <2>1 DEF Select, Goto, WorkMatchesPC, OneWorkerPerTask, DownIsIdle
  <2>2. QED BY <1>4, <1>b, <2>1 DEF Select
<1>c. ASSUME pc[w] \in WaitingPCs \cup HoldingPCs \cup {"failrun"}
      PROVE  /\ work[w] \in Tasks
             /\ Project[work[w]] \in Projects
             /\ \A v \in Workers : v /= w => work[v] /= work[w]
             /\ server /= "down"
  BY <1>0, <1>c DEF WorkMatchesPC, OneWorkerPerTask, DownIsIdle
<1>5. CASE TryAcquire(w)
  <2>1. /\ pc[w] \in {"acquire", "woken"} /\ work' = work /\ server' = server
        /\ phase' = [phase EXCEPT ![work[w]] = "active"]
        /\ \/ pc' = [pc EXCEPT ![w] = "run"]
           \/ pc' = [Woken(Project[work[w]]) EXCEPT ![w] = "run"]
    BY <1>5 DEF TryAcquire
  <2>2. WorkMatchesPC'
    <3>1. \A v \in Workers \ {w} :
            /\ pc[v] /= "parked" => pc'[v] = pc[v]
            /\ pc[v] = "parked" => pc'[v] \in {"parked", "woken"}
            /\ work[v] /= work[w]
      BY <1>0, <1>c, <2>1, WokenShape
    <3>2. pc'[w] = "run" /\ phase'[work[w]] = "active"
      BY <1>0, <1>c, <2>1, WokenShape
    <3>3. \A v \in Workers \ {w} : work[v] \in Tasks => phase'[work[v]] = phase[work[v]]
      BY <1>0, <2>1, <3>1
    <3>4. QED BY <1>0, <1>c, <2>1, <3>1, <3>2, <3>3 DEF WorkMatchesPC
  <2>3. QED BY <1>c, <2>1, <2>2 DEF OneWorkerPerTask, DownIsIdle
<1>6. CASE Park(w) BY <1>0, <1>6, <1>c DEF Park, Goto, WorkMatchesPC, OneWorkerPerTask, DownIsIdle
<1>7. CASE CancelAcquire(w)
  BY <1>0, <1>7, <1>c DEF CancelAcquire, Goto, WorkMatchesPC, OneWorkerPerTask, DownIsIdle
<1>8. CASE AbandonTask(w)
  <2>1. /\ pc[w] = "unregister" /\ server' = server
        /\ \/ /\ phase' = [phase EXCEPT ![work[w]] = "abandoned"]
              /\ pc' = [Woken(Project[work[w]]) EXCEPT ![w] = "failrun"]
              /\ work' = work
           \/ /\ phase' = [phase EXCEPT ![work[w]] = "over"]
              /\ \/ pc' = [pc EXCEPT ![w] = "poll"]
                 \/ pc' = [Woken(Project[work[w]]) EXCEPT ![w] = "poll"]
              /\ work' = [work EXCEPT ![w] = NoTask]
    BY <1>8 DEF AbandonTask
  <2>2. WorkMatchesPC'
    BY <1>0, <1>c, <2>1, WokenShape DEF WorkMatchesPC
  <2>3. OneWorkerPerTask'
    BY <1>0, <2>1 DEF OneWorkerPerTask
  <2>4. QED BY <1>c, <2>1, <2>2, <2>3 DEF DownIsIdle
<1>9. CASE FailAbandonedRun(w)
  BY <1>0, <1>9, <1>c DEF FailAbandonedRun, WorkMatchesPC, OneWorkerPerTask, DownIsIdle
<1>10. CASE BeginRun(w)
  BY <1>0, <1>10, <1>c DEF BeginRun, WorkMatchesPC, OneWorkerPerTask, DownIsIdle
<1>11. CASE FinishRun(w) \/ Checkpoint(w)
  BY <1>0, <1>11, <1>c DEF FinishRun, Checkpoint, WorkMatchesPC, OneWorkerPerTask, DownIsIdle
<1>12. CASE ReleaseProject(w)
  <2>1. /\ pc[w] = "release" /\ server' = server
        /\ phase' = [phase EXCEPT ![work[w]] = "over"]
        /\ pc' = [Woken(Project[work[w]]) EXCEPT ![w] = "poll"]
        /\ work' = [work EXCEPT ![w] = NoTask]
    BY <1>12 DEF ReleaseProject
  <2>2. WorkMatchesPC'
    BY <1>0, <1>c, <2>1, WokenShape DEF WorkMatchesPC
  <2>3. OneWorkerPerTask'
    BY <1>0, <2>1 DEF OneWorkerPerTask
  <2>4. QED BY <1>c, <2>1, <2>2, <2>3 DEF DownIsIdle
<1>13. QED
  BY <1>1, <1>2, <1>3, <1>4, <1>5, <1>6, <1>7, <1>8, <1>9, <1>10, <1>11, <1>12 DEF Worker

LEMMA NextWork == Shape /\ [Next]_vars => WorkMatchesPC' /\ OneWorkerPerTask' /\ DownIsIdle'
<1> SUFFICES ASSUME Shape, [Next]_vars
             PROVE  WorkMatchesPC' /\ OneWorkerPerTask' /\ DownIsIdle'
  OBVIOUS
<1>1. CASE Stop
  BY <1>1 DEF Stop, Shape, WorkMatchesPC, OneWorkerPerTask, DownIsIdle
<1>2. CASE Exit
  BY <1>2 DEF Exit, WorkMatchesPC, OneWorkerPerTask, DownIsIdle, IdlePCs, WaitingPCs, HoldingPCs
<1>3. CASE Boot
  BY <1>3 DEF Boot, Shape, WorkMatchesPC, OneWorkerPerTask, DownIsIdle, IdlePCs, WaitingPCs, HoldingPCs
<1>4. CASE UNCHANGED vars
  BY <1>4 DEF vars, serverVars, Shape, WorkMatchesPC, OneWorkerPerTask, DownIsIdle
<1>5. QED BY <1>1, <1>2, <1>3, <1>4, CallerKeepsWork, WorkerKeepsWork DEF Next

\* Every step but a send or a receive leaves the channels and their tasks alone.
LEMMA ChannelsKept ==
  ASSUME Shape, liveCh' = liveCh, fullCh' = fullCh,
         \A u \in Tasks : phase[u] = "queued" => phase'[u] = "queued"
  PROVE  ChannelsHoldQueuedTasks'
<1>1. /\ \A i \in 1..Len(fullCh) : fullCh[i] \in Tasks
      /\ \A i \in 1..Len(liveCh) : liveCh[i] \in Tasks
  BY DEF Shape, TypeOK
<1>2. QED BY <1>1 DEF Shape, ChannelsHoldQueuedTasks

LEMMA NextChannels == Shape /\ [Next]_vars => ChannelsHoldQueuedTasks'
<1> SUFFICES ASSUME Shape, [Next]_vars PROVE ChannelsHoldQueuedTasks'
  OBVIOUS
<1> USE DEF serverVars, gateVars
<1>0. /\ liveCh \in Seq(Tasks) /\ fullCh \in Seq(Tasks)
      /\ phase \in [Tasks -> Phases]
      /\ ChannelsHoldQueuedTasks
      /\ Wide \subseteq Tasks
  BY SchedulerAssumption DEF SchedulerAssumption, Shape, TypeOK
<1>1. ASSUME NEW t \in Tasks, Enqueue(t) PROVE ChannelsHoldQueuedTasks'
  <2>1. phase[t] = "sending" /\ phase' = [phase EXCEPT ![t] = "queued"]
    BY <1>1 DEF Enqueue
  <2>2. CASE t \in Wide
    <3>1. fullCh' = Append(fullCh, t) /\ liveCh' = liveCh
      BY <1>1, <2>2 DEF Enqueue
    <3>2. \A i \in 1..Len(fullCh) : fullCh[i] /= t
      BY <1>0, <2>1 DEF ChannelsHoldQueuedTasks
    <3>3. /\ Len(fullCh') = Len(fullCh) + 1 /\ Len(fullCh) \in Nat
          /\ \A i \in 1..Len(fullCh) : fullCh'[i] = fullCh[i]
          /\ fullCh'[Len(fullCh) + 1] = t
      BY <1>0, <3>1, ChannelSend
    <3>4. \A i \in 1..Len(fullCh') :
            fullCh'[i] = IF i = Len(fullCh) + 1 THEN t ELSE fullCh[i]
      BY <3>3
    <3>5. \A u \in Tasks : phase[u] = "queued" \/ u = t => phase'[u] = "queued"
      BY <1>0, <2>1
    <3>6. \A i \in 1..Len(fullCh') : fullCh'[i] \in Wide /\ phase'[fullCh'[i]] = "queued"
      BY <1>0, <2>2, <3>3, <3>4, <3>5 DEF ChannelsHoldQueuedTasks
    <3>7. \A i \in 1..Len(liveCh') : liveCh'[i] \notin Wide /\ phase'[liveCh'[i]] = "queued"
      BY <1>0, <3>1, <3>5 DEF ChannelsHoldQueuedTasks
    <3>8. \A i, j \in 1..Len(fullCh') : fullCh'[i] = fullCh'[j] => i = j
      BY <3>2, <3>3, <3>4, <1>0 DEF ChannelsHoldQueuedTasks
    <3>9. QED
      BY <1>0, <3>1, <3>6, <3>7, <3>8 DEF ChannelsHoldQueuedTasks
  <2>3. CASE t \notin Wide
    <3>1. liveCh' = Append(liveCh, t) /\ fullCh' = fullCh
      BY <1>1, <2>3 DEF Enqueue
    <3>2. \A i \in 1..Len(liveCh) : liveCh[i] /= t
      BY <1>0, <2>1 DEF ChannelsHoldQueuedTasks
    <3>3. /\ Len(liveCh') = Len(liveCh) + 1 /\ Len(liveCh) \in Nat
          /\ \A i \in 1..Len(liveCh) : liveCh'[i] = liveCh[i]
          /\ liveCh'[Len(liveCh) + 1] = t
      BY <1>0, <3>1, ChannelSend
    <3>4. \A i \in 1..Len(liveCh') :
            liveCh'[i] = IF i = Len(liveCh) + 1 THEN t ELSE liveCh[i]
      BY <3>3
    <3>5. QED
      BY <1>0, <2>1, <2>3, <3>1, <3>2, <3>3, <3>4 DEF ChannelsHoldQueuedTasks
  <2>4. QED BY <2>2, <2>3
<1>2. ASSUME NEW t \in Tasks, Caller(t) PROVE ChannelsHoldQueuedTasks'
  <2>1. phase[t] /= "queued" /\ \E x : phase' = [phase EXCEPT ![t] = x]
    BY <1>2, CallerEffect
  <2>2. Enqueue(t) \/ (liveCh' = liveCh /\ fullCh' = fullCh)
    BY <1>2 DEF Caller, Admit, PrepareProjectRun, RegisterPendingProjectWide, QueueFull,
       CallerCanceled, GiveUpSend, UnregisterPendingProjectWide, FailPreparedRun
  <2>3. QED BY <1>0, <1>1, <2>1, <2>2, ChannelsKept
<1>3. ASSUME NEW w \in Workers, TakeFull(w) PROVE ChannelsHoldQueuedTasks'
  <2>1. /\ fullCh /= <<>> /\ fullCh' = Tail(fullCh) /\ liveCh' = liveCh
        /\ phase' = [phase EXCEPT ![Head(fullCh)] = "claimed"]
    BY <1>3 DEF TakeFull, Take
  <2>2. /\ Head(fullCh) = fullCh[1] /\ Head(fullCh) \in Wide
        /\ Len(fullCh) \in Nat \ {0} /\ Len(fullCh') = Len(fullCh) - 1
        /\ \A i \in 1..Len(fullCh') : fullCh'[i] = fullCh[i + 1]
    BY <1>0, <2>1, ChannelReceive, ReceivedTask
  <2>3. \A i \in 1..Len(fullCh') : fullCh'[i] /= Head(fullCh)
    BY <1>0, <2>2 DEF ChannelsHoldQueuedTasks
  <2>4. QED BY <1>0, <2>1, <2>2, <2>3 DEF ChannelsHoldQueuedTasks
<1>4. ASSUME NEW w \in Workers, TakeLive(w) PROVE ChannelsHoldQueuedTasks'
  <2>1. /\ liveCh /= <<>> /\ liveCh' = Tail(liveCh) /\ fullCh' = fullCh
        /\ phase' = [phase EXCEPT ![Head(liveCh)] = "claimed"]
    BY <1>4 DEF TakeLive, Take
  <2>2. /\ Head(liveCh) = liveCh[1] /\ Head(liveCh) \in Tasks \ Wide
        /\ Len(liveCh) \in Nat \ {0} /\ Len(liveCh') = Len(liveCh) - 1
        /\ \A i \in 1..Len(liveCh') : liveCh'[i] = liveCh[i + 1]
    BY <1>0, <2>1, ChannelReceive, ReceivedTask
  <2>3. \A i \in 1..Len(liveCh') : liveCh'[i] /= Head(liveCh)
    BY <1>0, <2>2 DEF ChannelsHoldQueuedTasks
  <2>4. QED BY <1>0, <2>1, <2>2, <2>3 DEF ChannelsHoldQueuedTasks
<1>5. ASSUME NEW w \in Workers, Worker(w) PROVE ChannelsHoldQueuedTasks'
  <2>1. \/ TakeFull(w) \/ TakeLive(w)
        \/ /\ liveCh' = liveCh /\ fullCh' = fullCh
           /\ \/ phase' = phase
              \/ /\ work[w] \in Tasks /\ phase[work[w]] /= "queued"
                 /\ \E x : phase' = [phase EXCEPT ![work[w]] = x]
    <3> USE <1>5 DEF Shape, WorkMatchesPC, IdlePCs, WaitingPCs, HoldingPCs, Goto
    <3>1. CASE Poll(w) \/ TryFull(w) \/ TryLive(w) \/ Select(w)
      BY <3>1 DEF Poll, TryFull, TryLive, Select
    <3>2. CASE TryAcquire(w) BY <3>2 DEF TryAcquire
    <3>3. CASE Park(w) \/ CancelAcquire(w) BY <3>3 DEF Park, CancelAcquire
    <3>4. CASE AbandonTask(w) BY <3>4 DEF AbandonTask
    <3>5. CASE FailAbandonedRun(w) BY <3>5 DEF FailAbandonedRun
    <3>6. CASE BeginRun(w) \/ FinishRun(w) \/ Checkpoint(w) BY <3>6 DEF BeginRun, FinishRun, Checkpoint
    <3>7. CASE ReleaseProject(w) BY <3>7 DEF ReleaseProject
    <3>8. QED BY <3>1, <3>2, <3>3, <3>4, <3>5, <3>6, <3>7 DEF Worker
  <2>2. QED BY <1>0, <1>3, <1>4, <2>1, ChannelsKept
<1>6. CASE Exit
  BY <1>6 DEF Exit, ChannelsHoldQueuedTasks
<1>7. CASE Stop \/ Boot \/ UNCHANGED vars
  BY <1>7, ChannelsKept DEF Stop, Boot, vars
<1>8. QED BY <1>2, <1>5, <1>6, <1>7 DEF Next

LEMMA NextShape == Shape /\ [Next]_vars => Shape'
BY NextTypeOK, NextWork, NextChannels DEF Shape

\* Type correctness: every variable of the scheduler keeps its type and the
\* channels never exceed QueueDepth, whatever the interleaving of callers,
\* workers, Stop, crashes and restarts.
THEOREM TypeCorrect == Spec => []TypeOK
<1>1. Spec => []Shape
  BY InitShape, NextShape, PTL DEF Spec
<1>2. Shape => TypeOK
  BY DEF Shape
<1>3. QED BY <1>1, <1>2, PTL

-----------------------------------------------------------------------------
(* The gate: its counters, exclusivity and the limit. *)

Gate == CountersMatchTasks /\ WideRunsAlone /\ ProjectLimitRespected

\* What one task's change of phase does to the sets that the counters count.
LEMMA PhaseMove ==
  ASSUME Shape, NEW t \in Tasks, NEW y \in Phases, phase' = [phase EXCEPT ![t] = y],
         NEW p \in Projects
  PROVE  /\ Cardinality(ActiveIn(p)) \in Nat /\ Cardinality(PendingIn(p)) \in Nat
         /\ IsFiniteSet(ActiveIn(p)) /\ IsFiniteSet(PendingIn(p))
         /\ Project[t] = p /\ y = "active" /\ phase[t] /= "active" =>
              /\ ActiveIn(p)' = ActiveIn(p) \cup {t}
              /\ Cardinality(ActiveIn(p)') = Cardinality(ActiveIn(p)) + 1
         /\ Project[t] = p /\ y /= "active" /\ phase[t] = "active" =>
              /\ ActiveIn(p)' = ActiveIn(p) \ {t}
              /\ Cardinality(ActiveIn(p)') = Cardinality(ActiveIn(p)) - 1
         /\ Project[t] /= p \/ (y = "active" <=> phase[t] = "active") =>
              ActiveIn(p)' = ActiveIn(p)
         /\ Project[t] = p /\ t \in Wide /\ y \in PendingPhases /\ phase[t] \notin PendingPhases =>
              Cardinality(PendingIn(p)') = Cardinality(PendingIn(p)) + 1
         /\ Project[t] = p /\ t \in Wide /\ y \notin PendingPhases /\ phase[t] \in PendingPhases =>
              Cardinality(PendingIn(p)') = Cardinality(PendingIn(p)) - 1
         /\ Project[t] /= p \/ t \notin Wide \/ (y \in PendingPhases <=> phase[t] \in PendingPhases) =>
              PendingIn(p)' = PendingIn(p)
<1>1. phase \in [Tasks -> Phases] /\ IsFiniteSet(Tasks)
  BY SchedulerAssumption DEF Shape, TypeOK, SchedulerAssumption
<1>2. /\ Cardinality(ActiveIn(p)) \in Nat /\ Cardinality(PendingIn(p)) \in Nat
      /\ IsFiniteSet(ActiveIn(p)) /\ IsFiniteSet(PendingIn(p))
  <2>1. ActiveIn(p) \in SUBSET Tasks /\ PendingIn(p) \in SUBSET Tasks
    BY DEF ActiveIn, PendingIn, InPhase
  <2>2. QED BY <1>1, <2>1, FS_Subset, FS_CardinalityType
<1>3. ASSUME Project[t] = p, y = "active", phase[t] /= "active"
      PROVE  /\ ActiveIn(p)' = ActiveIn(p) \cup {t}
             /\ Cardinality(ActiveIn(p)') = Cardinality(ActiveIn(p)) + 1
  <2>1. ActiveIn(p)' = ActiveIn(p) \cup {t} /\ t \notin ActiveIn(p)
    BY <1>1, <1>3 DEF ActiveIn, InPhase
  <2>2. QED BY <1>2, <2>1, FS_AddElement
<1>4. ASSUME Project[t] = p, y /= "active", phase[t] = "active"
      PROVE  /\ ActiveIn(p)' = ActiveIn(p) \ {t}
             /\ Cardinality(ActiveIn(p)') = Cardinality(ActiveIn(p)) - 1
  <2>1. ActiveIn(p)' = ActiveIn(p) \ {t} /\ t \in ActiveIn(p)
    BY <1>1, <1>4 DEF ActiveIn, InPhase
  <2>2. Cardinality(ActiveIn(p) \ {t}) = Cardinality(ActiveIn(p)) - 1
    BY <1>2, <2>1, FS_RemoveElement
  <2>3. QED BY <2>1, <2>2
<1>5. ASSUME Project[t] /= p \/ (y = "active" <=> phase[t] = "active")
      PROVE  ActiveIn(p)' = ActiveIn(p)
  BY <1>1, <1>5 DEF ActiveIn, InPhase
<1>6. ASSUME Project[t] = p, t \in Wide, y \in PendingPhases, phase[t] \notin PendingPhases
      PROVE  Cardinality(PendingIn(p)') = Cardinality(PendingIn(p)) + 1
  <2>1. PendingIn(p)' = PendingIn(p) \cup {t} /\ t \notin PendingIn(p)
    BY <1>1, <1>6 DEF PendingIn, InPhase
  <2>2. QED BY <1>2, <2>1, FS_AddElement
<1>7. ASSUME Project[t] = p, t \in Wide, y \notin PendingPhases, phase[t] \in PendingPhases
      PROVE  Cardinality(PendingIn(p)') = Cardinality(PendingIn(p)) - 1
  <2>1. PendingIn(p)' = PendingIn(p) \ {t} /\ t \in PendingIn(p)
    BY <1>1, <1>7 DEF PendingIn, InPhase
  <2>2. Cardinality(PendingIn(p) \ {t}) = Cardinality(PendingIn(p)) - 1
    BY <1>2, <2>1, FS_RemoveElement
  <2>3. QED BY <2>1, <2>2
<1>8. ASSUME \/ Project[t] /= p \/ t \notin Wide
             \/ (y \in PendingPhases <=> phase[t] \in PendingPhases)
      PROVE  PendingIn(p)' = PendingIn(p)
  BY <1>1, <1>8 DEF PendingIn, InPhase
<1>9. QED BY <1>2, <1>3, <1>4, <1>5, <1>6, <1>7, <1>8


\* The cases of PhaseMove, one by one.
LEMMA ActiveLoses ==
  ASSUME Shape, NEW t \in Tasks, NEW y \in Phases, phase' = [phase EXCEPT ![t] = y],
         phase[t] = "active", y /= "active"
  PROVE  /\ ActiveIn(Project[t])' = ActiveIn(Project[t]) \ {t}
         /\ Cardinality(ActiveIn(Project[t])') = Cardinality(ActiveIn(Project[t])) - 1
         /\ \A q \in Projects \ {Project[t]} : ActiveIn(q)' = ActiveIn(q)
<1>1. Project[t] \in Projects
  BY SchedulerAssumption DEF SchedulerAssumption
<1>2. QED BY <1>1, PhaseMove

LEMMA PendingLoses ==
  ASSUME Shape, NEW t \in Wide, NEW y \in Phases, phase' = [phase EXCEPT ![t] = y],
         phase[t] \in PendingPhases, y \notin PendingPhases
  PROVE  Cardinality(PendingIn(Project[t])') = Cardinality(PendingIn(Project[t])) - 1
<1>1. Project[t] \in Projects /\ t \in Tasks
  BY SchedulerAssumption DEF SchedulerAssumption
<1>2. QED BY <1>1, PhaseMove

LEMMA PendingSame ==
  ASSUME Shape, NEW t \in Tasks, NEW y \in Phases, phase' = [phase EXCEPT ![t] = y],
         phase[t] \notin PendingPhases, y \notin PendingPhases
  PROVE  \A q \in Projects : PendingIn(q)' = PendingIn(q)
BY PhaseMove

LEMMA InitGate == Init => Gate
<1> SUFFICES ASSUME Init PROVE Gate
  OBVIOUS
<1>1. \A p \in Projects : ActiveIn(p) = {} /\ PendingIn(p) = {}
  BY DEF Init, ActiveIn, PendingIn, InPhase, PendingPhases
<1>2. Cardinality({}) = 0
  BY FS_EmptySet
<1>3. PerProjectWorkerLimit \in Nat
  BY SchedulerAssumption DEF SchedulerAssumption
<1>4. CountersMatchTasks
  BY <1>1, <1>2 DEF CountersMatchTasks, Init
<1>5. WideRunsAlone
  BY <1>1 DEF WideRunsAlone
<1>6. ProjectLimitRespected
  BY <1>1, <1>2, <1>3 DEF ProjectLimitRespected
<1>7. QED BY <1>4, <1>5, <1>6 DEF Gate

\* A step that moves no task in or out of what a counter counts.
LEMMA GateQuiet ==
  ASSUME Shape, Gate, UNCHANGED gateVars,
         \/ phase' = phase
         \/ \E t \in Tasks, y \in Phases :
              /\ phase' = [phase EXCEPT ![t] = y]
              /\ y = "active" <=> phase[t] = "active"
              /\ t \notin Wide \/ (y \in PendingPhases <=> phase[t] \in PendingPhases)
  PROVE  Gate'
<1>1. \A p \in Projects : ActiveIn(p)' = ActiveIn(p) /\ PendingIn(p)' = PendingIn(p)
  <2>1. CASE phase' = phase
    BY <2>1 DEF ActiveIn, PendingIn, InPhase
  <2>2. CASE phase' /= phase
    BY <2>2, PhaseMove
  <2>3. QED BY <2>1, <2>2
<1>2. QED
  BY <1>1 DEF Gate, CountersMatchTasks, WideRunsAlone, ProjectLimitRespected, gateVars

\* A wide task becomes pending.
LEMMA GateRegister ==
  ASSUME Shape, Gate, NEW t \in Tasks, RegisterPendingProjectWide(t)
  PROVE  Gate'
<1>1. CASE t \notin Wide
  BY <1>1, GateQuiet DEF RegisterPendingProjectWide, gateVars, Phases, PendingPhases
<1>2. CASE t \in Wide
  <2>1. /\ phase' = [phase EXCEPT ![t] = "sending"] /\ "sending" \in Phases
        /\ phase[t] \notin PendingPhases /\ phase[t] /= "active"
        /\ widePending' = [widePending EXCEPT ![Project[t]] = @ + 1]
        /\ active' = active /\ wideActive' = wideActive
    BY <1>2 DEF RegisterPendingProjectWide, PendingPhases, Phases
  <2>2. \A p \in Projects : ActiveIn(p)' = ActiveIn(p)
    BY <2>1, PhaseMove
  <2>3. \A p \in Projects : widePending'[p] = Cardinality(PendingIn(p)')
    <3> SUFFICES ASSUME NEW p \in Projects
                 PROVE  widePending'[p] = Cardinality(PendingIn(p)')
      OBVIOUS
    <3>1. widePending[p] = Cardinality(PendingIn(p)) /\ widePending \in [Projects -> Nat]
      BY DEF Gate, CountersMatchTasks, Shape, TypeOK
    <3>2. "sending" \in PendingPhases
      BY DEF PendingPhases
    <3>3. CASE Project[t] = p
      BY <1>2, <2>1, <3>1, <3>2, <3>3, PhaseMove
    <3>4. CASE Project[t] /= p
      <4>1. PendingIn(p)' = PendingIn(p)
        BY <2>1, <3>4, PhaseMove
      <4>2. QED BY <2>1, <3>1, <3>4, <4>1
    <3>5. QED BY <3>3, <3>4
  <2>4. QED
    BY <2>1, <2>2, <2>3 DEF Gate, CountersMatchTasks, WideRunsAlone, ProjectLimitRespected
<1>3. QED BY <1>1, <1>2

\* A wide task stops being pending without having become active: refused by the
\* channel, or given up by a cancelled worker.
LEMMA GateWithdraw ==
  ASSUME Shape, Gate, NEW t \in Wide, phase[t] \in PendingPhases,
         NEW y \in Phases, y \notin PendingPhases, y /= "active",
         phase' = [phase EXCEPT ![t] = y],
         widePending' = [widePending EXCEPT ![Project[t]] = Decremented(@)],
         active' = active, wideActive' = wideActive
  PROVE  Gate'
<1>0. t \in Tasks /\ phase[t] /= "active"
  BY SchedulerAssumption DEF SchedulerAssumption, PendingPhases
<1>1. \A p \in Projects : ActiveIn(p)' = ActiveIn(p)
  BY <1>0, PhaseMove
<1>2. \A p \in Projects : widePending'[p] = Cardinality(PendingIn(p)')
  <2> SUFFICES ASSUME NEW p \in Projects
               PROVE  widePending'[p] = Cardinality(PendingIn(p)')
    OBVIOUS
  <2>1. widePending[p] = Cardinality(PendingIn(p)) /\ widePending \in [Projects -> Nat]
    BY DEF Gate, CountersMatchTasks, Shape, TypeOK
  <2>2. CASE Project[t] = p
    <3>1. Cardinality(PendingIn(p)') = widePending[p] - 1
      BY <1>0, <2>1, <2>2, PhaseMove
    <3>2. widePending[p] > 0
      <4>1. t \in PendingIn(p) /\ IsFiniteSet(PendingIn(p))
        BY <1>0, <2>2, PhaseMove DEF PendingIn, InPhase
      <4>2. Cardinality(PendingIn(p)) /= 0 /\ Cardinality(PendingIn(p)) \in Nat
        BY <4>1, FS_EmptySet, FS_CardinalityType
      <4>3. QED BY <2>1, <4>2
    <3>3. QED BY <2>1, <2>2, <3>1, <3>2 DEF Decremented
  <2>3. CASE Project[t] /= p
    <3>1. PendingIn(p)' = PendingIn(p)
      BY <1>0, <2>3, PhaseMove
    <3>2. QED BY <2>1, <2>3, <3>1
  <2>4. QED BY <2>2, <2>3
<1>3. QED
  BY <1>1, <1>2 DEF Gate, CountersMatchTasks, WideRunsAlone, ProjectLimitRespected

\* A worker acquires the project: the heart of the argument. A wide task finds
\* no active task, so it becomes the only one; a path task finds no wide one.
LEMMA GateAcquire ==
  ASSUME Shape, Gate, NEW w \in Workers, TryAcquire(w),
         NEW t \in Tasks, t = work[w], NEW p \in Projects, p = Project[t]
  PROVE  Gate'
<1>0. /\ t \in Tasks /\ phase[t] = "claimed" /\ p \in Projects
      /\ phase' = [phase EXCEPT ![t] = "active"] /\ "active" \in Phases
      /\ active' = [active EXCEPT ![p] = @ + 1]
      /\ CanAcquire(t)
      /\ PerProjectWorkerLimit \in Nat \ {0} /\ Wide \subseteq Tasks
  BY SchedulerAssumption
     DEF SchedulerAssumption, TryAcquire, Shape, WorkMatchesPC, WaitingPCs, Phases
<1>m. /\ t \in Tasks /\ p \in Projects /\ p = Project[t] /\ phase[t] = "claimed"
      /\ phase' = [phase EXCEPT ![t] = "active"] /\ "active" \in Phases
  BY <1>0
<1>1. /\ active \in [Projects -> Nat] /\ wideActive \in [Projects -> BOOLEAN]
      /\ widePending \in [Projects -> Nat]
      /\ \A q \in Projects : /\ active[q] = Cardinality(ActiveIn(q))
                             /\ wideActive[q] = (ActiveIn(q) \cap Wide /= {})
                             /\ widePending[q] = Cardinality(PendingIn(q))
                             /\ Cardinality(ActiveIn(q)) <= PerProjectWorkerLimit
  BY DEF Gate, CountersMatchTasks, ProjectLimitRespected, Shape, TypeOK
<1>2. /\ ActiveIn(p)' = ActiveIn(p) \cup {t}
      /\ Cardinality(ActiveIn(p)') = Cardinality(ActiveIn(p)) + 1
      /\ \A q \in Projects \ {p} : ActiveIn(q)' = ActiveIn(q)
  BY ZenonT(40), <1>0, PhaseMove
<1>3. \A q \in Projects : active'[q] = Cardinality(ActiveIn(q)')
  BY <1>0, <1>1, <1>2
<1>4. CASE t \in Wide
  <2>1. /\ wideActive' = [wideActive EXCEPT ![p] = TRUE]
        /\ widePending' = [widePending EXCEPT ![p] = Decremented(@)]
    BY <1>4 DEF TryAcquire
  <2>2. active[p] = 0 /\ ActiveIn(p) = {}
    <3>1. active[p] = 0
      BY <1>0, <1>4 DEF CanAcquire
    <3>2. IsFiniteSet(ActiveIn(p))
      BY <1>0, PhaseMove
    <3>3. QED BY <1>0, <1>1, <3>1, <3>2, FS_EmptySet
  <2>3. ActiveIn(p)' = {t}
    BY <1>2, <2>2
  <2>4. \A q \in Projects : wideActive'[q] = (ActiveIn(q)' \cap Wide /= {})
    BY <1>0, <1>1, <1>2, <1>4, <2>1, <2>3
  <2>5. \A q \in Projects : widePending'[q] = Cardinality(PendingIn(q)')
    <3> SUFFICES ASSUME NEW q \in Projects
                 PROVE  widePending'[q] = Cardinality(PendingIn(q)')
      OBVIOUS
    <3>1. "claimed" \in PendingPhases /\ "active" \notin PendingPhases
      BY DEF PendingPhases
    <3>2. CASE q = p
      <4>1. Cardinality(PendingIn(q)') = widePending[q] - 1
        <5>1. Cardinality(PendingIn(p)') = Cardinality(PendingIn(p)) - 1
          BY <1>m, <1>4, <3>1, PendingLoses
        <5>2. QED BY <1>1, <3>2, <5>1
      <4>2. widePending[q] > 0
        <5>1. t \in PendingIn(q) /\ IsFiniteSet(PendingIn(q))
          BY <1>0, <1>4, <3>1, <3>2, PhaseMove DEF PendingIn, InPhase
        <5>2. Cardinality(PendingIn(q)) /= 0 /\ Cardinality(PendingIn(q)) \in Nat
          BY <5>1, FS_EmptySet, FS_CardinalityType
        <5>3. QED BY <1>1, <5>2
      <4>3. QED BY <1>0, <1>1, <2>1, <3>2, <4>1, <4>2 DEF Decremented
    <3>3. CASE q /= p
      <4>1. PendingIn(q)' = PendingIn(q)
        BY <1>0, <3>3, PhaseMove
      <4>2. QED BY <1>1, <2>1, <3>3, <4>1
    <3>4. QED BY <3>2, <3>3
  <2>6. WideRunsAlone'
    BY <1>2, <2>3 DEF Gate, WideRunsAlone
  <2>7. ProjectLimitRespected'
    <3> SUFFICES ASSUME NEW q \in Projects
                 PROVE  Cardinality(ActiveIn(q)') <= PerProjectWorkerLimit
      BY DEF ProjectLimitRespected
    <3>1. /\ Cardinality(ActiveIn(q)) \in Nat /\ PerProjectWorkerLimit \in Nat \ {0}
          /\ Cardinality(ActiveIn(q)) <= PerProjectWorkerLimit
      BY <1>0, <1>1
    <3>2. CASE q = p
      <4>1. Cardinality(ActiveIn(p)) < PerProjectWorkerLimit
        BY SMTT(30), <1>0, <1>1, <2>2, <3>1, <3>2
      <4>2. Cardinality(ActiveIn(q)') = Cardinality(ActiveIn(q)) + 1
        BY <1>2, <3>2
      <4>3. QED BY <3>1, <3>2, <4>1, <4>2
    <3>3. CASE q /= p
      BY <1>2, <3>1, <3>3
    <3>4. QED BY <3>2, <3>3
  <2>8. QED BY <1>3, <2>4, <2>5, <2>6, <2>7 DEF Gate, CountersMatchTasks
<1>5. CASE t \notin Wide
  <2>1. wideActive' = wideActive /\ widePending' = widePending
    BY <1>5 DEF TryAcquire
  <2>2. ~wideActive[p] /\ active[p] < PerProjectWorkerLimit
    BY <1>0, <1>5 DEF CanAcquire
  <2>3. ActiveIn(p) \cap Wide = {}
    BY <1>0, <1>1, <2>2
  <2>4. \A q \in Projects : wideActive'[q] = (ActiveIn(q)' \cap Wide /= {})
    BY <1>0, <1>1, <1>2, <1>5, <2>1, <2>3
  <2>5. \A q \in Projects : widePending'[q] = Cardinality(PendingIn(q)')
    <3>1. \A q \in Projects : PendingIn(q)' = PendingIn(q)
      BY <1>0, <1>5, PhaseMove
    <3>2. QED BY <1>1, <2>1, <3>1
  <2>6. WideRunsAlone'
    BY <1>2, <1>5, <2>3 DEF Gate, WideRunsAlone
  <2>7. ProjectLimitRespected'
    <3> SUFFICES ASSUME NEW q \in Projects
                 PROVE  Cardinality(ActiveIn(q)') <= PerProjectWorkerLimit
      BY DEF ProjectLimitRespected
    <3>1. /\ Cardinality(ActiveIn(q)) \in Nat /\ PerProjectWorkerLimit \in Nat \ {0}
          /\ Cardinality(ActiveIn(q)) <= PerProjectWorkerLimit
      BY <1>0, <1>1
    <3>2. CASE q = p
      <4>1. Cardinality(ActiveIn(p)) < PerProjectWorkerLimit
        BY <1>0, <1>1, <2>2, <3>1, <3>2
      <4>2. Cardinality(ActiveIn(q)') = Cardinality(ActiveIn(q)) + 1
        BY <1>2, <3>2
      <4>3. QED BY <3>1, <3>2, <4>1, <4>2
    <3>3. CASE q /= p
      BY <1>2, <3>1, <3>3
    <3>4. QED BY <3>2, <3>3
  <2>8. QED BY <1>3, <2>4, <2>5, <2>6, <2>7 DEF Gate, CountersMatchTasks
<1>6. QED BY <1>4, <1>5

LEMMA GateRelease ==
  ASSUME Shape, Gate, NEW w \in Workers, ReleaseProject(w),
         NEW t \in Tasks, t = work[w], NEW p \in Projects, p = Project[t]
  PROVE  Gate'
<1>0. /\ t \in Tasks /\ phase[t] = "active" /\ p \in Projects
      /\ phase' = [phase EXCEPT ![t] = "over"] /\ "over" \in Phases
      /\ active' = [active EXCEPT ![p] = Decremented(@)]
      /\ wideActive' = IF t \in Wide THEN [wideActive EXCEPT ![p] = FALSE] ELSE wideActive
      /\ widePending' = widePending
      /\ PerProjectWorkerLimit \in Nat
  BY SchedulerAssumption
     DEF SchedulerAssumption, ReleaseProject, Shape, WorkMatchesPC, HoldingPCs, Phases
<1>m. /\ t \in Tasks /\ p \in Projects /\ p = Project[t] /\ phase[t] = "active"
      /\ phase' = [phase EXCEPT ![t] = "over"] /\ "over" \in Phases
  BY <1>0
<1>1. /\ active \in [Projects -> Nat] /\ wideActive \in [Projects -> BOOLEAN]
      /\ widePending \in [Projects -> Nat]
      /\ \A q \in Projects : /\ active[q] = Cardinality(ActiveIn(q))
                             /\ wideActive[q] = (ActiveIn(q) \cap Wide /= {})
                             /\ widePending[q] = Cardinality(PendingIn(q))
                             /\ Cardinality(ActiveIn(q)) <= PerProjectWorkerLimit
                             /\ \A u, v \in ActiveIn(q) : u \in Wide => v = u
  BY DEF Gate, CountersMatchTasks, ProjectLimitRespected, WideRunsAlone, Shape, TypeOK
<1>2. /\ ActiveIn(p)' = ActiveIn(p) \ {t}
      /\ Cardinality(ActiveIn(p)') = Cardinality(ActiveIn(p)) - 1
      /\ \A q \in Projects \ {p} : ActiveIn(q)' = ActiveIn(q)
  BY <1>m, ActiveLoses
<1>3. t \in ActiveIn(p)
  BY <1>0 DEF ActiveIn, InPhase
<1>4. active[p] > 0
  <2>1. IsFiniteSet(ActiveIn(p))
    BY <1>0, PhaseMove
  <2>2. Cardinality(ActiveIn(p)) /= 0
    BY <1>3, <2>1, FS_EmptySet
  <2>3. QED BY <1>0, <1>1, <2>2
<1>5. \A q \in Projects : active'[q] = Cardinality(ActiveIn(q)')
  <2>1. active'[p] = active[p] - 1 /\ \A q \in Projects \ {p} : active'[q] = active[q]
    BY <1>0, <1>1, <1>4 DEF Decremented
  <2>2. QED BY ZenonT(40), <1>1, <1>2, <2>1
<1>6. \A q \in Projects : wideActive'[q] = (ActiveIn(q)' \cap Wide /= {})
  <2>1. CASE t \in Wide
    <3>1. ActiveIn(p)' = {}
      BY <1>0, <1>1, <1>2, <1>3, <2>1
    <3>2. /\ wideActive'[p] = FALSE
          /\ \A q \in Projects \ {p} : wideActive'[q] = wideActive[q]
      BY <1>0, <1>1, <2>1
    <3>3. \A q \in Projects \ {p} : wideActive'[q] = (ActiveIn(q)' \cap Wide /= {})
      BY <1>1, <1>2, <3>2
    <3>4. wideActive'[p] = (ActiveIn(p)' \cap Wide /= {})
      BY <3>1, <3>2
    <3>5. QED BY <3>3, <3>4
  <2>2. CASE t \notin Wide
    BY <1>0, <1>1, <1>2, <2>2
  <2>3. QED BY <2>1, <2>2
<1>7. \A q \in Projects : widePending'[q] = Cardinality(PendingIn(q)')
  <2>1. \A q \in Projects : PendingIn(q)' = PendingIn(q)
    <3>1. "over" \notin PendingPhases /\ "active" \notin PendingPhases
      BY DEF PendingPhases
    <3>2. QED BY <1>m, <3>1, PendingSame
  <2>2. QED BY <1>0, <1>1, <2>1
<1>8. WideRunsAlone'
  BY <1>1, <1>2 DEF WideRunsAlone
<1>9. ProjectLimitRespected'
  <2> SUFFICES ASSUME NEW q \in Projects
               PROVE  Cardinality(ActiveIn(q)') <= PerProjectWorkerLimit
    BY DEF ProjectLimitRespected
  <2>1. Cardinality(ActiveIn(q)) \in Nat /\ Cardinality(ActiveIn(q)) <= PerProjectWorkerLimit
    BY <1>1
  <2>2. CASE q = p
    <3>1. Cardinality(ActiveIn(q)') = Cardinality(ActiveIn(q)) - 1
      BY <1>2, <2>2
    <3>2. QED BY <1>0, <2>1, <3>1
  <2>3. CASE q /= p
    BY <1>2, <2>1, <2>3
  <2>4. QED BY <2>2, <2>3
<1>10. QED BY <1>5, <1>6, <1>7, <1>8, <1>9 DEF Gate, CountersMatchTasks

LEMMA NextGate == Shape /\ Gate /\ [Next]_vars => Gate'
<1> SUFFICES ASSUME Shape, Gate, [Next]_vars PROVE Gate'
  OBVIOUS
<1>0. /\ Project \in [Tasks -> Projects] /\ Wide \subseteq Tasks /\ Prepared \subseteq Wide
      /\ phase \in [Tasks -> Phases]
  BY SchedulerAssumption DEF SchedulerAssumption, Shape, TypeOK
<1>1. ASSUME NEW t \in Tasks, Caller(t) PROVE Gate'
  <2> USE DEF gateVars, Phases, PendingPhases
  <2>1. CASE Admit(t) BY <1>0, <2>1, GateQuiet DEF Admit
  <2>2. CASE PrepareProjectRun(t) BY <1>0, <2>2, GateQuiet DEF PrepareProjectRun
  <2>3. CASE RegisterPendingProjectWide(t) BY <2>3, GateRegister
  <2>4. CASE Enqueue(t) BY <1>0, <2>4, GateQuiet DEF Enqueue
  <2>5. CASE QueueFull(t) BY <1>0, <2>5, GateQuiet DEF QueueFull, GiveUpSend
  <2>6. CASE CallerCanceled(t) BY <1>0, <2>6, GateQuiet DEF CallerCanceled, GiveUpSend
  <2>7. CASE UnregisterPendingProjectWide(t)
    BY <1>0, <2>7, GateWithdraw DEF UnregisterPendingProjectWide
  <2>8. CASE FailPreparedRun(t) BY <1>0, <2>8, GateQuiet DEF FailPreparedRun
  <2>9. QED BY <1>1, <2>1, <2>2, <2>3, <2>4, <2>5, <2>6, <2>7, <2>8 DEF Caller
<1>2. ASSUME NEW w \in Workers, Worker(w) PROVE Gate'
  <2> USE DEF gateVars, Phases, PendingPhases
  <2>0. pc[w] \in WaitingPCs \cup HoldingPCs \cup {"failrun"} =>
          work[w] \in Tasks /\ Project[work[w]] \in Projects
    BY <1>0 DEF Shape, WorkMatchesPC
  <2>1. CASE Poll(w) \/ Park(w) \/ CancelAcquire(w)
    BY <2>1, GateQuiet DEF Poll, Park, CancelAcquire, Goto
  <2>a. CASE TakeFull(w) BY <2>a, ReceivedTask, GateQuiet DEF TakeFull, Take
  <2>b. CASE TakeLive(w) BY <2>b, ReceivedTask, GateQuiet DEF TakeLive, Take
  <2>2. CASE TryFull(w) \/ TryLive(w) \/ Select(w)
    BY <2>2, <2>a, <2>b, GateQuiet DEF TryFull, TryLive, Select, Goto
  <2>3. CASE TryAcquire(w)
    BY <2>0, <2>3, GateAcquire DEF TryAcquire, WaitingPCs
  <2>4. CASE AbandonTask(w)
    <3>1. work[w] \in Tasks /\ phase[work[w]] = "claimed"
      BY <2>4 DEF AbandonTask, Shape, WorkMatchesPC, WaitingPCs
    <3>2. CASE work[w] \in Wide
      BY <1>0, <2>4, <3>1, <3>2, GateWithdraw DEF AbandonTask
    <3>3. CASE work[w] \notin Wide
      BY <1>0, <2>4, <3>1, <3>3, GateQuiet DEF AbandonTask
    <3>4. QED BY <3>2, <3>3
  <2>5. CASE FailAbandonedRun(w)
    BY <2>5, GateQuiet DEF FailAbandonedRun, Shape, WorkMatchesPC
  <2>6. CASE BeginRun(w) \/ FinishRun(w) \/ Checkpoint(w)
    BY <2>6, GateQuiet DEF BeginRun, FinishRun, Checkpoint
  <2>7. CASE ReleaseProject(w)
    BY <2>0, <2>7, GateRelease DEF ReleaseProject, HoldingPCs
  <2>8. QED BY <1>2, <2>1, <2>2, <2>3, <2>4, <2>5, <2>6, <2>7 DEF Worker
<1>3. CASE Exit
  <2>1. \A p \in Projects : ActiveIn(p)' = {} /\ PendingIn(p)' = {}
    BY <1>3 DEF Exit, ActiveIn, PendingIn, InPhase, PendingPhases
  <2>2. Cardinality({}) = 0
    BY FS_EmptySet
  <2>3. PerProjectWorkerLimit \in Nat
    BY SchedulerAssumption DEF SchedulerAssumption
  <2>4. CountersMatchTasks'
    BY <1>3, <2>1, <2>2 DEF CountersMatchTasks, Exit
  <2>5. WideRunsAlone'
    BY <2>1 DEF WideRunsAlone
  <2>6. ProjectLimitRespected'
    BY <2>1, <2>2, <2>3 DEF ProjectLimitRespected
  <2>7. QED BY <2>4, <2>5, <2>6 DEF Gate
<1>4. CASE Stop \/ Boot \/ UNCHANGED vars
  BY <1>4, GateQuiet DEF Stop, Boot, vars
<1>5. QED BY <1>1, <1>2, <1>3, <1>4 DEF Next

\* The gate of a project, for every number of workers, tasks and projects: the
\* counters are exact, a project-wide task runs alone, and the per-project limit
\* holds.
THEOREM GateCorrect ==
  Spec => []CountersMatchTasks /\ []WideRunsAlone /\ []ProjectLimitRespected
<1>1. Init => Shape /\ Gate
  BY InitShape, InitGate
<1>2. Shape /\ Gate /\ [Next]_vars => (Shape /\ Gate)'
  BY NextShape, NextGate
<1>3. Shape /\ Gate => CountersMatchTasks /\ WideRunsAlone /\ ProjectLimitRespected
  BY DEF Gate
<1>4. QED BY <1>1, <1>2, <1>3, PTL DEF Spec

\* A full scan or an index rebuild runs alone in its project, for every value of
\* the constants: between acquireProject and releaseProject no other task does.
THEOREM WideWorkIsExclusive == Spec => []WideRunsAlone
BY GateCorrect, PTL

\* No number of workers and no order of calls takes a project past
\* per_project_worker_limit.
THEOREM LimitHolds == Spec => []ProjectLimitRespected
BY GateCorrect, PTL

-----------------------------------------------------------------------------
(* Refinement: every step is a step of TaskAdmission or leaves it alone. *)

\* What TaskAdmission sees of the scheduler.
Stages == [t \in Tasks |-> Stage(t)]

\* The phases that TaskAdmission does not tell apart.
OutsidePhases == {"new", "admitted", "prepared"}
OverPhases == {"failing", "abandoned", "over"}

LEMMA StageOfPhase ==
  ASSUME Shape, NEW t \in Tasks
  PROVE  /\ phase[t] \in OutsidePhases => Stages[t] = "outside"
         /\ phase[t] \in PendingPhases => Stages[t] = "waiting"
         /\ phase[t] = "active" => Stages[t] = "active"
         /\ phase[t] \in OverPhases => Stages[t] = "over"
BY DEF Stages, Stage, OutsidePhases, PendingPhases, OverPhases

\* A change of the phase of one task is a move of that task in TaskAdmission.
LEMMA StageMove ==
  ASSUME Shape, NEW t \in Tasks, NEW y \in Phases, phase' = [phase EXCEPT ![t] = y]
  PROVE  /\ y \in OutsidePhases => Stages' = [Stages EXCEPT ![t] = "outside"]
         /\ y \in PendingPhases => Stages' = [Stages EXCEPT ![t] = "waiting"]
         /\ y = "active" => Stages' = [Stages EXCEPT ![t] = "active"]
         /\ y \in OverPhases => Stages' = [Stages EXCEPT ![t] = "over"]
<1>1. phase \in [Tasks -> Phases]
  BY DEF Shape, TypeOK
<1>2. phase'[t] = y /\ \A u \in Tasks : u /= t => phase'[u] = phase[u]
  BY <1>1
<1>3. \A u \in Tasks : u /= t => Stage(u)' = Stage(u)
  BY <1>2 DEF Stage
<1>4. /\ y \in OutsidePhases => Stage(t)' = "outside"
      /\ y \in PendingPhases => Stage(t)' = "waiting"
      /\ y = "active" => Stage(t)' = "active"
      /\ y \in OverPhases => Stage(t)' = "over"
  BY <1>2 DEF Stage, OutsidePhases, PendingPhases, OverPhases
<1>5. Stages' = [Stages EXCEPT ![t] = Stage(t)']
  BY <1>3 DEF Stages
<1>6. QED BY <1>4, <1>5

LEMMA StageKept ==
  ASSUME Shape, NEW t \in Tasks, NEW y \in Phases, phase' = [phase EXCEPT ![t] = y],
         \/ y \in OutsidePhases /\ phase[t] \in OutsidePhases
         \/ y \in PendingPhases /\ phase[t] \in PendingPhases
         \/ y \in OverPhases /\ phase[t] \in OverPhases
  PROVE  Stages' = Stages
<1>1. Stages' = [Stages EXCEPT ![t] = Stages[t]]
  BY StageOfPhase, StageMove
<1>2. QED BY <1>1 DEF Stages

\* The sets of TaskAdmission are the ones that the counters count.
LEMMA StagesCounted ==
  ASSUME NEW p
  PROVE  /\ Admission!InStage("active", p) = ActiveIn(p)
         /\ Admission!InStage("waiting", p) \cap Wide = PendingIn(p)
BY DEF Admission!InStage, Stage, ActiveIn, PendingIn, InPhase, PendingPhases

LEMMA SameCardinality == \A S : Admission!Cardinality(S) = Cardinality(S)
BY DEF Admission!Cardinality, Cardinality

LEMMA InitAdmission == Init => Admission!Init
<1> SUFFICES ASSUME Init PROVE Admission!Init
  OBVIOUS
<1>1. \A t \in Tasks : Stage(t) = "outside"
  BY DEF Init, Stage, PendingPhases
<1>2. QED BY <1>1 DEF Admission!Init

\* acquireProject lets in exactly what TaskAdmission lets begin.
LEMMA AcquireAdmits ==
  ASSUME Shape, Gate, NEW t \in Tasks, phase[t] = "claimed", CanAcquire(t),
         phase' = [phase EXCEPT ![t] = "active"]
  PROVE  Admission!BeginWide(t) \/ Admission!BeginPath(t)
<1>0. PICK p \in Projects : p = Project[t]
  BY SchedulerAssumption DEF SchedulerAssumption
<1>1. /\ active[p] = Cardinality(ActiveIn(p)) /\ wideActive[p] = (ActiveIn(p) \cap Wide /= {})
      /\ widePending[p] = Cardinality(PendingIn(p))
  BY DEF Gate, CountersMatchTasks
<1>2. Admission!Move(t, "waiting", "active")
  <2>1. "claimed" \in PendingPhases /\ "active" \in Phases
    BY DEF PendingPhases, Phases
  <2>2. Stages[t] = "waiting" /\ Stages' = [Stages EXCEPT ![t] = "active"]
    BY <2>1, StageOfPhase, StageMove
  <2>3. QED BY <2>2 DEF Admission!Move, Stages
<1>3. IsFiniteSet(ActiveIn(p)) /\ IsFiniteSet(PendingIn(p))
  <2>1. IsFiniteSet(Tasks) /\ ActiveIn(p) \subseteq Tasks /\ PendingIn(p) \subseteq Tasks
    BY SchedulerAssumption DEF SchedulerAssumption, ActiveIn, PendingIn, InPhase
  <2>2. QED BY <2>1, FS_Subset
<1>4. CASE t \in Wide
  <2>1. ActiveIn(p) = {}
    BY <1>0, <1>1, <1>3, <1>4, FS_EmptySet DEF CanAcquire
  <2>2. Admission!InStage("active", Project[t]) = {}
    BY <1>0, <2>1, StagesCounted
  <2>3. QED BY <1>2, <1>4, <2>2 DEF Admission!BeginWide
<1>5. CASE t \notin Wide
  <2>1. /\ ActiveIn(p) \cap Wide = {} /\ PendingIn(p) = {}
        /\ Cardinality(ActiveIn(p)) < PerProjectWorkerLimit
    BY <1>0, <1>1, <1>3, <1>5, FS_EmptySet DEF CanAcquire
  <2>2. /\ (Admission!InStage("active", Project[t]) \cup
            Admission!InStage("waiting", Project[t])) \cap Wide = {}
        /\ Cardinality(Admission!InStage("active", Project[t])) < PerProjectWorkerLimit
    BY <1>0, <2>1, StagesCounted
  <2>3. QED BY <1>2, <1>5, <2>2, SameCardinality DEF Admission!BeginPath
<1>6. QED BY <1>4, <1>5

LEMMA NextAdmission ==
  Shape /\ Gate /\ [Next]_vars => Admission!Next \/ UNCHANGED Stages
<1> SUFFICES ASSUME Shape, Gate, [Next]_vars
             PROVE  Admission!Next \/ UNCHANGED Stages
  OBVIOUS
<1>0. Wide \subseteq Tasks /\ Prepared \subseteq Wide
  BY SchedulerAssumption DEF SchedulerAssumption
<1>a. ASSUME phase' = phase PROVE UNCHANGED Stages
  BY <1>a DEF Stages, Stage
<1>b. ASSUME NEW t \in Tasks, phase[t] \in OutsidePhases, phase' = [phase EXCEPT ![t] = "sending"]
      PROVE  Admission!Next
  <2>1. Stages[t] = "outside" /\ Stages' = [Stages EXCEPT ![t] = "waiting"]
    BY <1>b, StageOfPhase, StageMove DEF Phases, PendingPhases
  <2>2. Admission!Arrive(t)
    BY <2>1 DEF Admission!Arrive, Admission!Move, Stages
  <2>3. QED BY <2>2 DEF Admission!Next
<1>c. ASSUME NEW t \in Tasks, phase[t] \in OutsidePhases \cup PendingPhases,
             NEW y \in OverPhases, phase' = [phase EXCEPT ![t] = y]
      PROVE  Admission!Next
  <2>1. /\ Stages[t] = "outside" \/ Stages[t] = "waiting"
        /\ Stages' = [Stages EXCEPT ![t] = "over"]
    BY <1>c, StageOfPhase, StageMove DEF Phases, OverPhases
  <2>2. Admission!Withdraw(t)
    BY <2>1 DEF Admission!Withdraw, Admission!Move, Stages
  <2>3. QED BY <2>2 DEF Admission!Next
<1>1. ASSUME NEW t \in Tasks, Caller(t) PROVE Admission!Next \/ UNCHANGED Stages
  <2> USE DEF Phases, OutsidePhases, PendingPhases, OverPhases
  <2>1. CASE Admit(t) BY <2>1, StageKept DEF Admit
  <2>2. CASE PrepareProjectRun(t) BY <2>2, <1>c, StageKept DEF PrepareProjectRun
  <2>3. CASE RegisterPendingProjectWide(t) BY <2>3, <1>b DEF RegisterPendingProjectWide
  <2>4. CASE Enqueue(t) BY <2>4, StageKept DEF Enqueue
  <2>5. CASE QueueFull(t) BY <2>5, <1>c, StageKept DEF QueueFull, GiveUpSend
  <2>6. CASE CallerCanceled(t) BY <2>6, <1>c, StageKept DEF CallerCanceled, GiveUpSend
  <2>7. CASE UnregisterPendingProjectWide(t)
    BY <2>7, <1>c DEF UnregisterPendingProjectWide
  <2>8. CASE FailPreparedRun(t) BY <2>8, StageKept DEF FailPreparedRun
  <2>9. QED BY <1>1, <2>1, <2>2, <2>3, <2>4, <2>5, <2>6, <2>7, <2>8 DEF Caller
<1>2. ASSUME NEW w \in Workers, Worker(w) PROVE Admission!Next \/ UNCHANGED Stages
  <2> USE DEF Phases, PendingPhases, OverPhases
  <2>1. CASE Poll(w) \/ Park(w) \/ CancelAcquire(w) \/ BeginRun(w) \/ FinishRun(w) \/ Checkpoint(w)
    BY <2>1, <1>a DEF Poll, Park, CancelAcquire, BeginRun, FinishRun, Checkpoint, Goto
  <2>a. CASE TakeFull(w) BY <2>a, ReceivedTask, StageKept DEF TakeFull, Take
  <2>b. CASE TakeLive(w) BY <2>b, ReceivedTask, StageKept DEF TakeLive, Take
  <2>2. CASE TryFull(w) \/ TryLive(w) \/ Select(w)
    BY <2>2, <2>a, <2>b, <1>a DEF TryFull, TryLive, Select, Goto
  <2>3. CASE TryAcquire(w)
    <3>1. work[w] \in Tasks /\ phase[work[w]] = "claimed"
      BY <2>3 DEF TryAcquire, Shape, WorkMatchesPC, WaitingPCs
    <3>2. QED BY <2>3, <3>1, AcquireAdmits DEF TryAcquire, Admission!Next
  <2>4. CASE AbandonTask(w)
    <3>1. work[w] \in Tasks /\ phase[work[w]] = "claimed"
      BY <2>4 DEF AbandonTask, Shape, WorkMatchesPC, WaitingPCs
    <3>2. QED BY <2>4, <3>1, <1>c DEF AbandonTask
  <2>5. CASE FailAbandonedRun(w)
    BY <2>5, StageKept DEF FailAbandonedRun, Shape, WorkMatchesPC
  <2>6. CASE ReleaseProject(w)
    <3>1. work[w] \in Tasks /\ phase[work[w]] = "active"
      BY <2>6 DEF ReleaseProject, Shape, WorkMatchesPC, HoldingPCs
    <3>2. Stages[work[w]] = "active" /\ Stages' = [Stages EXCEPT ![work[w]] = "over"]
      BY <2>6, <3>1, StageOfPhase, StageMove DEF ReleaseProject
    <3>3. Admission!Finish(work[w])
      BY <3>2 DEF Admission!Finish, Admission!Move, Stages
    <3>4. QED BY <3>1, <3>3 DEF Admission!Next
  <2>7. QED BY <1>2, <2>1, <2>2, <2>3, <2>4, <2>5, <2>6 DEF Worker
<1>3. CASE Exit
  <2>1. \A t \in Tasks : /\ Stage(t)' \in {"outside", "over"}
                         /\ Stage(t)' = "outside" => Stage(t) = "outside"
    BY <1>3 DEF Exit, Stage, PendingPhases
  <2>2. Admission!Lose
    BY <2>1 DEF Admission!Lose
  <2>3. QED BY <2>2 DEF Admission!Next
<1>4. CASE Stop \/ Boot \/ UNCHANGED vars
  BY <1>4, <1>a DEF Stop, Boot, vars
<1>5. QED BY <1>1, <1>2, <1>3, <1>4 DEF Next

\* The channels, workers, counters and wakeups of scheduler.go implement the
\* admission discipline of TaskAdmission, for every value of the constants.
THEOREM AdmissionImplemented == Spec => ImplementsAdmission
<1>1. Init => Shape /\ Gate /\ Admission!Init
  BY InitShape, InitGate, InitAdmission
<1>2. Shape /\ Gate /\ [Next]_vars => (Shape /\ Gate)'
  BY NextShape, NextGate
<1>3. Shape /\ Gate /\ [Next]_vars => [Admission!Next]_([t \in Tasks |-> Stage(t)])
  BY NextAdmission DEF Stages
<1>4. QED BY <1>1, <1>2, <1>3, PTL DEF Spec, ImplementsAdmission, Admission!Spec

-----------------------------------------------------------------------------
(* Wakeups: a parked worker cannot have its project. *)

\* A step that leaves a parked worker parked has not made its project easier to
\* acquire.
LEMMA StillParked ==
  ASSUME Shape, Shape', ParkedWorkersMustWait,
         \A v \in Workers : pc'[v] = "parked" =>
           /\ pc[v] = "parked" /\ work'[v] = work[v]
           /\ LET q == Project[work[v]] IN
                /\ active'[q] >= active[q]
                /\ wideActive[q] => wideActive'[q]
                /\ widePending'[q] >= widePending[q]
  PROVE  ParkedWorkersMustWait'
<1> SUFFICES ASSUME NEW v \in Workers, pc'[v] = "parked", CanAcquire(work[v])'
             PROVE  FALSE
  BY DEF ParkedWorkersMustWait
<1>1. /\ work[v] \in Tasks /\ Project[work[v]] \in Projects
      /\ pc[v] = "parked" /\ work'[v] = work[v] /\ ~CanAcquire(work[v])
  BY SchedulerAssumption
     DEF SchedulerAssumption, Shape, WorkMatchesPC, WaitingPCs, ParkedWorkersMustWait
<1> DEFINE t == work[v]
<1>2. PICK q \in Projects : q = Project[work[v]]
  BY <1>1
<1>3. /\ active'[q] >= active[q] /\ active[q] \in Nat /\ active'[q] \in Nat
      /\ wideActive[q] => wideActive'[q]
      /\ widePending'[q] >= widePending[q] /\ widePending[q] \in Nat /\ widePending'[q] \in Nat
      /\ PerProjectWorkerLimit \in Nat
  BY <1>1, <1>2, SchedulerAssumption DEF SchedulerAssumption, Shape, TypeOK
<1>4. CASE work[v] \in Wide
  <2>1. active'[q] = 0 /\ ~wideActive'[q]
    BY <1>1, <1>2, <1>4 DEF CanAcquire
  <2>2. active[q] = 0 /\ ~wideActive[q]
    BY <1>3, <2>1
  <2>3. QED BY <1>1, <1>2, <1>4, <2>2 DEF CanAcquire
<1>5. CASE work[v] \notin Wide
  <2>1. ~wideActive'[q] /\ widePending'[q] = 0 /\ active'[q] < PerProjectWorkerLimit
    BY <1>1, <1>2, <1>5 DEF CanAcquire
  <2>2. ~wideActive[q] /\ widePending[q] = 0 /\ active[q] < PerProjectWorkerLimit
    BY <1>3, <2>1
  <2>3. QED BY <1>1, <1>2, <1>5, <2>2 DEF CanAcquire
<1>6. QED BY <1>4, <1>5

\* A step that wakes everybody parked on the one project it changes.
LEMMA WokenUp ==
  ASSUME Shape, Shape', ParkedWorkersMustWait, NEW p \in Projects,
         \A v \in Workers : pc'[v] = "parked" => Woken(p)[v] = "parked" /\ work'[v] = work[v],
         \A q \in Projects \ {p} :
           /\ active'[q] = active[q]
           /\ wideActive'[q] = wideActive[q]
           /\ widePending'[q] = widePending[q]
  PROVE  ParkedWorkersMustWait'
<1> SUFFICES ASSUME NEW v \in Workers, pc'[v] = "parked"
             PROVE  /\ pc[v] = "parked" /\ work'[v] = work[v]
                    /\ LET q == Project[work[v]] IN
                         /\ active'[q] >= active[q]
                         /\ wideActive[q] => wideActive'[q]
                         /\ widePending'[q] >= widePending[q]
  BY StillParked
<1>1. pc[v] = "parked" /\ Project[work[v]] /= p /\ work'[v] = work[v]
  BY WokenShape DEF Shape
<1>2. Project[work[v]] \in Projects \ {p}
  BY <1>1, SchedulerAssumption DEF SchedulerAssumption, Shape, WorkMatchesPC, WaitingPCs
<1>3. \A q \in Projects : active[q] \in Nat /\ widePending[q] \in Nat
  BY DEF Shape, TypeOK
<1>4. QED BY <1>1, <1>2, <1>3

LEMMA InitParked == Init => ParkedWorkersMustWait
BY DEF Init, ParkedWorkersMustWait

LEMMA NextParked ==
  Shape /\ ParkedWorkersMustWait /\ [Next]_vars => ParkedWorkersMustWait'
<1> SUFFICES ASSUME Shape, ParkedWorkersMustWait, [Next]_vars PROVE ParkedWorkersMustWait'
  OBVIOUS
<1>0. /\ Shape'
      /\ Project \in [Tasks -> Projects]
      /\ active \in [Projects -> Nat] /\ wideActive \in [Projects -> BOOLEAN]
      /\ widePending \in [Projects -> Nat]
      /\ \A q \in Projects : active[q] \in Nat /\ widePending[q] \in Nat
      /\ pc \in [Workers -> IdlePCs \cup WaitingPCs \cup HoldingPCs \cup {"failrun"}]
  BY NextShape, SchedulerAssumption DEF SchedulerAssumption, Shape, TypeOK
<1>1. ASSUME UNCHANGED <<gateVars, work>>,
             \A v \in Workers : pc'[v] = "parked" => pc[v] = "parked"
      PROVE  ParkedWorkersMustWait'
  <2>1. \A v \in Workers : pc'[v] = "parked" => Project[work[v]] \in Projects
    BY <1>0, <1>1 DEF Shape, WorkMatchesPC, WaitingPCs
  <2>2. QED BY <1>0, <1>1, <2>1, StillParked DEF gateVars
<1>2. ASSUME NEW t \in Tasks, Caller(t) PROVE ParkedWorkersMustWait'
  <2>1. CASE RegisterPendingProjectWide(t) /\ t \in Wide
    <3>1. \A q \in Projects \ {Project[t]} : widePending'[q] = widePending[q]
      BY <1>0, <2>1 DEF RegisterPendingProjectWide
    <3>2. QED BY <1>0, <2>1, <3>1, WokenUp DEF RegisterPendingProjectWide
  <2>2. CASE UnregisterPendingProjectWide(t)
    <3>1. \A q \in Projects \ {Project[t]} : widePending'[q] = widePending[q]
      BY <1>0, <2>2 DEF UnregisterPendingProjectWide
    <3>2. QED BY <1>0, <2>2, <3>1, WokenUp DEF UnregisterPendingProjectWide
  <2>3. CASE ~(RegisterPendingProjectWide(t) /\ t \in Wide) /\ ~UnregisterPendingProjectWide(t)
    <3>1. UNCHANGED <<gateVars, work, pc>>
      BY <1>2, <2>3 DEF Caller, Admit, PrepareProjectRun, RegisterPendingProjectWide, Enqueue,
         QueueFull, CallerCanceled, GiveUpSend, FailPreparedRun, gateVars
    <3>2. QED BY <1>1, <3>1
  <2>4. QED BY <2>1, <2>2, <2>3
<1>3. ASSUME NEW w \in Workers, Worker(w) PROVE ParkedWorkersMustWait'
  <2>0. pc[w] \in WaitingPCs \cup HoldingPCs \cup {"failrun"} =>
          work[w] \in Tasks /\ Project[work[w]] \in Projects
    BY <1>0 DEF Shape, WorkMatchesPC
  <2>1. CASE Poll(w) \/ CancelAcquire(w) \/ BeginRun(w) \/ FinishRun(w) \/ Checkpoint(w)
    BY <1>0, <1>1, <2>1 DEF Poll, AfterFull, CancelAcquire, BeginRun, FinishRun, Checkpoint, Goto, gateVars
  <2>a. ASSUME NEW t \in Tasks, Take(w, t), pc[w] \in IdlePCs PROVE ParkedWorkersMustWait'
    <3>1. \A v \in Workers : pc'[v] = "parked" => pc[v] = "parked" /\ v /= w
      BY <1>0, <2>a DEF Take
    <3>2. \A v \in Workers : v /= w => work'[v] = work[v]
      BY <2>a DEF Take
    <3>3. \A v \in Workers : pc[v] = "parked" => Project[work[v]] \in Projects
      BY <1>0 DEF Shape, WorkMatchesPC, WaitingPCs
    <3>4. UNCHANGED gateVars
      BY <2>a DEF Take
    <3>5. QED BY <1>0, <3>1, <3>2, <3>3, <3>4, StillParked DEF gateVars
  <2>2. CASE TryFull(w) \/ TryLive(w) \/ Select(w)
    <3>1. CASE TakeFull(w) \/ TakeLive(w)
      <4>1. pc[w] \in IdlePCs
        BY <2>2 DEF TryFull, TryLive, Select, IdlePCs
      <4>2. QED BY <2>a, <3>1, <4>1, ReceivedTask DEF TakeFull, TakeLive
    <3>2. CASE ~(TakeFull(w) \/ TakeLive(w))
      BY <1>0, <1>1, <2>2, <3>2 DEF TryFull, TryLive, Select, AfterFull, Goto, gateVars
    <3>3. QED BY <3>1, <3>2
  <2>3. CASE TryAcquire(w)
    <3>1. PICK p \in Projects : p = Project[work[w]]
      BY <2>0, <2>3 DEF TryAcquire, WaitingPCs
    <3>2. CASE work[w] \in Wide
      <4>1. /\ \A q \in Projects \ {p} : /\ active'[q] = active[q]
                                         /\ wideActive'[q] = wideActive[q]
                                         /\ widePending'[q] = widePending[q]
        BY <1>0, <2>3, <3>1, <3>2 DEF TryAcquire
      <4>2. \A v \in Workers : pc'[v] = "parked" => Woken(p)[v] = "parked" /\ work'[v] = work[v]
        BY <1>0, <2>3, <3>1, <3>2 DEF TryAcquire, Woken
      <4>3. QED BY <1>0, <4>1, <4>2, WokenUp
    <3>3. CASE work[w] \notin Wide
      <4>1. \A v \in Workers : pc'[v] = "parked" => pc[v] = "parked" /\ Project[work[v]] \in Projects
        BY <1>0, <2>3, <3>3 DEF TryAcquire, Shape, WorkMatchesPC, WaitingPCs
      <4>2. \A q \in Projects : /\ active'[q] >= active[q]
                                /\ wideActive'[q] = wideActive[q]
                                /\ widePending'[q] >= widePending[q]
        <5>1. active' = [active EXCEPT ![p] = @ + 1]
          BY <2>3, <3>1 DEF TryAcquire
        <5>2. wideActive' = wideActive /\ widePending' = widePending
          BY <2>3, <3>3 DEF TryAcquire
        <5>3. QED BY <1>0, <5>1, <5>2
      <4>3. work' = work
        BY <2>3 DEF TryAcquire
      <4>4. QED BY <1>0, <4>1, <4>2, <4>3, StillParked
    <3>4. QED BY <3>2, <3>3
  <2>4. CASE Park(w)
    <3>1. ~CanAcquire(work[w]) /\ pc' = [pc EXCEPT ![w] = "parked"] /\ UNCHANGED <<gateVars, work>>
      BY <2>4 DEF Park, Goto
    <3>2. \A v \in Workers : CanAcquire(work[v])' = CanAcquire(work[v])
      BY <3>1 DEF CanAcquire, gateVars
    <3>3. QED BY <1>0, <3>1, <3>2 DEF ParkedWorkersMustWait
  <2>5. CASE AbandonTask(w)
    <3>1. PICK p \in Projects : p = Project[work[w]]
      BY <2>0, <2>5 DEF AbandonTask, WaitingPCs
    <3>2. \A q \in Projects \ {p} : /\ active'[q] = active[q]
                                    /\ wideActive'[q] = wideActive[q]
                                    /\ widePending'[q] = widePending[q]
      BY <1>0, <2>5, <3>1 DEF AbandonTask
    <3>3. /\ \A v \in Workers : pc'[v] = "parked" => pc[v] = "parked" /\ v /= w
          /\ \A v \in Workers : v /= w => work'[v] = work[v]
      <4>1. CASE work[w] \in Prepared
        <5>1. pc' = [Woken(p) EXCEPT ![w] = "failrun"] /\ work' = work
          BY <2>5, <3>1, <4>1 DEF AbandonTask
        <5>2. QED BY <5>1 DEF Woken
      <4>2. CASE work[w] \notin Prepared /\ work[w] \in Wide
        <5>1. pc' = [Woken(p) EXCEPT ![w] = "poll"] /\ work' = [work EXCEPT ![w] = NoTask]
          BY <2>5, <3>1, <4>2 DEF AbandonTask
        <5>2. QED BY <1>0, <5>1 DEF Woken, Shape, TypeOK
      <4>3. CASE work[w] \notin Prepared /\ work[w] \notin Wide
        <5>1. pc' = [pc EXCEPT ![w] = "poll"] /\ work' = [work EXCEPT ![w] = NoTask]
          BY <2>5, <3>1, <4>3 DEF AbandonTask
        <5>2. QED BY <1>0, <5>1 DEF Shape, TypeOK
      <4>4. QED BY <4>1, <4>2, <4>3
    <3>4. CASE work[w] \in Wide
      <4>1. \A v \in Workers : pc'[v] = "parked" => Woken(p)[v] = "parked"
        BY <1>0, <2>5, <3>1, <3>3, <3>4, SchedulerAssumption
           DEF SchedulerAssumption, AbandonTask, Woken
      <4>2. QED BY <1>0, <3>2, <3>3, <4>1, WokenUp
    <3>5. CASE work[w] \notin Wide
      <4>1. UNCHANGED gateVars
        BY <2>5, <3>5 DEF AbandonTask, gateVars
      <4>2. \A v \in Workers : pc[v] = "parked" => Project[work[v]] \in Projects
        BY <1>0 DEF Shape, WorkMatchesPC, WaitingPCs
      <4>3. QED BY <1>0, <3>3, <4>1, <4>2, StillParked DEF gateVars
    <3>6. QED BY <3>4, <3>5
  <2>6. CASE FailAbandonedRun(w)
    <3>1. /\ \A v \in Workers : pc'[v] = "parked" => pc[v] = "parked" /\ v /= w
          /\ \A v \in Workers : v /= w => work'[v] = work[v]
          /\ UNCHANGED gateVars
      BY <1>0, <2>6 DEF FailAbandonedRun
    <3>2. \A v \in Workers : pc[v] = "parked" => Project[work[v]] \in Projects
      BY <1>0 DEF Shape, WorkMatchesPC, WaitingPCs
    <3>3. QED BY <1>0, <3>1, <3>2, StillParked DEF gateVars
  <2>7. CASE ReleaseProject(w)
    <3>1. PICK p \in Projects : p = Project[work[w]]
      BY <2>0, <2>7 DEF ReleaseProject, HoldingPCs
    <3>2. \A q \in Projects \ {p} : /\ active'[q] = active[q]
                                    /\ wideActive'[q] = wideActive[q]
                                    /\ widePending'[q] = widePending[q]
      BY <1>0, <2>7, <3>1 DEF ReleaseProject
    <3>3. \A v \in Workers : pc'[v] = "parked" => Woken(p)[v] = "parked" /\ work'[v] = work[v]
      BY <1>0, <2>7, <3>1 DEF ReleaseProject, Woken
    <3>4. QED BY <1>0, <3>2, <3>3, WokenUp
  <2>8. QED BY <1>3, <2>1, <2>2, <2>3, <2>4, <2>5, <2>6, <2>7 DEF Worker
<1>4. CASE Exit
  BY <1>4 DEF Exit, ParkedWorkersMustWait
<1>5. CASE Boot
  BY <1>5 DEF Boot, ParkedWorkersMustWait
<1>6. CASE Stop \/ UNCHANGED vars
  BY <1>1, <1>6 DEF Stop, vars, gateVars
<1>7. QED BY <1>2, <1>3, <1>4, <1>5, <1>6 DEF Next

\* No wakeup is lost: in every reachable state a worker parked in acquireProject
\* is one that canAcquireProjectLocked would refuse now.
THEOREM NoLostWakeup == Spec => []ParkedWorkersMustWait
<1>1. Init => Shape /\ ParkedWorkersMustWait
  BY InitShape, InitParked
<1>2. Shape /\ ParkedWorkersMustWait /\ [Next]_vars => (Shape /\ ParkedWorkersMustWait)'
  BY NextShape, NextParked
<1>3. QED BY <1>1, <1>2, PTL DEF Spec

-----------------------------------------------------------------------------
(* Tasks keep their place, and what a pool that stands still looks like. *)

\* The converse of ChannelsHoldQueuedTasks and WorkMatchesPC: a queued task is in
\* the channel of its kind, and a task past its channel has a worker.
Placed ==
  \A t \in Tasks :
    /\ phase[t] = "queued" /\ t \in Wide => \E i \in 1..Len(fullCh) : fullCh[i] = t
    /\ phase[t] = "queued" /\ t \notin Wide => \E i \in 1..Len(liveCh) : liveCh[i] = t
    /\ phase[t] \in HeldPhases => \E w \in Workers : work[w] = t

LEMMA InitPlaced == Init => Placed
BY DEF Init, Placed, HeldPhases

\* One task moves to a phase in which it is not queued, the other tasks keep
\* their workers, and so does it if it is still held.
LEMMA PlacedKept ==
  ASSUME Shape, Placed, NEW t \in Tasks, NEW y, phase' = [phase EXCEPT ![t] = y],
         y /= "queued", UNCHANGED <<liveCh, fullCh>>,
         y \in HeldPhases => \E w \in Workers : work'[w] = t,
         \A w \in Workers : work[w] \in Tasks /\ work[w] /= t => work'[w] = work[w]
  PROVE  Placed'
<1>1. phase'[t] = y /\ \A u \in Tasks : u /= t => phase'[u] = phase[u]
  BY DEF Shape, TypeOK
<1>2. ASSUME NEW u \in Tasks, u /= t, phase'[u] \in HeldPhases
      PROVE  \E w \in Workers : work'[w] = u
  BY <1>1, <1>2 DEF Placed
<1>3. QED BY <1>1, <1>2 DEF Placed

LEMMA PlacedSend ==
  ASSUME Shape, Placed, NEW t \in Tasks, Enqueue(t)
  PROVE  Placed'
<1>0. /\ liveCh \in Seq(Tasks) /\ fullCh \in Seq(Tasks)
      /\ phase' = [phase EXCEPT ![t] = "queued"] /\ work' = work
      /\ phase'[t] = "queued" /\ \A u \in Tasks : u /= t => phase'[u] = phase[u]
  BY DEF Shape, TypeOK, Enqueue
<1>1. \A u \in Tasks : phase'[u] \in HeldPhases => \E w \in Workers : work'[w] = u
  BY <1>0 DEF Placed, HeldPhases
<1>2. CASE t \in Wide
  <2>1. fullCh' = Append(fullCh, t) /\ liveCh' = liveCh
    BY <1>2 DEF Enqueue
  <2>2. /\ Len(fullCh') = Len(fullCh) + 1 /\ Len(fullCh) \in Nat
        /\ \A i \in 1..Len(fullCh) : fullCh'[i] = fullCh[i]
        /\ fullCh'[Len(fullCh) + 1] = t
    BY <1>0, <2>1, ChannelSend
  <2>3. QED BY <1>0, <1>1, <1>2, <2>1, <2>2 DEF Placed
<1>3. CASE t \notin Wide
  <2>1. liveCh' = Append(liveCh, t) /\ fullCh' = fullCh
    BY <1>3 DEF Enqueue
  <2>2. /\ Len(liveCh') = Len(liveCh) + 1 /\ Len(liveCh) \in Nat
        /\ \A i \in 1..Len(liveCh) : liveCh'[i] = liveCh[i]
        /\ liveCh'[Len(liveCh) + 1] = t
    BY <1>0, <2>1, ChannelSend
  <2>3. QED BY <1>0, <1>1, <1>3, <2>1, <2>2 DEF Placed
<1>4. QED BY <1>2, <1>3

LEMMA PlacedReceive ==
  ASSUME Shape, Placed, NEW w \in Workers, pc[w] \in IdlePCs, TakeFull(w) \/ TakeLive(w)
  PROVE  Placed'
<1>0. /\ liveCh \in Seq(Tasks) /\ fullCh \in Seq(Tasks) /\ phase \in [Tasks -> Phases]
      /\ work \in [Workers -> Tasks \cup {NoTask}] /\ work[w] = NoTask /\ NoTask \notin Tasks
  BY SchedulerAssumption DEF SchedulerAssumption, Shape, TypeOK, WorkMatchesPC
<1>a. ASSUME NEW t \in Tasks, Take(w, t)
      PROVE  /\ phase'[t] = "claimed" /\ \A u \in Tasks : u /= t => phase'[u] = phase[u]
             /\ \A u \in Tasks : phase'[u] \in HeldPhases => \E v \in Workers : work'[v] = u
  <2>1. /\ phase'[t] = "claimed" /\ \A u \in Tasks : u /= t => phase'[u] = phase[u]
        /\ work'[w] = t /\ \A v \in Workers : v /= w => work'[v] = work[v]
    BY <1>0, <1>a DEF Take
  <2>2. ASSUME NEW u \in Tasks, u /= t, phase[u] \in HeldPhases
        PROVE  \E v \in Workers : work'[v] = u
    BY <1>0, <2>1, <2>2 DEF Placed
  <2>3. QED BY <2>1, <2>2
<1>1. CASE TakeFull(w)
  <2> DEFINE t == Head(fullCh)
  <2>1. fullCh /= <<>> /\ Take(w, t) /\ fullCh' = Tail(fullCh) /\ liveCh' = liveCh
    BY <1>1 DEF TakeFull
  <2>2. /\ t \in Tasks /\ t \in Wide /\ t = fullCh[1]
        /\ Len(fullCh) \in Nat \ {0} /\ Len(fullCh') = Len(fullCh) - 1
        /\ \A i \in 1..Len(fullCh') : fullCh'[i] = fullCh[i + 1]
    BY <1>0, <2>1, ChannelReceive, ReceivedTask
  <2> HIDE DEF t
  <2>3. /\ phase'[t] = "claimed" /\ \A u \in Tasks : u /= t => phase'[u] = phase[u]
        /\ \A u \in Tasks : phase'[u] \in HeldPhases => \E v \in Workers : work'[v] = u
    BY <1>a, <2>1, <2>2
  <2>4. ASSUME NEW u \in Tasks, u \in Wide, phase'[u] = "queued"
        PROVE  \E i \in 1..Len(fullCh') : fullCh'[i] = u
    <3>1. u /= t /\ phase[u] = "queued"
      BY <2>3, <2>4
    <3>2. PICK i \in 1..Len(fullCh) : fullCh[i] = u
      BY <2>4, <3>1 DEF Placed
    <3>3. i - 1 \in 1..Len(fullCh') /\ fullCh'[i - 1] = fullCh[(i - 1) + 1]
      BY <2>2, <3>1, <3>2
    <3>4. (i - 1) + 1 = i
      OBVIOUS
    <3>5. QED BY <3>2, <3>3, <3>4
  <2>5. ASSUME NEW u \in Tasks, u \notin Wide, phase'[u] = "queued"
        PROVE  \E i \in 1..Len(liveCh') : liveCh'[i] = u
    <3>1. u /= t /\ phase[u] = "queued"
      BY <2>3, <2>5
    <3>2. QED BY <2>1, <2>5, <3>1 DEF Placed
  <2>6. QED BY <2>3, <2>4, <2>5 DEF Placed
<1>2. CASE TakeLive(w)
  <2> DEFINE t == Head(liveCh)
  <2>1. liveCh /= <<>> /\ Take(w, t) /\ liveCh' = Tail(liveCh) /\ fullCh' = fullCh
    BY <1>2 DEF TakeLive
  <2>2. /\ t \in Tasks /\ t \notin Wide /\ t = liveCh[1]
        /\ Len(liveCh) \in Nat \ {0} /\ Len(liveCh') = Len(liveCh) - 1
        /\ \A i \in 1..Len(liveCh') : liveCh'[i] = liveCh[i + 1]
    BY <1>0, <2>1, ChannelReceive, ReceivedTask
  <2> HIDE DEF t
  <2>3. /\ phase'[t] = "claimed" /\ \A u \in Tasks : u /= t => phase'[u] = phase[u]
        /\ \A u \in Tasks : phase'[u] \in HeldPhases => \E v \in Workers : work'[v] = u
    BY <1>a, <2>1, <2>2
  <2>4. ASSUME NEW u \in Tasks, u \notin Wide, phase'[u] = "queued"
        PROVE  \E i \in 1..Len(liveCh') : liveCh'[i] = u
    <3>1. u /= t /\ phase[u] = "queued"
      BY <2>3, <2>4
    <3>2. PICK i \in 1..Len(liveCh) : liveCh[i] = u
      BY <2>4, <3>1 DEF Placed
    <3>3. i - 1 \in 1..Len(liveCh') /\ liveCh'[i - 1] = liveCh[(i - 1) + 1]
      BY <2>2, <3>1, <3>2
    <3>4. (i - 1) + 1 = i
      OBVIOUS
    <3>5. QED BY <3>2, <3>3, <3>4
  <2>5. ASSUME NEW u \in Tasks, u \in Wide, phase'[u] = "queued"
        PROVE  \E i \in 1..Len(fullCh') : fullCh'[i] = u
    <3>1. u /= t /\ phase[u] = "queued"
      BY <2>3, <2>5
    <3>2. QED BY <2>1, <2>5, <3>1 DEF Placed
  <2>6. QED BY <2>3, <2>4, <2>5 DEF Placed
<1>3. QED BY <1>1, <1>2

LEMMA NextPlaced == Shape /\ Placed /\ [Next]_vars => Placed'
<1> SUFFICES ASSUME Shape, Placed, [Next]_vars PROVE Placed'
  OBVIOUS
<1>0. /\ work \in [Workers -> Tasks \cup {NoTask}] /\ NoTask \notin Tasks
      /\ phase \in [Tasks -> Phases]
  BY SchedulerAssumption DEF SchedulerAssumption, Shape, TypeOK
<1>1. ASSUME NEW t \in Tasks, Caller(t) PROVE Placed'
  <2>1. CASE Enqueue(t)
    BY <2>1, PlacedSend
  <2>2. CASE ~Enqueue(t)
    <3>1. /\ UNCHANGED <<liveCh, fullCh, work>>
          /\ \E y \in {"admitted", "prepared", "sending", "refused", "failing", "over"} :
                phase' = [phase EXCEPT ![t] = y]
      BY <1>1, <2>2 DEF Caller, Admit, PrepareProjectRun, RegisterPendingProjectWide, QueueFull,
         CallerCanceled, GiveUpSend, UnregisterPendingProjectWide, FailPreparedRun
    <3>2. QED BY <3>1, PlacedKept DEF HeldPhases
  <2>3. QED BY <2>1, <2>2
<1>2. ASSUME NEW w \in Workers, Worker(w) PROVE Placed'
  <2> DEFINE t == work[w]
  <2>1. CASE Poll(w) \/ Park(w) \/ CancelAcquire(w) \/ BeginRun(w) \/ FinishRun(w) \/ Checkpoint(w)
    BY <2>1 DEF Poll, Park, CancelAcquire, BeginRun, FinishRun, Checkpoint, Goto, Placed
  <2>2. CASE TryFull(w) \/ TryLive(w) \/ Select(w)
    <3>1. pc[w] \in IdlePCs
      BY <2>2 DEF TryFull, TryLive, Select, IdlePCs
    <3>2. \/ TakeFull(w) \/ TakeLive(w)
          \/ UNCHANGED <<phase, liveCh, fullCh, work>>
      BY <2>2 DEF TryFull, TryLive, Select, Goto
    <3>3. QED BY <3>1, <3>2, PlacedReceive DEF Placed
  <2>a. ASSUME t \in Tasks, phase' = [phase EXCEPT ![t] = "active"] \/
                            phase' = [phase EXCEPT ![t] = "abandoned"],
               UNCHANGED <<liveCh, fullCh, work>>
        PROVE  Placed'
    BY <2>a, PlacedKept
  <2>b. ASSUME t \in Tasks, phase' = [phase EXCEPT ![t] = "over"],
               work' = [work EXCEPT ![w] = NoTask], UNCHANGED <<liveCh, fullCh>>
        PROVE  Placed'
    <3>1. \A v \in Workers : work[v] \in Tasks /\ work[v] /= t => work'[v] = work[v]
      BY <1>0, <2>b
    <3>2. "over" \notin HeldPhases
      BY DEF HeldPhases
    <3>3. QED BY <2>b, <3>1, <3>2, PlacedKept
  <2>3. t \in Tasks \/ pc[w] \in IdlePCs
    BY DEF Shape, TypeOK, WorkMatchesPC
  <2>4. CASE TryAcquire(w)
    BY <2>3, <2>4, <2>a DEF TryAcquire, IdlePCs
  <2>5. CASE AbandonTask(w)
    BY <2>3, <2>5, <2>a, <2>b DEF AbandonTask, IdlePCs
  <2>6. CASE FailAbandonedRun(w) \/ ReleaseProject(w)
    BY <2>3, <2>6, <2>b DEF FailAbandonedRun, ReleaseProject, IdlePCs
  <2>7. QED BY <1>2, <2>1, <2>2, <2>4, <2>5, <2>6 DEF Worker
<1>3. CASE Exit
  BY <1>3 DEF Exit, Placed, HeldPhases
<1>4. CASE Stop \/ Boot \/ UNCHANGED vars
  BY <1>4 DEF Stop, Boot, vars, Placed
<1>5. QED BY <1>1, <1>2, <1>3, <1>4 DEF Next

LEMMA PlacedOnce == Shape /\ Placed => TaskInOnePlace
<1> SUFFICES ASSUME Shape, Placed PROVE TaskInOnePlace
  OBVIOUS
<1> DEFINE slots == {<<"live", i>> : i \in 1..Len(liveCh)}
               \cup {<<"full", i>> : i \in 1..Len(fullCh)}
           At(s) == IF s[1] = "live" THEN liveCh[s[2]] ELSE fullCh[s[2]]
<1> SUFFICES ASSUME NEW t \in Tasks
             PROVE  /\ Cardinality({s \in slots : At(s) = t}) = IF phase[t] = "queued" THEN 1 ELSE 0
                    /\ Cardinality({w \in Workers : work[w] = t})
                         = IF phase[t] \in {"claimed", "active", "abandoned"} THEN 1 ELSE 0
  BY DEF TaskInOnePlace
<1>0. Cardinality({}) = 0 /\ \A x : Cardinality({x}) = 1
  BY FS_EmptySet, FS_Singleton
<1>1. Cardinality({s \in slots : At(s) = t}) = IF phase[t] = "queued" THEN 1 ELSE 0
  <2>1. CASE phase[t] = "queued" /\ t \in Wide
    <3>1. PICK i \in 1..Len(fullCh) : fullCh[i] = t
      BY <2>1 DEF Placed
    <3>2. {s \in slots : At(s) = t} = {<<"full", i>>}
      BY <2>1, <3>1 DEF Shape, ChannelsHoldQueuedTasks
    <3>3. QED BY <1>0, <2>1, <3>2
  <2>2. CASE phase[t] = "queued" /\ t \notin Wide
    <3>1. PICK i \in 1..Len(liveCh) : liveCh[i] = t
      BY <2>2 DEF Placed
    <3>2. {s \in slots : At(s) = t} = {<<"live", i>>}
      BY <2>2, <3>1 DEF Shape, ChannelsHoldQueuedTasks
    <3>3. QED BY <1>0, <2>2, <3>2
  <2>3. CASE phase[t] /= "queued"
    <3>1. {s \in slots : At(s) = t} = {}
      BY <2>3 DEF Shape, ChannelsHoldQueuedTasks
    <3>2. QED BY <1>0, <2>3, <3>1
  <2>4. QED BY <2>1, <2>2, <2>3
<1>2. Cardinality({w \in Workers : work[w] = t})
        = IF phase[t] \in {"claimed", "active", "abandoned"} THEN 1 ELSE 0
  <2>0. NoTask \notin Tasks
    BY SchedulerAssumption DEF SchedulerAssumption
  <2>1. CASE phase[t] \in HeldPhases
    <3>1. PICK w \in Workers : work[w] = t
      BY <2>1 DEF Placed
    <3>2. {v \in Workers : work[v] = t} = {w}
      BY <2>0, <3>1 DEF Shape, OneWorkerPerTask
    <3>3. QED BY <1>0, <2>1, <3>2 DEF HeldPhases
  <2>2. CASE phase[t] \notin HeldPhases
    <3>1. \A w \in Workers : work[w] /= t
      BY <2>0, <2>2 DEF Shape, TypeOK, WorkMatchesPC, HeldPhases
    <3>2. {v \in Workers : work[v] = t} = {}
      BY <3>1
    <3>3. QED BY <1>0, <2>2, <3>2 DEF HeldPhases
  <2>3. QED BY <2>1, <2>2
<1>3. QED BY <1>1, <1>2

\* A task that a channel accepted is in one slot of one channel or with one
\* worker, as its phase says, for any number of workers and any queue depth.
THEOREM TasksKeepTheirPlace == Spec => []TaskInOnePlace
<1>1. Init => Shape /\ Placed
  BY InitShape, InitPlaced
<1>2. Shape /\ Placed /\ [Next]_vars => (Shape /\ Placed)'
  BY NextShape, NextPlaced
<1>3. QED BY <1>1, <1>2, PlacedOnce, PTL DEF Spec

\* With every worker parked no task is active, so only a registered wide task
\* that no worker has can keep a path task out.
LEMMA BlockedPool ==
  Shape /\ Gate /\ Placed /\ ParkedWorkersMustWait => OnlyPathsBlockThePool
<1> SUFFICES ASSUME Shape, Gate, Placed, ParkedWorkersMustWait, AllParked, NEW w \in Workers
             PROVE  /\ work[w] \notin Wide
                    /\ InPhase({"sending", "refused", "queued"}, Project[work[w]]) \cap Wide /= {}
  BY DEF OnlyPathsBlockThePool
<1> DEFINE p == Project[work[w]]
<1>1. /\ \A v \in Workers : work[v] \in Tasks /\ phase[work[v]] = "claimed"
      /\ ~CanAcquire(work[w])
  BY DEF AllParked, ParkedWorkersMustWait, Shape, WorkMatchesPC, WaitingPCs
<1>2. p \in Projects /\ PerProjectWorkerLimit \in Nat \ {0}
  BY <1>1, SchedulerAssumption DEF SchedulerAssumption
<1>3. \A t \in Tasks : phase[t] /= "active"
  BY <1>1 DEF Placed, HeldPhases
<1>4. ActiveIn(p) = {} /\ active[p] = 0 /\ ~wideActive[p]
  <2>1. ActiveIn(p) = {}
    BY <1>3 DEF ActiveIn, InPhase
  <2>2. active[p] = Cardinality(ActiveIn(p)) /\ wideActive[p] = (ActiveIn(p) \cap Wide /= {})
    BY <1>2 DEF Gate, CountersMatchTasks
  <2>3. QED BY <2>1, <2>2, FS_EmptySet
<1>5. \A v \in Workers : work[v] \notin Wide
  <2> SUFFICES ASSUME NEW v \in Workers, work[v] \in Wide PROVE FALSE
    OBVIOUS
  <2> DEFINE q == Project[work[v]]
  <2>1. q \in Projects
    BY <1>1, SchedulerAssumption DEF SchedulerAssumption
  <2>2. ActiveIn(q) = {}
    BY <1>3 DEF ActiveIn, InPhase
  <2>3. active[q] = Cardinality(ActiveIn(q)) /\ wideActive[q] = (ActiveIn(q) \cap Wide /= {})
    BY <2>1 DEF Gate, CountersMatchTasks
  <2>4. CanAcquire(work[v])
    BY <2>2, <2>3, FS_EmptySet DEF CanAcquire
  <2>5. QED BY <2>4 DEF AllParked, ParkedWorkersMustWait
<1>6. widePending[p] /= 0
  BY <1>1, <1>2, <1>4, <1>5 DEF CanAcquire
<1>7. PICK t \in Tasks : t \in PendingIn(p)
  <2>1. widePending[p] = Cardinality(PendingIn(p))
    BY <1>2 DEF Gate, CountersMatchTasks
  <2>2. PendingIn(p) /= {}
    BY <1>6, <2>1, FS_EmptySet
  <2>3. QED BY <2>2 DEF PendingIn, InPhase
<1>8. phase[t] /= "claimed"
  BY <1>5, <1>7 DEF Placed, HeldPhases, PendingIn
<1>9. t \in InPhase({"sending", "refused", "queued"}, p) \cap Wide
  BY <1>7, <1>8 DEF PendingIn, InPhase, PendingPhases
<1>10. QED BY <1>5, <1>9

\* The one way to block the whole pool, for any number of workers: path tasks
\* only, each behind a project-wide task that has not reached a worker.
THEOREM PoolBlockedByPathsOnly == Spec => []OnlyPathsBlockThePool
<1>1. Init => Shape /\ Gate /\ Placed /\ ParkedWorkersMustWait
  BY InitShape, InitGate, InitPlaced, InitParked
<1>2. Shape /\ Gate /\ Placed /\ ParkedWorkersMustWait /\ [Next]_vars
        => (Shape /\ Gate /\ Placed /\ ParkedWorkersMustWait)'
  BY NextShape, NextGate, NextPlaced, NextParked
<1>3. QED BY <1>1, <1>2, BlockedPool, PTL DEF Spec

-----------------------------------------------------------------------------
(* Stored runs. *)

\* The places of a worker that has stored the outcome of its task.
SettledPCs == {"checkpoint", "release"}

\* What NoOrphanRuns needs to be inductive: only prepared tasks have a run, and a
\* worker of a server that is up has settled the run before it releases the
\* project.
RunsHaveOwners ==
  /\ \A t \in Tasks \ Prepared :
       run[t] = "none" /\ phase[t] \notin {"admitted", "prepared", "failing", "abandoned"}
  /\ \A w \in Workers : pc[w] = "checkpoint" => work[w] \in Prepared /\ run[work[w]] \notin ActiveStatuses
  /\ server = "up" =>
       \A w \in Workers : pc[w] = "release" => run[work[w]] \notin ActiveStatuses
  /\ NoOrphanRuns

LEMMA InitOwners == Init => RunsHaveOwners
BY DEF Init, RunsHaveOwners, NoOrphanRuns, ActiveStatuses

LEMMA NextOwners == Shape /\ RunsHaveOwners /\ [Next]_vars => RunsHaveOwners'
<1> SUFFICES ASSUME Shape, RunsHaveOwners, [Next]_vars PROVE RunsHaveOwners'
  OBVIOUS
<1>0. /\ phase \in [Tasks -> Phases] /\ run \in [Tasks -> RunStatuses]
      /\ work \in [Workers -> Tasks \cup {NoTask}] /\ NoTask \notin Tasks
      /\ pc \in [Workers -> IdlePCs \cup WaitingPCs \cup HoldingPCs \cup {"failrun"}]
      /\ Prepared \subseteq Wide /\ Wide \subseteq Tasks /\ Project \in [Tasks -> Projects]
  BY SchedulerAssumption DEF SchedulerAssumption, Shape, TypeOK
<1>1. ASSUME NEW t \in Tasks, Caller(t) PROVE RunsHaveOwners'
  <2>1. work' = work /\ server' = server /\ phase[t] \notin HeldPhases
    BY <1>1, CallerEffect
  <2>2. \A w \in Workers : pc'[w] \in SettledPCs => pc'[w] = pc[w] /\ work[w] /= t
    <3>1. \A w \in Workers : pc'[w] \in SettledPCs => pc'[w] = pc[w]
      BY <1>1, CallerEffect, WokenShape DEF Shape, SettledPCs
    <3>2. QED BY <2>1, <3>1 DEF Shape, WorkMatchesPC, HoldingPCs, HeldPhases, SettledPCs
  <2> USE <1>0, <2>1, <2>2 DEF RunsHaveOwners, NoOrphanRuns, ActiveStatuses, SettledPCs
  <2>3. CASE Admit(t) BY <2>3 DEF Admit
  <2>4. CASE PrepareProjectRun(t)
    <3>1. t \in Prepared
      BY <1>0, <2>4 DEF PrepareProjectRun, RunsHaveOwners
    <3>2. PICK y \in {"prepared", "over"}, r \in {"pending", "failed"} :
            /\ phase' = [phase EXCEPT ![t] = y] /\ run' = [run EXCEPT ![t] = r]
            /\ y = "over" => r = "failed"
      BY <2>4 DEF PrepareProjectRun
    <3>3. /\ phase'[t] = y /\ run'[t] = r
          /\ \A u \in Tasks : u /= t => phase'[u] = phase[u] /\ run'[u] = run[u]
      BY <3>2
    <3>4. NoOrphanRuns'
      BY <3>2, <3>3
    <3>5. /\ server' = "up" =>
               \A w \in Workers : pc'[w] = "release" => run'[work'[w]] \notin ActiveStatuses
          /\ \A w \in Workers : pc'[w] = "checkpoint" =>
               work'[w] \in Prepared /\ run'[work'[w]] \notin ActiveStatuses
      BY <3>3 DEF Shape, WorkMatchesPC, HoldingPCs
    <3>6. QED BY <3>1, <3>3, <3>4, <3>5
  <2>5. CASE RegisterPendingProjectWide(t) BY <2>5 DEF RegisterPendingProjectWide
  <2>6. CASE Enqueue(t) BY <2>6 DEF Enqueue
  <2>7. CASE QueueFull(t) BY <2>7 DEF QueueFull, GiveUpSend
  <2>8. CASE CallerCanceled(t) BY <2>8 DEF CallerCanceled, GiveUpSend
  <2>9. CASE UnregisterPendingProjectWide(t) BY <2>9 DEF UnregisterPendingProjectWide
  <2>10. CASE FailPreparedRun(t) BY <2>10 DEF FailPreparedRun
  <2>11. QED
    BY <1>1, <2>3, <2>4, <2>5, <2>6, <2>7, <2>8, <2>9, <2>10 DEF Caller
<1>2. ASSUME NEW w \in Workers, Worker(w) PROVE RunsHaveOwners'
  <2>0. /\ pc[w] \notin IdlePCs => work[w] \in Tasks /\ Project[work[w]] \in Projects
        /\ pc[w] \in HoldingPCs => phase[work[w]] = "active"
        /\ pc[w] \notin IdlePCs =>
             \A v \in Workers : v /= w => work[v] /= work[w]
        /\ \A v \in Workers : pc[v] \in SettledPCs => work[v] \in Tasks /\ phase[work[v]] = "active"
    BY <1>0 DEF Shape, WorkMatchesPC, OneWorkerPerTask, HoldingPCs, SettledPCs
  <2> USE <1>0, <2>0 DEF RunsHaveOwners, NoOrphanRuns, ActiveStatuses, serverVars,
                         IdlePCs, HoldingPCs, SettledPCs
  <2>1. CASE Poll(w) \/ Park(w) \/ CancelAcquire(w)
    BY <2>1 DEF Poll, AfterFull, Park, CancelAcquire, Goto
  <2>a. ASSUME NEW t \in Tasks, phase[t] = "queued", Take(w, t), pc[w] \in IdlePCs
        PROVE  RunsHaveOwners'
    BY <2>a DEF Take
  <2>2. CASE TryFull(w) \/ TryLive(w) \/ Select(w)
    <3>1. CASE TakeFull(w) \/ TakeLive(w)
      <4>1. pc[w] \in IdlePCs
        BY <2>2 DEF TryFull, TryLive, Select
      <4>2. QED BY <2>a, <3>1, <4>1, ReceivedTask DEF TakeFull, TakeLive
    <3>2. CASE ~(TakeFull(w) \/ TakeLive(w))
      BY <2>2, <3>2 DEF TryFull, TryLive, Select, AfterFull, Goto
    <3>3. QED BY <3>1, <3>2
  <2>w. ASSUME NEW p \in Projects
        PROVE  \A v \in Workers : Woken(p)[v] \in SettledPCs => pc[v] = Woken(p)[v]
    BY WokenShape DEF Shape
  <2>3. CASE TryAcquire(w)
    <3>1. \A v \in Workers : pc'[v] \in SettledPCs => pc'[v] = pc[v] /\ v /= w
      BY ZenonT(40), <2>3, <2>w DEF TryAcquire, Woken
    <3>2. QED BY <2>3, <3>1 DEF TryAcquire
  <2>4. CASE AbandonTask(w)
    <3>1. \A v \in Workers : pc'[v] \in SettledPCs => pc'[v] = pc[v] /\ v /= w
      BY ZenonT(40), <2>4, <2>w DEF AbandonTask, Woken
    <3>2. QED BY <2>4, <3>1 DEF AbandonTask
  <2>5. CASE FailAbandonedRun(w)
    <3>1. work[w] \in Prepared
      BY <2>5 DEF FailAbandonedRun, Shape, WorkMatchesPC
    <3>2. QED BY <2>5, <3>1 DEF FailAbandonedRun
  <2>6. CASE BeginRun(w)
    BY <2>6 DEF BeginRun
  <2>7. CASE FinishRun(w) \/ Checkpoint(w)
    <3>1. CASE FinishRun(w)
      <4>1. \A v \in Workers : v /= w => pc'[v] = pc[v]
        BY <3>1 DEF FinishRun
      <4>2. CASE UNCHANGED run
        BY <3>1, <4>1, <4>2 DEF FinishRun
      <4>3. ASSUME NEW status \in {"completed", "failed"}, work[w] \in Prepared,
                   run' = [run EXCEPT ![work[w]] = status]
            PROVE  RunsHaveOwners'
        BY <3>1, <4>1, <4>3 DEF FinishRun
      <4>4. QED BY <3>1, <4>2, <4>3 DEF FinishRun
    <3>2. CASE Checkpoint(w)
      BY <3>2 DEF Checkpoint
    <3>3. QED BY <2>7, <3>1, <3>2
  <2>8. CASE ReleaseProject(w)
    <3>1. \A v \in Workers : pc'[v] \in SettledPCs => pc'[v] = pc[v] /\ v /= w
      BY <2>8, <2>w DEF ReleaseProject, Woken
    <3>2. QED BY <2>8, <3>1 DEF ReleaseProject
  <2>9. QED
    BY <1>2, <2>1, <2>2, <2>3, <2>4, <2>5, <2>6, <2>7, <2>8 DEF Worker
<1>3. CASE Exit
  BY <1>3 DEF Exit, RunsHaveOwners, NoOrphanRuns
<1>4. CASE Boot
  BY <1>0, <1>4 DEF Boot, RunsHaveOwners, NoOrphanRuns, ActiveStatuses
<1>5. CASE Stop \/ UNCHANGED vars
  BY <1>5 DEF Stop, vars, serverVars, RunsHaveOwners, NoOrphanRuns
<1>6. QED BY <1>1, <1>2, <1>3, <1>4, <1>5 DEF Next

\* While the server is up, a stored run that says pending or running belongs to a
\* submission that it is still handling, whatever crashes and restarts came before.
THEOREM RunsAreOwned == Spec => []NoOrphanRuns
<1>1. Init => Shape /\ RunsHaveOwners
  BY InitShape, InitOwners
<1>2. Shape /\ RunsHaveOwners /\ [Next]_vars => (Shape /\ RunsHaveOwners)'
  BY NextShape, NextOwners
<1>3. RunsHaveOwners => NoOrphanRuns
  BY DEF RunsHaveOwners
<1>4. QED BY <1>1, <1>2, <1>3, PTL DEF Spec

-----------------------------------------------------------------------------
(* Action properties. *)

\* The only step after which a task is active that was not is TryAcquire.
LEMMA OnlyAcquireActivates ==
  ASSUME Shape, [Next]_vars, NEW t \in Tasks, phase[t] /= "active", phase'[t] = "active"
  PROVE  \E w \in Workers : work[w] = t /\ TryAcquire(w)
<1>0. phase \in [Tasks -> Phases]
  BY DEF Shape, TypeOK
<1>1. ASSUME NEW u \in Tasks, Caller(u) PROVE FALSE
  BY <1>0, <1>1, CallerEffect DEF HeldPhases
<1>2. ASSUME NEW w \in Workers, Worker(w), ~TryAcquire(w) PROVE FALSE
  <2>1. phase' = phase \/ \E u \in Tasks, y \in {"claimed", "abandoned", "over"} :
                            phase' = [phase EXCEPT ![u] = y]
    BY <1>2, ReceivedTask
       DEF Worker, Poll, TryFull, TryLive, Select, TakeFull, TakeLive, Take, Park, CancelAcquire,
           AbandonTask, FailAbandonedRun, BeginRun, FinishRun, Checkpoint, ReleaseProject, Goto, Shape,
           WorkMatchesPC, WaitingPCs, HoldingPCs
  <2>2. QED BY <1>0, <2>1
<1>3. ASSUME NEW w \in Workers, TryAcquire(w) PROVE work[w] = t
  BY <1>0, <1>3 DEF TryAcquire
<1>4. CASE Stop \/ Exit \/ Boot \/ UNCHANGED vars
  BY <1>0, <1>4 DEF Stop, Exit, Boot, vars
<1>5. QED BY <1>1, <1>2, <1>3, <1>4 DEF Next

LEMMA NextHoldsPaths ==
  Shape /\ Gate /\ [Next]_vars =>
    \A t \in Tasks \ Wide :
      phase[t] /= "active" /\ phase'[t] = "active" =>
        (PendingIn(Project[t]) \cup ActiveIn(Project[t])) \cap Wide = {}
<1> SUFFICES ASSUME Shape, Gate, [Next]_vars, NEW t \in Tasks \ Wide,
                    phase[t] /= "active", phase'[t] = "active"
             PROVE  (PendingIn(Project[t]) \cup ActiveIn(Project[t])) \cap Wide = {}
  OBVIOUS
<1>1. CanAcquire(t)
  BY OnlyAcquireActivates DEF TryAcquire
<1>2. PICK p \in Projects : p = Project[t]
  BY SchedulerAssumption DEF SchedulerAssumption
<1>3. IsFiniteSet(PendingIn(p))
  <2>1. IsFiniteSet(Tasks) /\ PendingIn(p) \subseteq Tasks
    BY SchedulerAssumption DEF SchedulerAssumption, PendingIn, InPhase
  <2>2. QED BY <2>1, FS_Subset
<1>4. /\ wideActive[p] = (ActiveIn(p) \cap Wide /= {})
      /\ widePending[p] = Cardinality(PendingIn(p))
  BY DEF Gate, CountersMatchTasks
<1>5. ActiveIn(p) \cap Wide = {} /\ PendingIn(p) = {}
  BY <1>1, <1>2, <1>3, <1>4, FS_EmptySet DEF CanAcquire
<1>6. QED BY <1>2, <1>5

\* A path task never starts while a full scan or rebuild of its project is
\* registered, queued, held by a worker or executing: for any pool and any queue.
THEOREM PathsAreHeldBack == Spec => PathsHeldBehindWideWork
<1>1. Init => Shape /\ Gate
  BY InitShape, InitGate
<1>2. Shape /\ Gate /\ [Next]_vars => (Shape /\ Gate)'
  BY NextShape, NextGate
<1>3. Shape /\ Gate /\ [Next]_vars =>
        [\A t \in Tasks \ Wide :
           phase[t] /= "active" /\ phase'[t] = "active" =>
             (PendingIn(Project[t]) \cup ActiveIn(Project[t])) \cap Wide = {}]_vars
  BY NextHoldsPaths
<1>4. QED BY <1>1, <1>2, <1>3, PTL DEF Spec, PathsHeldBehindWideWork

\* How far the stored run of a submission has come, by its phase and by the place
\* of its worker.
UnstoredPhases == {"new", "admitted"}
PendingRunPhases ==
  {"prepared", "sending", "refused", "failing", "queued", "claimed", "abandoned"}
RunFitsPhase ==
  /\ \A t \in Prepared : /\ phase[t] \in UnstoredPhases => run[t] = "none"
                         /\ phase[t] \in PendingRunPhases => run[t] = "pending"
  /\ \A w \in Workers : work[w] \in Prepared =>
       /\ pc[w] = "run" => run[work[w]] = "pending"
       /\ pc[w] = "executing" => run[work[w]] = "running"
  /\ \A w \in Workers : pc[w] = "checkpoint" => work[w] \in Prepared /\ run[work[w]] = "completed"
  /\ \A t \in Tasks \ Prepared : phase[t] \notin {"admitted", "prepared", "failing", "abandoned"}
  /\ server = "down" => \A t \in Tasks : phase[t] \in {"new", "over"}

LEMMA InitRunFits == Init => RunFitsPhase
BY SchedulerAssumption DEF SchedulerAssumption, Init, RunFitsPhase, PendingRunPhases

\* Every write of a run moves it forward, but for that of a failed checkpoint.
RunsAdvance ==
  \A t \in Tasks : run'[t] /= run[t] =>
    \/ RunRank[run[t]] < RunRank[run'[t]]
    \/ /\ run[t] = "completed" /\ run'[t] = "failed"
       /\ \E w \in Workers : pc[w] = "checkpoint" /\ work[w] = t

LEMMA NextRunFits == Shape /\ RunFitsPhase /\ [Next]_vars => RunFitsPhase' /\ RunsAdvance
<1> SUFFICES ASSUME Shape, RunFitsPhase, [Next]_vars PROVE RunFitsPhase' /\ RunsAdvance
  OBVIOUS
<1>0. /\ phase \in [Tasks -> Phases] /\ run \in [Tasks -> RunStatuses]
      /\ work \in [Workers -> Tasks \cup {NoTask}] /\ NoTask \notin Tasks
      /\ pc \in [Workers -> IdlePCs \cup WaitingPCs \cup HoldingPCs \cup {"failrun"}]
      /\ Prepared \subseteq Wide /\ Wide \subseteq Tasks /\ Project \in [Tasks -> Projects]
  BY SchedulerAssumption DEF SchedulerAssumption, Shape, TypeOK
<1>r. /\ RunRank["none"] = 0 /\ RunRank["pending"] = 1 /\ RunRank["running"] = 2
      /\ RunRank["completed"] = 3 /\ RunRank["failed"] = 3
  BY DEF RunRank, RunStatuses
<1>s. ASSUME run' = run PROVE RunsAdvance
  BY <1>s DEF RunsAdvance
<1>1. ASSUME NEW t \in Tasks, Caller(t) PROVE RunFitsPhase' /\ RunsAdvance
  <2>1. work' = work /\ server' = server /\ phase[t] \notin HeldPhases /\ server /= "down"
    BY <1>1, CallerEffect
  <2>2. \A w \in Workers : pc'[w] \in HoldingPCs =>
          pc'[w] = pc[w] /\ work[w] \in Tasks /\ work[w] /= t
    <3>1. \A w \in Workers : pc'[w] \in HoldingPCs => pc'[w] = pc[w]
      BY <1>1, CallerEffect, WokenShape DEF Shape, HoldingPCs
    <3>2. QED BY <2>1, <3>1 DEF Shape, WorkMatchesPC, HeldPhases
  <2> USE DEF RunFitsPhase, UnstoredPhases, PendingRunPhases, HoldingPCs
  <2>3. CASE Admit(t) BY <1>0, <1>s, <2>1, <2>2, <2>3 DEF Admit
  <2>4. CASE PrepareProjectRun(t)
    <3>1. t \in Prepared /\ run[t] = "none"
      BY <1>0, <2>4 DEF PrepareProjectRun
    <3>2. PICK y \in {"prepared", "over"}, r \in {"pending", "failed"} :
            /\ phase' = [phase EXCEPT ![t] = y] /\ run' = [run EXCEPT ![t] = r]
            /\ y = "prepared" => r = "pending"
      BY <2>4 DEF PrepareProjectRun
    <3>3. /\ phase'[t] = y /\ run'[t] = r
          /\ \A u \in Tasks : u /= t => phase'[u] = phase[u] /\ run'[u] = run[u]
      BY <1>0, <3>2
    <3>4. RunsAdvance
      BY <1>r, <3>1, <3>2, <3>3 DEF RunsAdvance
    <3>5. RunFitsPhase'
      BY <1>0, <2>1, <2>2, <3>1, <3>2, <3>3
    <3>6. QED BY <3>4, <3>5
  <2>5. CASE RegisterPendingProjectWide(t)
    BY <1>0, <1>s, <2>1, <2>2, <2>5 DEF RegisterPendingProjectWide
  <2>6. CASE Enqueue(t) BY <1>0, <1>s, <2>1, <2>2, <2>6 DEF Enqueue
  <2>7. CASE QueueFull(t) BY <1>0, <1>s, <2>1, <2>2, <2>7 DEF QueueFull, GiveUpSend
  <2>8. CASE CallerCanceled(t) BY <1>0, <1>s, <2>1, <2>2, <2>8 DEF CallerCanceled, GiveUpSend
  <2>9. CASE UnregisterPendingProjectWide(t)
    BY <1>0, <1>s, <2>1, <2>2, <2>9 DEF UnregisterPendingProjectWide
  <2>10. CASE FailPreparedRun(t)
    <3>1. t \in Prepared /\ run[t] = "pending"
      BY <1>0, <2>10 DEF FailPreparedRun
    <3>2. RunsAdvance
      BY <1>0, <1>r, <2>10, <3>1 DEF FailPreparedRun, RunsAdvance
    <3>3. RunFitsPhase'
      BY <1>0, <2>1, <2>2, <2>10 DEF FailPreparedRun
    <3>4. QED BY <3>2, <3>3
  <2>11. QED
    BY <1>1, <2>3, <2>4, <2>5, <2>6, <2>7, <2>8, <2>9, <2>10 DEF Caller
<1>2. ASSUME NEW w \in Workers, Worker(w) PROVE RunFitsPhase' /\ RunsAdvance
  <2>0. /\ pc[w] \notin IdlePCs => work[w] \in Tasks /\ Project[work[w]] \in Projects
        /\ pc[w] \in WaitingPCs => phase[work[w]] = "claimed"
        /\ pc[w] \in HoldingPCs => phase[work[w]] = "active"
        /\ pc[w] = "failrun" => phase[work[w]] = "abandoned"
        /\ pc[w] \notin IdlePCs => \A v \in Workers : v /= w => work[v] /= work[w]
        /\ \A v \in Workers : pc[v] \in HoldingPCs => work[v] \in Tasks /\ phase[work[v]] = "active"
        /\ server = "down" => pc[w] = "exited"
    BY <1>0 DEF Shape, WorkMatchesPC, OneWorkerPerTask, DownIsIdle
  <2>w. ASSUME NEW p \in Projects
        PROVE  \A v \in Workers : Woken(p)[v] \in HoldingPCs => Woken(p)[v] = pc[v]
    BY WokenShape DEF Shape, HoldingPCs
  <2> USE <1>0, <2>0 DEF RunFitsPhase, UnstoredPhases, PendingRunPhases, serverVars,
                         IdlePCs, WaitingPCs, HoldingPCs
  <2>1. CASE Poll(w) \/ Park(w) \/ CancelAcquire(w)
    BY <1>s, <2>1 DEF Poll, AfterFull, Park, CancelAcquire, Goto
  <2>a. ASSUME NEW t \in Tasks, phase[t] = "queued", Take(w, t), pc[w] \in IdlePCs,
               server /= "down"
        PROVE  RunFitsPhase' /\ RunsAdvance
    BY <1>s, <2>a DEF Take
  <2>2. CASE TryFull(w) \/ TryLive(w) \/ Select(w)
    <3>1. CASE TakeFull(w) \/ TakeLive(w)
      <4>1. pc[w] \in IdlePCs /\ pc[w] /= "exited"
        BY <2>2 DEF TryFull, TryLive, Select
      <4>2. QED BY <2>a, <3>1, <4>1, ReceivedTask DEF TakeFull, TakeLive
    <3>2. CASE ~(TakeFull(w) \/ TakeLive(w))
      BY <1>s, <2>2, <3>2 DEF TryFull, TryLive, Select, AfterFull, Goto
    <3>3. QED BY <3>1, <3>2
  <2>3. CASE TryAcquire(w)
    <3>1. \A v \in Workers : v /= w /\ pc'[v] \in HoldingPCs => pc'[v] = pc[v]
      BY ZenonT(40), <2>3, <2>w DEF TryAcquire, Woken
    <3>2. pc'[w] = "run" /\ work' = work /\ run' = run /\ server' = server
      BY <2>3 DEF TryAcquire, Woken
    <3>3. phase' = [phase EXCEPT ![work[w]] = "active"] /\ phase[work[w]] = "claimed"
      BY <2>3 DEF TryAcquire
    <3>4. work[w] \in Prepared => run[work[w]] = "pending"
      BY <3>3
    <3>5. pc[w] \notin IdlePCs /\ server /= "down"
      BY <2>3 DEF TryAcquire
    <3>6. RunFitsPhase'
      BY <3>1, <3>2, <3>3, <3>4, <3>5
    <3>7. QED BY <1>s, <3>2, <3>6
  <2>4. CASE AbandonTask(w)
    <3>0. \/ \E p \in Projects, l \in {"failrun", "poll"} : pc' = [Woken(p) EXCEPT ![w] = l]
          \/ pc' = [pc EXCEPT ![w] = "poll"]
      BY <2>4 DEF AbandonTask
    <3>1. \A v \in Workers : pc'[v] \in HoldingPCs => pc'[v] = pc[v] /\ v /= w
      <4>1. CASE pc' = [pc EXCEPT ![w] = "poll"]
        BY <4>1
      <4>2. ASSUME NEW p \in Projects, NEW l \in {"failrun", "poll"},
                   pc' = [Woken(p) EXCEPT ![w] = l]
            PROVE  \A v \in Workers : pc'[v] \in HoldingPCs => pc'[v] = pc[v] /\ v /= w
        <5>1. \A v \in Workers : pc'[v] = IF v = w THEN l ELSE Woken(p)[v]
          BY <4>2 DEF Woken
        <5>2. l \notin HoldingPCs
          OBVIOUS
        <5>3. QED BY <2>w, <5>1, <5>2
      <4>3. QED BY <3>0, <4>1, <4>2
    <3>2. QED BY <1>s, <2>4, <3>1 DEF AbandonTask
  <2>5. CASE FailAbandonedRun(w)
    <3>1. work[w] \in Prepared /\ run[work[w]] = "pending"
      BY <2>5 DEF FailAbandonedRun
    <3>2. RunsAdvance
      BY <1>r, <2>5, <3>1 DEF FailAbandonedRun, RunsAdvance
    <3>3. QED BY <2>5, <3>2 DEF FailAbandonedRun
  <2>6. CASE BeginRun(w)
    <3>1. RunsAdvance
      BY <1>r, <2>6 DEF BeginRun, RunsAdvance
    <3>2. QED BY <2>6, <3>1 DEF BeginRun
  <2>7. CASE FinishRun(w) \/ Checkpoint(w)
    <3>1. CASE FinishRun(w)
      <4>1. RunsAdvance
        BY <1>r, <3>1 DEF FinishRun, RunsAdvance
      <4>2. QED BY <3>1, <4>1 DEF FinishRun
    <3>2. CASE Checkpoint(w)
      <4>1. RunsAdvance
        BY <3>2 DEF Checkpoint, RunsAdvance
      <4>2. QED BY <3>2, <4>1 DEF Checkpoint
    <3>3. QED BY <2>7, <3>1, <3>2
  <2>8. CASE ReleaseProject(w)
    <3>1. \A v \in Workers : pc'[v] \in HoldingPCs => pc'[v] = pc[v] /\ v /= w
      BY <2>8, <2>w DEF ReleaseProject, Woken
    <3>2. QED BY <1>s, <2>8, <3>1 DEF ReleaseProject
  <2>9. QED
    BY <1>2, <2>1, <2>2, <2>3, <2>4, <2>5, <2>6, <2>7, <2>8 DEF Worker
<1>3. CASE Exit
  BY <1>0, <1>3, <1>s DEF Exit, RunFitsPhase, UnstoredPhases, PendingRunPhases
<1>4. CASE Boot
  <2>1. RunsAdvance
    BY <1>0, <1>4, <1>r DEF Boot, RunsAdvance, ActiveStatuses
  <2>2. RunFitsPhase'
    BY <1>0, <1>4 DEF Boot, RunFitsPhase, UnstoredPhases, PendingRunPhases, ActiveStatuses
  <2>3. QED BY <2>1, <2>2
<1>5. CASE Stop \/ UNCHANGED vars
  BY <1>5, <1>s DEF Stop, vars, serverVars, RunFitsPhase
<1>6. QED BY <1>1, <1>2, <1>3, <1>4, <1>5 DEF Next

\* The stored status of a run only moves forward, for any number of workers and
\* across any number of crashes and restarts, but for a rebuild whose last checkpoint
\* fails: its run goes from completed to failed, by the worker that completed it.
THEOREM StoredRunsAdvance == Spec => RunsMoveForward
<1>1. Init => Shape /\ RunFitsPhase
  BY InitShape, InitRunFits
<1>2. Shape /\ RunFitsPhase /\ [Next]_vars => (Shape /\ RunFitsPhase)'
  BY NextShape, NextRunFits
<1>3. Shape /\ RunFitsPhase /\ [Next]_vars =>
        [\A t \in Tasks : run'[t] /= run[t] =>
           \/ RunRank[run[t]] < RunRank[run'[t]]
           \/ /\ run[t] = "completed" /\ run'[t] = "failed"
              /\ \E w \in Workers : pc[w] = "checkpoint" /\ work[w] = t]_vars
  BY NextRunFits DEF RunsAdvance
<1>4. QED BY <1>1, <1>2, <1>3, PTL DEF Spec, RunsMoveForward
=============================================================================
