------------------------- MODULE SearchRebuildProofs -------------------------
(***************************************************************************)
(* Machine-checked proofs about the rebuild of the search index: what holds *)
(* of the file index holds with rebuilds, and a rebuild repairs.            *)
(***************************************************************************)
EXTENDS SearchRebuild, FileIndexProofs

SavePCs == {"saveState", "saveGraph", "saveSearch"}

RebuildTyped ==
  /\ rebuild \in [on : BOOLEAN, todo : SUBSET Files,
                  run : {"none", "running", "completed", "failed"}]
  /\ rebuild.todo /= {} => rebuild.on

\* While a rebuild runs no scan does, and at most one file is in hand.
OneInHand ==
  /\ ~Scanning
  /\ \A v, w \in Workers : pc[v] /= "idle" /\ pc[w] /= "idle" => v = w

\* A file waits for repair because its rows are not those of its state; this
\* is so until its state is saved, and then its rows are replaced.
JobRepairs(w) ==
  pc[w] \in PathPCs =>
    /\ file[w] \notin rebuild.todo
    /\ pc[w] \in {"lstat", "read", "saveState"} => NeedsRepair(file[w])
    /\ pc[w] \in SavePCs =>
         ~result[w].unchanged /\ Rows(StateOf(result[w])) = result[w].content
    /\ pc[w] \in {"saveGraph", "saveSearch"} => state[file[w]] = StateOf(result[w])

InHand(f) == \E w \in Workers : pc[w] \in PathPCs /\ file[w] = f

InLine ==
  /\ \A f \in rebuild.todo : NeedsRepair(f)
  /\ \A f \in Files : f \in rebuild.todo \/ InHand(f) \/ search[f] = Rows(state[f])

\* A run that is completed, or was before its checkpoint failed, has nothing to repair.
RunRepaired == rebuild.run \in {"completed", "failed"} => Repaired

RebuildSound == rebuild.on => OneInHand /\ (\A w \in Workers : JobRepairs(w)) /\ InLine

RebuildInv == IndexInv /\ RebuildTyped /\ RebuildSound /\ RunRepaired

-----------------------------------------------------------------------------
(* A rebuild is a step of the index, or drops orphaned search rows.          *)

\* A repair never meets an unchanged result, so it saves as a path task would.
LEMMA RepairIsSave ==
  ASSUME RebuildInv, rebuild.on, NEW w \in Workers, RepairGraph(w)
  PROVE  SaveGraph(w) /\ graph' = [graph EXCEPT ![file[w]] = Rows(state[file[w]])]
<1>1. pc[w] = "saveGraph" /\ JobRepairs(w)
  BY DEF RepairGraph, RebuildInv, RebuildSound
<1>2. /\ ~result[w].unchanged /\ Rows(StateOf(result[w])) = result[w].content
      /\ state[file[w]] = StateOf(result[w])
  BY <1>1 DEF JobRepairs, PathPCs, SavePCs
<1>3. QED BY <1>2 DEF RepairGraph, SaveGraph, Saved

LEMMA RebuildIsIndexed ==
  ASSUME RebuildInv, RebuildNext
  PROVE  [IndexNext]_indexVars \/ BeginRebuild \/ FinishRebuild \/ FailCheckpoint
<1>1. ASSUME NEW w \in Workers, rebuild.on, RepairStep(w) PROVE IndexNext
  BY <1>1, RepairIsSave DEF RepairStep, IndexNext, IndexStep, PathStep
<1>2. ASSUME NEW w \in Workers, NEW f \in Files, RepairFile(w, f) PROVE IndexNext
  BY <1>2 DEF RepairFile, IndexNext
<1>3. ASSUME NEW w \in Workers, FailRebuild(w) PROVE IndexNext
  BY <1>3 DEF FailRebuild, IndexNext, IndexStep, PathStep
<1>4. CASE ReturnFromRebuild
  BY <1>4 DEF ReturnFromRebuild
<1>5. QED BY <1>1, <1>2, <1>3, <1>4 DEF RebuildNext, IndexNext

\* BeginRebuild drops rows while nothing else runs.
LEMMA BeginRebuildKeeps ==
  ASSUME RebuildInv, BeginRebuild
  PROVE  IndexInv'
<1>1. /\ UNCHANGED <<disk, edits, failures, state, graph, pc, file, result, scan, touched>>
      /\ \A w \in Workers : pc[w] = "idle"
  BY DEF BeginRebuild, jobs, Active
<1>2. Types /\ Alone /\ Phases /\ Honesty /\ scan.step = "none"
  BY <1>1 DEF RebuildInv, IndexInv, Alone, Scanning
<1>3. Types'
  <2>1. search' \in [Files -> Eligible \cup {None}]
    BY <1>2 DEF BeginRebuild, Types, StoreTypes
  <2>2. QED BY <1>1, <1>2, <2>1 DEF Types, DiskTypes, StoreTypes, JobTypes
<1>4. Alone' /\ Phases'
  BY <1>1, <1>2 DEF Alone, Scanning, Phases
<1>5. Honesty'
  BY <1>1, <1>2 DEF Honesty, Honest, AllHonest
<1>6. Repairing'
  BY <1>1, <1>2 DEF Repairing
<1>7. QED BY <1>3, <1>4, <1>5, <1>6 DEF IndexInv

\* The last writes of the run touch nothing of the index.
LEMMA RunWriteFrame ==
  ASSUME RebuildInv, FinishRebuild \/ FailCheckpoint
  PROVE  /\ UNCHANGED <<disk, edits, state, graph, search, pc, file, result, scan, touched>>
         /\ failures' \in 0..MaxFailures
         /\ rebuild' = NoRebuild \/ \E r \in {"completed", "failed"} :
              rebuild' = [rebuild EXCEPT !.run = r]
         /\ Repaired
<1>1. failures \in 0..MaxFailures /\ MaxFailures \in Nat
  BY FileIndexAssumption DEF FileIndexAssumption, RebuildInv, IndexInv, Types, DiskTypes
<1>2. QED BY <1>1 DEF FinishRebuild, FailCheckpoint, RebuildInv, RunRepaired, stores, jobs

LEMMA RunWriteKeeps ==
  ASSUME RebuildInv, FinishRebuild \/ FailCheckpoint
  PROVE  IndexInv'
<1>1. /\ UNCHANGED <<disk, edits, state, graph, search, pc, file, result, scan, touched>>
      /\ failures' \in 0..MaxFailures
  BY RunWriteFrame
<1>2. Types /\ Alone /\ Phases /\ Honesty /\ Repairing
  BY DEF RebuildInv, IndexInv
<1>3. Types' /\ Alone' /\ Phases'
  BY <1>1, <1>2 DEF Types, DiskTypes, StoreTypes, JobTypes, Alone, Scanning, Phases
<1>4. Honesty'
  BY <1>1, <1>2 DEF Honesty, Honest, AllHonest
<1>5. Repairing'
  BY <1>1, <1>2 DEF Repairing, Steady, CoveredFile, Right, Waiting, Underway, Fresh
<1>6. QED BY <1>3, <1>4, <1>5 DEF IndexInv

LEMMA RebuildKeepsIndex == RebuildInv /\ [RebuildNext]_rebuildVars => IndexInv'
<1> SUFFICES ASSUME RebuildInv, [RebuildNext]_rebuildVars PROVE IndexInv'
  OBVIOUS
<1>1. [IndexNext]_indexVars \/ BeginRebuild \/ FinishRebuild \/ FailCheckpoint
  BY RebuildIsIndexed DEF rebuildVars
<1>2. IndexInv /\ [IndexNext]_indexVars => IndexInv'
  BY NextTypes, NextAlone, NextPhases, NextHonesty, NextCovered DEF IndexInv
<1>3. QED BY <1>1, <1>2, BeginRebuildKeeps, RunWriteKeeps DEF RebuildInv

-----------------------------------------------------------------------------
(* A rebuild repairs. *)

\* A file that needs repair is prepared anew: neither short cut for unchanged
\* files takes rows for right that are not those of the state.
LEMMA PreparedAnew ==
  ASSUME NEW f \in Files, NEW m, NeedsRepair(f)
  PROVE  LET r == Prepared(f, m) IN ~r.unchanged /\ Rows(StateOf(r)) = r.content
<1>1. ~MetadataUnchanged(f, m) /\ ~VersionUnchanged(f, disk[f].content)
  BY DEF NeedsRepair, MetadataUnchanged, VersionUnchanged, Stored
<1>2. QED BY <1>1 DEF Prepared, Rows, StateOf

\* What a step of the worker w that has the file f in hand leaves alone.
LEMMA OthersIdle ==
  ASSUME RebuildInv, rebuild.on, NEW w \in Workers, pc[w] \in PathPCs
  PROVE  /\ file[w] \in Files
         /\ \A v \in Workers \ {w} : pc[v] = "idle"
         /\ JobRepairs(w) /\ InLine
         /\ \A f \in Files : InHand(f) <=> f = file[w]
<1>1. \A v \in Workers \ {w} : pc[v] = "idle"
  BY DEF RebuildInv, RebuildSound, OneInHand, PathPCs
<1>2. file[w] \in Files
  BY DEF RebuildInv, IndexInv, Types, JobTypes
<1>3. QED BY <1>1, <1>2 DEF RebuildInv, RebuildSound, InHand, PathPCs

LEMMA RepairStepSound ==
  ASSUME RebuildInv, rebuild.on, NEW w \in Workers, RepairStep(w), UNCHANGED rebuild
  PROVE  RebuildSound'
<1>1. pc[w] \in PathPCs
  BY DEF RepairStep, Lstat, Read, SaveState, RepairGraph, SaveSearch, PathPCs
<1> DEFINE f == file[w]
<1>2. /\ f \in Files /\ JobRepairs(w) /\ InLine
      /\ \A v \in Workers \ {w} : pc[v] = "idle"
      /\ \A h \in Files : InHand(h) <=> h = f
  BY <1>1, OthersIdle
<1>3. /\ pc \in [Workers -> PathPCs \cup {"idle", "scan"}]
      /\ result \in [Workers -> SafeResult]
      /\ state \in [Files -> SafeState] /\ search \in [Files -> Eligible \cup {None}]
      /\ rebuild.todo \subseteq Files
  BY DEF RebuildInv, RebuildTyped, IndexInv, Types, StoreTypes, JobTypes
<1>4. PICK p \in PathPCs \cup {"idle"} : pc' = [pc EXCEPT ![w] = p]
  BY <1>1, PathFrame DEF RepairStep, Lstat, Read, SaveState, RepairGraph, SaveSearch, PathOver, PathPCs
<1>5. pc'[w] = p /\ \A v \in Workers \ {w} : pc'[v] = "idle"
  BY <1>2, <1>3, <1>4
<1>6. OneInHand'
  BY <1>5 DEF OneInHand, Scanning, PathPCs
<1>7. \A v \in Workers \ {w} : JobRepairs(v)'
  BY <1>5 DEF JobRepairs, PathPCs
<1>8. f \notin rebuild.todo
  BY <1>1, <1>2 DEF JobRepairs
\* Until the last write the file stays in hand, and no other file is touched.
<1>9. ASSUME p \in PathPCs, file' = file, search' = search,
             \A h \in Files \ {f} : state'[h] = state[h]
      PROVE  InLine'
  <2>1. \A h \in Files : InHand(h)' <=> h = f
    BY <1>5, <1>9 DEF InHand, PathPCs
  <2>2. \A h \in rebuild.todo : NeedsRepair(h)'
    BY <1>2, <1>3, <1>8, <1>9 DEF InLine, NeedsRepair
  <2>3. \A h \in Files \ {f} : h \in rebuild.todo \/ search[h] = Rows(state[h])
    BY <1>2 DEF InLine
  <2>4. QED BY <1>9, <2>1, <2>2, <2>3 DEF InLine, Rows
<1>10. CASE Lstat(w)
  <2>1. PICK r : result' = [result EXCEPT ![w] = r] /\ ~r.unchanged /\ Rows(StateOf(r)) = r.content
    BY <1>10 DEF Lstat, NoResult, Rows, StateOf
  <2>2. p \in {"read", "saveState"} /\ UNCHANGED <<file, state, search>>
    BY <1>3, <1>4, <1>10 DEF Lstat, stores
  <2>3. JobRepairs(w)'
    <3>1. NeedsRepair(f)' /\ result'[w] = r /\ file'[w] = f
      BY <1>2, <1>3, <1>10, <2>1, <2>2 DEF JobRepairs, NeedsRepair, Lstat, PathPCs
    <3>2. QED BY <1>5, <1>8, <2>1, <2>2, <3>1 DEF JobRepairs
  <2>4. InLine'
    BY <1>9, <2>2 DEF PathPCs
  <2>5. QED BY <1>6, <1>7, <2>3, <2>4 DEF RebuildSound
<1>11. CASE Read(w)
  <2>1. NeedsRepair(f)
    BY <1>1, <1>2, <1>11 DEF Read, JobRepairs
  <2>2. /\ result'[w] = Prepared(f, result[w].mtime)
        /\ p = "saveState" /\ UNCHANGED <<file, state, search>>
    BY <1>3, <1>4, <1>11 DEF Read, stores
  <2>3. ~result'[w].unchanged /\ Rows(StateOf(result'[w])) = result'[w].content
    BY <1>2, <2>1, <2>2, PreparedAnew
  <2>4. JobRepairs(w)'
    <3>1. NeedsRepair(f)' /\ file'[w] = f
      BY <2>1, <2>2 DEF NeedsRepair
    <3>2. QED BY <1>5, <1>8, <2>2, <2>3, <3>1 DEF JobRepairs, Rows, StateOf
  <2>5. InLine'
    BY <1>9, <2>2 DEF PathPCs
  <2>6. QED BY <1>6, <1>7, <2>4, <2>5 DEF RebuildSound
<1>12. CASE SaveState(w)
  <2>1. /\ p = "saveGraph" /\ UNCHANGED <<file, result, search>>
        /\ state' = [state EXCEPT ![f] = StateOf(result[w])]
    BY <1>3, <1>4, <1>12 DEF SaveState
  <2>2. state'[f] = StateOf(result[w])
    BY <1>2, <1>3, <2>1
  <2>3. ~result[w].unchanged /\ Rows(StateOf(result[w])) = result[w].content
    BY <1>1, <1>2, <1>12 DEF SaveState, JobRepairs, SavePCs
  <2>4. JobRepairs(w)'
    BY <1>5, <1>8, <2>1, <2>2, <2>3 DEF JobRepairs, Rows, StateOf
  <2>5. InLine'
    BY <1>3, <1>9, <2>1 DEF PathPCs
  <2>6. QED BY <1>6, <1>7, <2>4, <2>5 DEF RebuildSound
<1>13. CASE RepairGraph(w)
  <2>1. p = "saveSearch" /\ pc[w] = "saveGraph" /\ UNCHANGED <<file, result, state, search>>
    BY <1>3, <1>4, <1>13 DEF RepairGraph
  <2>2. JobRepairs(w)'
    BY <1>1, <1>2, <1>5, <2>1 DEF JobRepairs, SavePCs, Rows, StateOf
  <2>3. InLine'
    BY <1>9, <2>1 DEF PathPCs
  <2>4. QED BY <1>6, <1>7, <2>2, <2>3 DEF RebuildSound
<1>14. CASE SaveSearch(w)
  <2>1. /\ pc[w] = "saveSearch" /\ p = "idle" /\ UNCHANGED state
        /\ search' = [search EXCEPT ![f] = Saved(@, result[w])]
    BY <1>3, <1>4, <1>14 DEF SaveSearch, PathOver
  <2>2. /\ ~result[w].unchanged /\ Rows(StateOf(result[w])) = result[w].content
        /\ state[f] = StateOf(result[w])
    BY <1>1, <1>2, <2>1 DEF JobRepairs, SavePCs
  <2>3. search'[f] = Rows(state[f]) /\ \A h \in Files \ {f} : search'[h] = search[h]
    BY <1>2, <1>3, <2>1, <2>2 DEF Saved
  <2>4. \A h \in Files : h \in rebuild.todo \/ search'[h] = Rows(state[h])
    BY <1>2, <2>3 DEF InLine
  <2>5. \A h \in rebuild.todo : NeedsRepair(h)'
    BY <1>2, <1>3, <1>8, <2>1, <2>3 DEF InLine, NeedsRepair
  <2>6. InLine'
    BY <2>1, <2>4, <2>5 DEF InLine, Rows
  <2>7. JobRepairs(w)'
    BY <1>5, <2>1 DEF JobRepairs, PathPCs
  <2>8. QED BY <1>6, <1>7, <2>6, <2>7 DEF RebuildSound
<1>15. QED BY <1>10, <1>11, <1>12, <1>13, <1>14 DEF RepairStep

LEMMA BeginRebuildSound ==
  ASSUME RebuildInv, BeginRebuild
  PROVE  RebuildTyped' /\ RebuildSound'
<1>1. /\ rebuild' = [on |-> TRUE, todo |-> {f \in Files : NeedsRepair(f)}, run |-> "running"]
      /\ search' = [f \in Files |-> IF state[f].status = "eligible" THEN search[f] ELSE None]
      /\ UNCHANGED <<state, pc>> /\ \A w \in Workers : pc[w] = "idle"
  BY DEF BeginRebuild, jobs, Active
<1>2. OneInHand' /\ \A w \in Workers : JobRepairs(w)'
  BY <1>1 DEF OneInHand, Scanning, JobRepairs, PathPCs
<1>3. InLine'
  BY <1>1 DEF InLine, NeedsRepair, Rows
<1>4. QED BY <1>1, <1>2, <1>3 DEF RebuildTyped, RebuildSound

LEMMA RepairFileSound ==
  ASSUME RebuildInv, rebuild.on, NEW w \in Workers, NEW f \in Files, RepairFile(w, f)
  PROVE  RebuildTyped' /\ RebuildSound'
<1>1. /\ f \in rebuild.todo /\ rebuild' = [rebuild EXCEPT !.todo = @ \ {f}]
      /\ \A v \in Workers : pc[v] = "idle"
      /\ pc' = [pc EXCEPT ![w] = "lstat"] /\ file' = [file EXCEPT ![w] = f]
      /\ UNCHANGED <<state, search>>
  BY DEF RepairFile, BeginPath, Active, stores
<1>2. /\ rebuild'.on /\ rebuild'.todo = rebuild.todo \ {f} /\ RebuildTyped'
  BY <1>1 DEF RebuildInv, RebuildTyped
<1>3. /\ pc'[w] = "lstat" /\ file'[w] = f /\ \A v \in Workers \ {w} : pc'[v] = "idle"
  BY <1>1 DEF RebuildInv, IndexInv, Types, JobTypes
<1>4. InLine
  BY DEF RebuildInv, RebuildSound
<1>5. OneInHand'
  BY <1>3 DEF OneInHand, Scanning
<1>6. \A v \in Workers : JobRepairs(v)'
  <2>1. NeedsRepair(f)'
    BY <1>1, <1>4 DEF InLine, NeedsRepair
  <2>2. QED BY <1>2, <1>3, <2>1 DEF JobRepairs, PathPCs, SavePCs
<1>7. InLine'
  <2>1. InHand(f)'
    BY <1>3 DEF InHand, PathPCs
  <2>2. ~\E h \in Files : InHand(h)
    BY <1>1 DEF InHand, PathPCs
  <2>3. QED BY <1>1, <1>2, <1>4, <2>1, <2>2 DEF InLine, NeedsRepair, Rows
<1>8. QED BY <1>2, <1>5, <1>6, <1>7 DEF RebuildSound

LEMMA NextSound == RebuildInv /\ [RebuildNext]_rebuildVars => RebuildTyped' /\ RebuildSound'
<1> SUFFICES ASSUME RebuildInv, [RebuildNext]_rebuildVars PROVE RebuildTyped' /\ RebuildSound'
  OBVIOUS
<1>1. RebuildTyped /\ RebuildSound
  BY DEF RebuildInv
<1>2. CASE UNCHANGED <<rebuild, state, search, pc, file, result>>
  BY <1>1, <1>2 DEF RebuildTyped, RebuildSound, OneInHand, Scanning, JobRepairs, InLine, InHand,
     NeedsRepair, Rows
<1>3. ASSUME NEW f \in Files, NEW c \in Contents \cup {None}, Edit(f, c), UNCHANGED rebuild
      PROVE  RebuildTyped' /\ RebuildSound'
  BY <1>2, <1>3 DEF Edit, stores, jobs
<1>4. CASE ~rebuild.on /\ UNCHANGED rebuild
  BY <1>1, <1>4 DEF RebuildTyped, RebuildSound
<1>5. CASE rebuild' = NoRebuild
  BY <1>5 DEF NoRebuild, RebuildTyped, RebuildSound
<1>6. ASSUME NEW w \in Workers, NEW f \in Files, RepairFile(w, f)
      PROVE  RebuildTyped' /\ RebuildSound'
  <2>1. rebuild.on
    BY <1>1, <1>6 DEF RepairFile, RebuildTyped
  <2>2. QED BY <1>6, <2>1, RepairFileSound
<1>7. ASSUME NEW w \in Workers, rebuild.on, RepairStep(w), UNCHANGED rebuild
      PROVE  RebuildTyped' /\ RebuildSound'
  BY <1>1, <1>7, RepairStepSound DEF RebuildTyped
<1>8. CASE FinishRebuild \/ FailCheckpoint
  <2>1. CASE rebuild' = NoRebuild
    BY <1>5, <2>1
  <2>2. CASE \E r \in {"completed", "failed"} : rebuild' = [rebuild EXCEPT !.run = r]
    <3>1. /\ rebuild'.on = rebuild.on /\ rebuild'.todo = rebuild.todo /\ RebuildTyped'
          /\ UNCHANGED <<state, search, pc, file, result>>
      BY <1>1, <1>8, <2>2, RunWriteFrame DEF RebuildTyped
    <3>2. QED
      BY <1>1, <3>1 DEF RebuildSound, OneInHand, Scanning, JobRepairs, InLine, InHand, NeedsRepair, Rows
  <2>3. QED BY <1>8, <2>1, <2>2, RunWriteFrame
<1>9. QED
  BY <1>2, <1>3, <1>4, <1>5, <1>6, <1>7, <1>8, BeginRebuildSound
     DEF RebuildNext, FailRebuild, ReturnFromRebuild, rebuildVars, indexVars, stores, jobs

\* Once its run is stored nothing of a rebuild is left to do.
LEMMA NextRunRepaired == RebuildInv /\ [RebuildNext]_rebuildVars => RunRepaired'
<1> SUFFICES ASSUME RebuildInv, [RebuildNext]_rebuildVars PROVE RunRepaired'
  OBVIOUS
<1>1. RunRepaired /\ RebuildTyped
  BY DEF RebuildInv
<1>2. CASE UNCHANGED <<rebuild, pc>>
  BY <1>1, <1>2 DEF RunRepaired, Repaired, Active
<1>3. CASE rebuild' = NoRebuild
  BY <1>3 DEF NoRebuild, RunRepaired
<1>4. CASE ~rebuild.on /\ UNCHANGED rebuild
  BY <1>1, <1>4 DEF RunRepaired, Repaired
<1>5. CASE BeginRebuild
  BY <1>5 DEF BeginRebuild, RunRepaired
<1>6. ASSUME NEW w \in Workers, NEW f \in Files, RepairFile(w, f) PROVE RunRepaired'
  BY <1>1, <1>6 DEF RepairFile, RunRepaired, Repaired, RebuildTyped
<1>7. ASSUME NEW w \in Workers, RepairStep(w), UNCHANGED rebuild PROVE RunRepaired'
  <2>1. w \in Active
    BY <1>7 DEF RepairStep, Lstat, Read, SaveState, RepairGraph, SaveSearch, Active
  <2>2. QED BY <1>1, <1>7, <2>1 DEF RunRepaired, Repaired
<1>8. CASE FinishRebuild \/ FailCheckpoint
  <2>1. Repaired /\ pc' = pc
    BY <1>8, RunWriteFrame
  <2>2. CASE \E r \in {"completed", "failed"} : rebuild' = [rebuild EXCEPT !.run = r]
    BY <1>1, <2>1, <2>2 DEF RunRepaired, Repaired, Active, RebuildTyped
  <2>3. QED BY <1>3, <1>8, <2>2, RunWriteFrame
<1>9. ASSUME NEW f \in Files, NEW c \in Contents \cup {None}, Edit(f, c), UNCHANGED rebuild
      PROVE  RunRepaired'
  BY <1>2, <1>9 DEF Edit, jobs
<1>10. QED
  BY <1>2, <1>3, <1>4, <1>5, <1>6, <1>7, <1>8, <1>9
     DEF RebuildNext, FailRebuild, ReturnFromRebuild, rebuildVars, indexVars, jobs

LEMMA RebuildInvHolds == RebuildSpec => []RebuildInv
<1>1. RebuildInit => RebuildInv
  <2> SUFFICES ASSUME RebuildInit PROVE RebuildInv
    OBVIOUS
  <2>1. IndexInv
    BY InitTypes, InitAlone, InitPhases, InitHonesty, InitCovered DEF RebuildInit, IndexInv
  <2>2. QED BY <2>1 DEF RebuildInit, RebuildInv, NoRebuild, RebuildTyped, RebuildSound, RunRepaired
<1>2. RebuildInv /\ [RebuildNext]_rebuildVars => RebuildInv'
  BY RebuildKeepsIndex, NextSound, NextRunRepaired DEF RebuildInv
<1>3. QED BY <1>1, <1>2, PTL DEF RebuildSpec

-----------------------------------------------------------------------------
(* Theorems. *)

\* A rebuild whose run is stored as completed leaves the search rows in line with the
\* file states, also when its last checkpoint fails, and a repair writes the chunks that
\* go with a state, never the empty set of an unchanged result
\* (executeSearchIndexRebuild, saveSearchIndexRepairResult).
THEOREM RebuildsRepair == RebuildSpec => RebuildRepairs
<1> DEFINE Step == /\ rebuild'.run \in {"completed", "failed"} =>
                        \A f \in Files : search'[f] = Rows(state'[f])
                   /\ rebuild.on => \A f \in Files : graph'[f] \in {graph[f], Rows(state[f])}
<1>1. RebuildInv /\ [RebuildNext]_rebuildVars => [Step]_rebuildVars
  <2> SUFFICES ASSUME RebuildInv, RebuildNext PROVE Step
    OBVIOUS
  <2>1. ASSUME rebuild'.run \in {"completed", "failed"}, NEW f \in Files
        PROVE  search'[f] = Rows(state'[f])
    <3>1. RebuildSound' /\ Repaired'
      BY <2>1, NextSound, NextRunRepaired DEF RunRepaired
    <3>2. InLine' /\ rebuild'.todo = {} /\ ~InHand(f)'
      BY <3>1 DEF RebuildSound, Repaired, Active, InHand, PathPCs
    <3>3. QED BY <3>2 DEF InLine, Rows
  <2>2. ASSUME rebuild.on, NEW f \in Files PROVE graph'[f] \in {graph[f], Rows(state[f])}
    <3>1. CASE UNCHANGED graph
      BY <3>1
    <3>2. ASSUME NEW w \in Workers, RepairGraph(w) PROVE graph'[f] \in {graph[f], Rows(state[f])}
      <4>1. graph' = [graph EXCEPT ![file[w]] = Rows(state[file[w]])]
        BY <2>2, <3>2, RepairIsSave
      <4>2. graph \in [Files -> Eligible \cup {None}]
        BY DEF RebuildInv, IndexInv, Types, StoreTypes
      <4>3. QED BY <4>1, <4>2
    <3>3. QED
      BY <2>2, <3>1, <3>2
         DEF RebuildNext, RepairStep, Edit, BeginRebuild, RepairFile, BeginPath, Lstat, Read,
             SaveState, SaveSearch, FailRebuild, FailPath, FinishRebuild, FailCheckpoint,
             ReturnFromRebuild, IndexCrash, indexVars, stores
  <2>3. QED BY <2>1, <2>2
<1>2. QED BY <1>1, RebuildInvHolds, PTL DEF RebuildSpec, RebuildRepairs

\* What holds of the file index holds with rebuilds between the scans, whose repairs
\* and crashes leave yet other mixtures in the stores.
THEOREM IndexKeptWithRebuilds ==
  RebuildSpec => []IndexTypeOK /\ ScanRepairs /\ TombstonesOnlyMissing
<1> DEFINE Fresher == FinishesScan =>
                        \A f \in Files \ (touched \cup scan.hidden) :
                          disk[f].content /= None => Fresh(f)'
           Missing == \A f \in Files :
                        scan'.tomb \ scan.tomb = {f} =>
                          disk[f].content = None \/ f \in touched \cup scan.hidden
<1>1. RebuildInv => IndexTypeOK
  BY TypesGiveTypeOK DEF RebuildInv, IndexInv
<1>2. RebuildInv /\ [RebuildNext]_rebuildVars => [Fresher]_indexVars
  BY FinishedScanIsFresh DEF FinishesScan, RebuildInv
<1>3. RebuildInv /\ [RebuildNext]_rebuildVars => [Missing]_indexVars
  <2> SUFFICES ASSUME RebuildInv, [RebuildNext]_rebuildVars, NEW f \in Files,
                      scan'.tomb \ scan.tomb = {f}
               PROVE  disk[f].content = None \/ f \in touched \cup scan.hidden
    OBVIOUS
  <2>1. ~(UNCHANGED scan)
    OBVIOUS
  <2>2. IndexNext
    BY <2>1, RebuildIsIndexed, RunWriteFrame DEF BeginRebuild, rebuildVars, indexVars, jobs
  <2>3. QED BY <2>2, OnlyMissingStep DEF RebuildInv
<1>4. QED
  BY <1>1, <1>2, <1>3, RebuildInvHolds, PTL DEF RebuildSpec, ScanRepairs, TombstonesOnlyMissing
=============================================================================
