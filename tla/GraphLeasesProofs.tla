------------------------- MODULE GraphLeasesProofs -------------------------
(***************************************************************************)
(* Machine-checked proofs about the lazily opened graphs, for any numbers  *)
(* of graphs, operations and closers, and any limit: a leased store stays  *)
(* open, closed graphs stay closed, and the limit holds at rest.           *)
(***************************************************************************)
EXTENDS GraphLeases, FiniteSetTheorems, TLAPS

-----------------------------------------------------------------------------
(* The inductive invariant. *)

PcTypes ==
  /\ pc \in [Users \cup Closers -> UserPCs \cup CloserPCs]
  /\ \A u \in Users : pc[u] \in UserPCs
  /\ \A c \in Closers : pc[c] \in CloserPCs

StoreTypes ==
  /\ open \subseteq Graphs /\ closing \subseteq Graphs
  /\ leases \in [Graphs -> Nat]
  /\ at \in [Users \cup Closers -> Graphs \cup {NoGraph}]
  /\ todo \in [Closers -> SUBSET Graphs]
  /\ faults \in Nat

LockTypes ==
  /\ \A u \in Users : pc[u] \in EnforcePCs <=> holder = u
  /\ holder \in Users \cup {NoUser}
  /\ left \subseteq Graphs /\ opened \in Nat
  /\ victim \in Graphs \cup {NoGraph}
  /\ \A u \in Users : pc[u] = "evict" => victim \in Graphs

Types == PcTypes /\ StoreTypes /\ LockTypes

Lessees(g) == {u \in Users : pc[u] = "use" /\ at[u] = g}

\* Every lease is some operation's.
Counts ==
  /\ \A g \in Graphs : leases[g] = Cardinality(Lessees(g))
  /\ \A u \in Users : pc[u] = "use" => at[u] \in Graphs

\* What a closer has behind it is closed for good, and what it waits for accepts no lease.
Shut ==
  \A c \in Closers : pc[c] /= "idle" =>
    /\ \A g \in Graphs \ todo[c] : g \in closing /\ g \notin open
    /\ pc[c] \in {"wait", "woken"} => at[c] \in closing
    /\ pc[c] = "over" => todo[c] = {}

\* Nobody is on the way to lru.mu.
Unasked == faults = 0 /\ \A u \in Users : pc[u] \notin {"use", "enforce"}

\* The holder has missed no open graph, if nobody comes after it to enforce the limit.
Tended ==
  Unasked =>
    /\ holder = NoUser => Cardinality(open) <= MaxOpen
    /\ \A u \in Users :
         /\ pc[u] = "count" => Cardinality(open \ left) <= opened
         /\ pc[u] = "oldest" /\ victim = NoGraph => open \subseteq left

IInv == Types /\ Counts /\ LeasedStaysOpen /\ Shut /\ Tended

-----------------------------------------------------------------------------
(* Where the goroutines are. *)

\* The actions that move only p.
Steps(p, next) == pc' = [pc EXCEPT ![p] = next]

\* A returned lease moves its user, and wakes closers only.
LEMMA GiveBackMoves ==
  ASSUME PcTypes, NEW u \in Users, NEW next \in UserPCs, GiveBack(u, next)
  PROVE  /\ PcTypes' /\ pc'[u] = next
         /\ \A v \in Users \ {u} : pc'[v] = pc[v]
         /\ \A c \in Closers : \/ pc'[c] = pc[c]
                               \/ pc[c] = "wait" /\ pc'[c] = "woken"
<1> DEFINE moved == [pc EXCEPT ![u] = next]
<1>1. /\ moved \in [Users \cup Closers -> UserPCs \cup CloserPCs]
      /\ moved[u] = next /\ \A p \in (Users \cup Closers) \ {u} : moved[p] = pc[p]
  BY DEF PcTypes
<1>2. pc' = moved \/ pc' = Waking(at[u], moved)
  BY DEF GiveBack
<1>3. \A v \in Users : moved[v] \in UserPCs
  BY <1>1 DEF PcTypes
<1>4. \A c \in Closers : c \in (Users \cup Closers) \ {u} /\ moved[c] = pc[c]
  BY <1>1, GraphLeasesAssumption DEF GraphLeasesAssumption
<1> HIDE DEF moved
<1>5. CASE pc' = moved
  BY <1>1, <1>3, <1>4, <1>5 DEF PcTypes
<1>6. CASE pc' = Waking(at[u], moved)
  <2>1. /\ pc' \in [Users \cup Closers -> UserPCs \cup CloserPCs]
        /\ \A p \in Users \cup Closers :
             pc'[p] = moved[p] \/ (moved[p] = "wait" /\ pc'[p] = "woken")
    <3>1. pc' = [p \in Users \cup Closers |->
                   IF moved[p] = "wait" /\ at[p] = at[u] THEN "woken" ELSE moved[p]]
      BY <1>1, <1>6 DEF Waking
    <3>2. "woken" \in CloserPCs /\ \A p \in Users \cup Closers : moved[p] \in UserPCs \cup CloserPCs
      BY <1>1 DEF CloserPCs
    <3>3. QED BY <3>1, <3>2
  <2>2. \A v \in Users : pc'[v] = moved[v]
    BY <1>3, <2>1 DEF UserPCs
  <2>3. QED BY <1>1, <1>3, <1>4, <2>1, <2>2 DEF PcTypes, CloserPCs
<1>7. QED BY <1>2, <1>5, <1>6

LEMMA NextPcTypes == PcTypes /\ [Next]_vars => PcTypes'
<1> SUFFICES ASSUME PcTypes, [Next]_vars PROVE PcTypes'
  OBVIOUS
<1>1. ASSUME NEW u \in Users, NEW next \in UserPCs, Steps(u, next) PROVE PcTypes'
  BY <1>1, GraphLeasesAssumption DEF PcTypes, Steps, GraphLeasesAssumption
<1>2. ASSUME NEW c \in Closers, NEW next \in CloserPCs, Steps(c, next) PROVE PcTypes'
  BY <1>2, GraphLeasesAssumption DEF PcTypes, Steps, GraphLeasesAssumption
<1>3. ASSUME NEW u \in Users, Acquire(u) \/ Lock(u) \/ Enforce(u) PROVE PcTypes'
  <2>1. \E next \in UserPCs : Steps(u, next)
    BY <1>3 DEF Acquire, Lock, Enforce, Count, Counted, Consider, Considered, Evict, EvictFails,
                Unlock, EnforceStep, Steps, UserPCs
  <2>2. QED BY <1>1, <2>1
<1>4. ASSUME NEW u \in Users, Release(u) \/ Panic(u) PROVE PcTypes'
  BY <1>4, GiveBackMoves DEF Release, Panic, UserPCs
<1>5. ASSUME NEW c \in Closers, BeginCloseAll(c) \/ Close(c) PROVE PcTypes'
  <2>1. \E next \in CloserPCs : Steps(c, next)
    BY <1>5 DEF BeginCloseAll, Close, CloseNext, CloseWoken, EndCloseAll, CloseOrWait, Steps, CloserPCs
  <2>2. QED BY <1>2, <2>1
<1>6. CASE UNCHANGED vars
  BY <1>6 DEF PcTypes, vars
<1>7. QED BY <1>3, <1>4, <1>5, <1>6 DEF Next

-----------------------------------------------------------------------------
(* The types of the graphs and of lru.mu. *)

LEMMA NextStoreTypes == Types /\ Counts /\ [Next]_vars => StoreTypes'
<1> SUFFICES ASSUME Types, Counts, [Next]_vars PROVE StoreTypes'
  OBVIOUS
<1> USE DEF StoreTypes
<1>1. ASSUME NEW u \in Users, Acquire(u) PROVE StoreTypes'
  BY <1>1 DEF Acquire, Types
<1>2. ASSUME NEW u \in Users, Release(u) \/ Panic(u) PROVE StoreTypes'
  BY <1>2 DEF Release, Panic, GiveBack, Types
<1>3. ASSUME NEW u \in Users, Lock(u) \/ Enforce(u) PROVE StoreTypes'
  BY <1>3 DEF Lock, Enforce, Count, Counted, Consider, Considered, Evict, EvictFails, Unlock,
              EnforceStep, Recount, enforcement, Types
<1>4. ASSUME NEW c \in Closers, BeginCloseAll(c) \/ EndCloseAll(c) PROVE StoreTypes'
  BY <1>4 DEF BeginCloseAll, EndCloseAll, Types
<1>5. ASSUME NEW c \in Closers, NEW g \in Graphs, CloseOrWait(c, g), closing' \subseteq Graphs
      PROVE  StoreTypes'
  BY <1>5 DEF CloseOrWait, Types
<1>6. ASSUME NEW c \in Closers, CloseNext(c) PROVE StoreTypes'
  BY <1>5, <1>6 DEF CloseNext, Types
<1>7. ASSUME NEW c \in Closers, CloseWoken(c) PROVE StoreTypes'
  <2>1. CASE at[c] \in Graphs
    BY <1>5, <1>7, <2>1 DEF CloseWoken, Types
  <2>2. CASE at[c] \notin Graphs
    BY <1>7, <2>2 DEF CloseWoken, CloseOrWait, Types
  <2>3. QED BY <2>1, <2>2
<1>8. CASE UNCHANGED vars
  BY <1>8 DEF vars, Types
<1>9. QED BY <1>1, <1>2, <1>3, <1>4, <1>6, <1>7, <1>8 DEF Next, Close

LEMMA NextLockTypes == Types /\ [Next]_vars => LockTypes'
<1> SUFFICES ASSUME Types, [Next]_vars PROVE LockTypes'
  OBVIOUS
<1> USE DEF LockTypes
<1>1. ASSUME NEW u \in Users, NEW next, Steps(u, next), next \notin EnforcePCs,
             pc[u] \notin EnforcePCs, UNCHANGED enforcement
      PROVE  LockTypes'
  BY <1>1 DEF Steps, Types, PcTypes, enforcement, EnforcePCs
<1>2. ASSUME NEW u \in Users, NEW next \in UserPCs, GiveBack(u, next), next \notin EnforcePCs
      PROVE  LockTypes'
  <2>1. UNCHANGED enforcement /\ pc[u] = "use"
    BY <1>2 DEF GiveBack
  <2>2. pc'[u] = next /\ \A v \in Users \ {u} : pc'[v] = pc[v]
    BY <1>2, GiveBackMoves DEF Types
  <2>3. QED BY <1>2, <2>1, <2>2 DEF Types, enforcement, EnforcePCs
<1>3. ASSUME NEW u \in Users, Acquire(u) \/ Release(u) \/ Panic(u) PROVE LockTypes'
  BY <1>1, <1>2, <1>3 DEF Acquire, Release, Panic, Steps, EnforcePCs, UserPCs
<1>4. ASSUME NEW u \in Users, Lock(u) PROVE LockTypes'
  BY <1>4, GraphLeasesAssumption DEF Lock, Types, PcTypes, EnforcePCs, GraphLeasesAssumption
<1>5. ASSUME NEW u \in Users, Enforce(u) PROVE LockTypes'
  <2>1. /\ holder = u /\ pc[u] \in EnforcePCs
        /\ \A v \in Users \ {u} : pc[v] \notin EnforcePCs
    BY <1>5 DEF Enforce, Count, Counted, Consider, Considered, Evict, EvictFails, Unlock,
                EnforceStep, Types, EnforcePCs
  <2>2. ASSUME NEW next \in EnforcePCs, EnforceStep(u, next), UNCHANGED holder,
               left' \subseteq Graphs, opened' \in Nat, victim' \in Graphs \cup {NoGraph},
               next = "evict" => victim' \in Graphs
        PROVE  LockTypes'
    BY <2>1, <2>2 DEF EnforceStep, Types, PcTypes, EnforcePCs
  <2>3. CASE Unlock(u)
    BY <2>1, <2>3, GraphLeasesAssumption
    DEF Unlock, EnforceStep, Types, PcTypes, EnforcePCs, GraphLeasesAssumption
  <2>4. CASE Count(u)
    BY <2>2, <2>4 DEF Count, EnforcePCs, Types
  <2>5. CASE Counted(u)
    BY <2>2, <2>3, <2>5 DEF Counted, EnforcePCs, Types
  <2>6. CASE Consider(u)
    <3>1. victim' \in Graphs \cup {NoGraph}
      BY <2>6 DEF Consider, Types
    <3>2. QED BY <2>2, <2>6, <3>1 DEF Consider, EnforcePCs, Types
  <2>7. CASE Considered(u)
    BY <2>2, <2>3, <2>7 DEF Considered, EnforcePCs, Types, enforcement
  <2>8. CASE Evict(u)
    BY <2>2, <2>8 DEF Evict, Recount, EnforcePCs, Types
  <2>9. QED BY <1>5, <2>3, <2>4, <2>5, <2>6, <2>7, <2>8 DEF Enforce, EvictFails
<1>6. ASSUME NEW c \in Closers, BeginCloseAll(c) \/ Close(c) PROVE LockTypes'
  <2>1. UNCHANGED enforcement /\ \E next : Steps(c, next)
    BY <1>6 DEF BeginCloseAll, Close, CloseNext, CloseWoken, EndCloseAll, CloseOrWait, Steps
  <2>2. \A u \in Users : pc'[u] = pc[u]
    BY <2>1, GraphLeasesAssumption DEF Steps, Types, PcTypes, GraphLeasesAssumption
  <2>3. QED BY <2>1, <2>2 DEF Types, enforcement
<1>7. CASE UNCHANGED vars
  BY <1>7 DEF vars, enforcement, Types
<1>8. QED BY <1>3, <1>4, <1>5, <1>6, <1>7 DEF Next

LEMMA NextTypes == Types /\ Counts /\ [Next]_vars => Types'
BY NextPcTypes, NextStoreTypes, NextLockTypes DEF Types

-----------------------------------------------------------------------------
(* The leases, and the stores under them. *)

\* The steps that take or return no lease.
Quiet ==
  \/ \E u \in Users : Lock(u) \/ Enforce(u)
  \/ \E c \in Closers : BeginCloseAll(c) \/ Close(c)
  \/ UNCHANGED vars

\* They leave the operations alone, and close only graphs that nobody leases.
LEMMA QuietSteps ==
  ASSUME Types, Quiet
  PROVE  /\ leases' = leases /\ open' \subseteq open
         /\ \A g \in open \ open' : leases[g] = 0
         /\ \A v \in Users : at'[v] = at[v] /\ (pc'[v] = "use" <=> pc[v] = "use")
<1> USE DEF Types, PcTypes, StoreTypes
<1> DEFINE Alike == leases' = leases /\ \A v \in Users : at'[v] = at[v] /\ (pc'[v] = "use" <=> pc[v] = "use")
           Closed == open' \subseteq open /\ \A g \in open \ open' : leases[g] = 0
<1> SUFFICES Alike /\ Closed
  OBVIOUS
<1>1. ASSUME NEW u \in Users, Lock(u) PROVE Alike /\ Closed
  BY <1>1 DEF Lock
<1>2. ASSUME NEW u \in Users, Enforce(u) PROVE Alike /\ Closed
  <2>1. /\ pc[u] \in EnforcePCs /\ UNCHANGED <<leases, at>>
        /\ \E next \in {"idle"} \cup EnforcePCs : pc' = [pc EXCEPT ![u] = next]
    BY <1>2 DEF Enforce, Count, Counted, Consider, Considered, Evict, EvictFails, Unlock,
                EnforceStep, EnforcePCs
  <2>2. Alike
    BY <2>1 DEF EnforcePCs
  <2>3. \/ open' = open
        \/ victim \in Graphs /\ open' = open \ {victim} /\ ~(leases[victim] > 0)
    BY <1>2 DEF Enforce, Count, Counted, Consider, Considered, Evict, EvictFails, Unlock,
                EnforceStep, LockTypes
  <2>4. Closed
    BY <2>3
  <2>5. QED BY <2>2, <2>4
<1>3. ASSUME NEW c \in Closers, BeginCloseAll(c) \/ Close(c) PROVE Alike /\ Closed
  <2>1. /\ UNCHANGED leases
        /\ \E next : pc' = [pc EXCEPT ![c] = next]
        /\ at' = at \/ \E g : at' = [at EXCEPT ![c] = g]
    BY <1>3 DEF BeginCloseAll, Close, CloseNext, CloseWoken, EndCloseAll, CloseOrWait
  <2>2. \A v \in Users : at'[v] = at[v] /\ pc'[v] = pc[v]
    BY <2>1, GraphLeasesAssumption DEF GraphLeasesAssumption
  <2>3. open' = open \/ \E g : open' = open \ {g} /\ ~(leases[g] > 0)
    BY <1>3 DEF BeginCloseAll, Close, CloseNext, CloseWoken, EndCloseAll, CloseOrWait
  <2>4. Closed
    BY <2>3
  <2>5. QED BY <2>1, <2>2, <2>4
<1>4. CASE UNCHANGED vars
  BY <1>4 DEF vars
<1>5. QED BY <1>1, <1>2, <1>3, <1>4 DEF Quiet

LEMMA LesseesFinite == \A g : IsFiniteSet(Lessees(g)) /\ Cardinality(Lessees(g)) \in Nat
BY FS_Subset, FS_CardinalityType, GraphLeasesAssumption DEF Lessees, GraphLeasesAssumption

LEMMA NextCounts == Types /\ Counts /\ [Next]_vars => Counts'
<1> SUFFICES ASSUME Types, Counts, [Next]_vars PROVE Counts'
  OBVIOUS
<1>1. ASSUME NEW u \in Users, Acquire(u) PROVE Counts'
  <2>1. PICK g \in Graphs : /\ leases' = [leases EXCEPT ![g] = @ + 1]
                            /\ at' = [at EXCEPT ![u] = g]
    BY <1>1 DEF Acquire
  <2>2. pc[u] = "idle" /\ pc' = [pc EXCEPT ![u] = "use"]
    BY <1>1 DEF Acquire
  <2>3. /\ u \notin Lessees(g) /\ Lessees(g)' = Lessees(g) \cup {u}
        /\ \A h \in Graphs \ {g} : Lessees(h)' = Lessees(h)
    BY <2>1, <2>2 DEF Lessees, Types, PcTypes, StoreTypes
  <2>4. Cardinality(Lessees(g)') = Cardinality(Lessees(g)) + 1
    BY <2>3, LesseesFinite, FS_AddElement
  <2>5. \A h \in Graphs : leases'[h] = Cardinality(Lessees(h)')
    BY <2>1, <2>3, <2>4 DEF Counts, Types, StoreTypes
  <2>6. \A v \in Users : pc'[v] = "use" => at'[v] \in Graphs
    BY <2>1, <2>2 DEF Counts, Types, PcTypes, StoreTypes
  <2>7. QED BY <2>5, <2>6 DEF Counts
<1>2. ASSUME NEW u \in Users, NEW next \in UserPCs \ {"use"}, GiveBack(u, next) PROVE Counts'
  <2>1. PICK g \in Graphs :
        /\ pc[u] = "use" /\ at[u] = g
        /\ leases' = [leases EXCEPT ![g] = IF @ > 0 THEN @ - 1 ELSE @]
        /\ at' = [at EXCEPT ![u] = NoGraph]
    BY <1>2 DEF GiveBack, Counts
  <2>2. pc'[u] = next /\ \A v \in Users \ {u} : pc'[v] = pc[v]
    BY <1>2, GiveBackMoves DEF Types
  <2>3. \A v \in Users \ {u} : at'[v] = at[v]
    BY <2>1 DEF Types, StoreTypes
  <2>4. /\ u \in Lessees(g) /\ Lessees(g)' = Lessees(g) \ {u}
        /\ \A h \in Graphs \ {g} : Lessees(h)' = Lessees(h)
    BY <2>1, <2>2, <2>3 DEF Lessees
  <2>5. Cardinality(Lessees(g)') = Cardinality(Lessees(g)) - 1 /\ Cardinality(Lessees(g)) > 0
    BY <2>4, LesseesFinite, FS_RemoveElement, FS_EmptySet
  <2>6. \A h \in Graphs : leases'[h] = Cardinality(Lessees(h)')
    BY <2>1, <2>4, <2>5 DEF Counts, Types, StoreTypes
  <2>7. \A v \in Users : pc'[v] = "use" => at'[v] \in Graphs
    BY <2>2, <2>3 DEF Counts
  <2>8. QED BY <2>6, <2>7 DEF Counts
<1>3. CASE Quiet
  <2>1. \A g : Lessees(g)' = Lessees(g)
    BY <1>3, QuietSteps DEF Lessees
  <2>2. QED BY <1>3, <2>1, QuietSteps DEF Counts
<1>4. QED BY <1>1, <1>2, <1>3 DEF Next, Quiet, Release, Panic, UserPCs

LEMMA NextLeased == Types /\ Counts /\ LeasedStaysOpen /\ [Next]_vars => LeasedStaysOpen'
<1> SUFFICES ASSUME Types, Counts, LeasedStaysOpen, [Next]_vars PROVE LeasedStaysOpen'
  OBVIOUS
<1>1. ASSUME NEW u \in Users, Acquire(u) PROVE LeasedStaysOpen'
  BY <1>1 DEF Acquire, LeasedStaysOpen, Types, PcTypes, StoreTypes
<1>2. ASSUME NEW u \in Users, NEW next \in UserPCs \ {"use"}, GiveBack(u, next) PROVE LeasedStaysOpen'
  <2>1. pc'[u] = next /\ \A v \in Users \ {u} : pc'[v] = pc[v]
    BY <1>2, GiveBackMoves DEF Types
  <2>2. open' = open /\ \A v \in Users \ {u} : at'[v] = at[v]
    BY <1>2 DEF GiveBack, Types, StoreTypes
  <2>3. QED BY <2>1, <2>2 DEF LeasedStaysOpen
<1>3. CASE Quiet
  <2>1. ASSUME NEW u \in Users, pc[u] = "use", at[u] \notin open' PROVE FALSE
    <3>1. at[u] \in open /\ leases[at[u]] = 0 /\ at[u] \in Graphs
      BY <1>3, <2>1, QuietSteps DEF LeasedStaysOpen, Counts
    <3>2. Lessees(at[u]) = {}
      BY <3>1, LesseesFinite, FS_EmptySet DEF Counts
    <3>3. QED BY <2>1, <3>2 DEF Lessees
  <2>2. QED BY <1>3, <2>1, QuietSteps DEF LeasedStaysOpen
<1>4. QED BY <1>1, <1>2, <1>3 DEF Next, Quiet, Release, Panic, UserPCs

-----------------------------------------------------------------------------
(* The closers. *)

LEMMA NextShut == Types /\ Shut /\ [Next]_vars => Shut'
<1> DEFINE Behind(c) ==
             pc[c] /= "idle" =>
               /\ \A g \in Graphs \ todo[c] : g \in closing /\ g \notin open
               /\ pc[c] \in {"wait", "woken"} => at[c] \in closing
               /\ pc[c] = "over" => todo[c] = {}
<1> SUFFICES ASSUME Types, \A c \in Closers : Behind(c), [Next]_vars PROVE \A c \in Closers : Behind(c)'
  BY DEF Shut
<1>1. ASSUME NEW u \in Users, Acquire(u) PROVE \A c \in Closers : Behind(c)'
  <2>1. \A c \in Closers : pc'[c] = pc[c] /\ at'[c] = at[c]
    BY <1>1, GraphLeasesAssumption DEF Acquire, GraphLeasesAssumption, Types, PcTypes, StoreTypes
  <2>2. UNCHANGED <<closing, todo>> /\ \E g \in Graphs \ closing : open' = open \cup {g}
    BY <1>1 DEF Acquire
  <2>3. QED BY <2>1, <2>2
<1>2. ASSUME NEW u \in Users, NEW next \in UserPCs, GiveBack(u, next) PROVE \A c \in Closers : Behind(c)'
  <2>1. UNCHANGED <<open, closing, todo>> /\ \A c \in Closers : at'[c] = at[c]
    BY <1>2, GraphLeasesAssumption DEF GiveBack, GraphLeasesAssumption, Types, StoreTypes
  <2>2. \A c \in Closers : pc'[c] = pc[c] \/ (pc[c] = "wait" /\ pc'[c] = "woken")
    BY <1>2, GiveBackMoves DEF Types
  <2>3. QED BY <2>1, <2>2
<1>3. ASSUME NEW u \in Users, Lock(u) \/ Enforce(u) PROVE \A c \in Closers : Behind(c)'
  <2>1. /\ UNCHANGED <<closing, at, todo>> /\ \E next : pc' = [pc EXCEPT ![u] = next]
    BY <1>3 DEF Lock, Enforce, Count, Counted, Consider, Considered, Evict, EvictFails, Unlock,
                EnforceStep
  <2>2. \A c \in Closers : pc'[c] = pc[c]
    BY <2>1, GraphLeasesAssumption DEF GraphLeasesAssumption, Types, PcTypes
  <2>3. open' \subseteq open
    BY <1>3, QuietSteps DEF Quiet
  <2>4. QED BY <2>1, <2>2, <2>3
<1>4. ASSUME NEW d \in Closers, BeginCloseAll(d) \/ Close(d) PROVE \A c \in Closers : Behind(c)'
  <2>1. /\ closing \subseteq closing' /\ open' \subseteq open
        /\ \A c \in Closers \ {d} : pc'[c] = pc[c] /\ at'[c] = at[c] /\ todo'[c] = todo[c]
    <3>1. open' \subseteq open
      BY <1>4, QuietSteps DEF Quiet
    <3>2. CASE BeginCloseAll(d) \/ EndCloseAll(d)
      BY <3>1, <3>2 DEF BeginCloseAll, EndCloseAll, Types, PcTypes, StoreTypes
    <3>3. ASSUME NEW g, CloseOrWait(d, g)
          PROVE  \A c \in Closers \ {d} : pc'[c] = pc[c] /\ at'[c] = at[c] /\ todo'[c] = todo[c]
      BY <3>3 DEF CloseOrWait, Types, PcTypes, StoreTypes
    <3>4. QED BY <1>4, <3>1, <3>2, <3>3 DEF Close, CloseNext, CloseWoken
  <2>2. \A c \in Closers \ {d} : Behind(c)'
    BY <2>1
  <2>3. CASE BeginCloseAll(d)
    <3>1. pc'[d] = "close" /\ todo'[d] = Graphs
      BY <2>3 DEF BeginCloseAll, Types, PcTypes, StoreTypes
    <3>2. QED BY <2>2, <3>1
  <2>4. CASE EndCloseAll(d)
    <3>1. pc[d] = "close" /\ pc'[d] = "over" /\ todo[d] = {} /\ UNCHANGED <<open, closing, todo>>
      BY <2>4 DEF EndCloseAll, Types, PcTypes
    <3>2. QED BY <2>2, <3>1
  <2>5. ASSUME NEW g \in closing', CloseOrWait(d, g), pc[d] \in {"close", "woken"} PROVE Behind(d)'
    <3>1. \/ pc'[d] = "wait" /\ at'[d] = g /\ UNCHANGED <<open, todo>>
          \/ pc'[d] = "close" /\ open' = open \ {g} /\ todo'[d] = todo[d] \ {g}
      BY <2>5 DEF CloseOrWait, Types, PcTypes, StoreTypes
    <3>2. QED BY <2>1, <2>5, <3>1
  <2>6. CASE CloseNext(d)
    <3>1. \E g \in closing' : CloseOrWait(d, g)
      BY <2>6 DEF CloseNext
    <3>2. QED BY <2>2, <2>5, <2>6, <3>1 DEF CloseNext
  <2>7. CASE CloseWoken(d)
    <3>1. at[d] \in closing' /\ CloseOrWait(d, at[d])
      BY <2>7 DEF CloseWoken
    <3>2. QED BY <2>2, <2>5, <2>7, <3>1 DEF CloseWoken
  <2>8. QED BY <1>4, <2>3, <2>4, <2>6, <2>7 DEF Close
<1>5. CASE UNCHANGED vars
  BY <1>5 DEF vars
<1>6. QED BY <1>1, <1>2, <1>3, <1>4, <1>5 DEF Next, Release, Panic, UserPCs

-----------------------------------------------------------------------------
(* The limit. *)

LEMMA OpenFinite ==
  ASSUME Types
  PROVE  \A S \in SUBSET open : /\ IsFiniteSet(S)
                                /\ Cardinality(S) \in Nat /\ Cardinality(S) <= Cardinality(open)
BY FS_Subset, FS_CardinalityType, GraphLeasesAssumption DEF GraphLeasesAssumption, Types, StoreTypes

\* With nobody on the way to lru.mu, nobody holds a lease.
LEMMA UnaskedIdle ==
  ASSUME Counts, Unasked, NEW g \in Graphs
  PROVE  leases[g] = 0
<1>1. Lessees(g) = {}
  BY DEF Unasked, Lessees
<1>2. QED BY <1>1, FS_EmptySet DEF Counts

LEMMA NextTended == Types /\ Counts /\ Tended /\ [Next]_vars => Tended'
<1> SUFFICES ASSUME Types, Counts, Tended, [Next]_vars, Unasked'
             PROVE  /\ holder' = NoUser => Cardinality(open') <= MaxOpen
                    /\ \A u \in Users :
                         /\ pc'[u] = "count" => Cardinality(open' \ left') <= opened'
                         /\ pc'[u] = "oldest" /\ victim' = NoGraph => open' \subseteq left'
  BY DEF Tended
<1> DEFINE Goal == /\ holder' = NoUser => Cardinality(open') <= MaxOpen
                   /\ \A u \in Users :
                        /\ pc'[u] = "count" => Cardinality(open' \ left') <= opened'
                        /\ pc'[u] = "oldest" /\ victim' = NoGraph => open' \subseteq left'
<1> SUFFICES Goal
  OBVIOUS
<1>1. ASSUME NEW u \in Users, Acquire(u) \/ Release(u) \/ Panic(u) PROVE FALSE
  <2>1. CASE Acquire(u)
    <3>1. pc'[u] = "use"
      BY <2>1 DEF Acquire, Types, PcTypes
    <3>2. QED BY <3>1 DEF Unasked
  <2>2. CASE Release(u)
    <3>1. pc'[u] = "enforce"
      BY <2>2, GiveBackMoves DEF Release, UserPCs, Types
    <3>2. QED BY <3>1 DEF Unasked
  <2>3. CASE Panic(u)
    BY <2>3 DEF Panic, Unasked, Types, StoreTypes
  <2>4. QED BY <1>1, <2>1, <2>2, <2>3
\* The lock is taken, or the graphs are looked at again: none has been missed yet.
<1>2. ASSUME NEW u \in Users, left' = Graphs, opened' \in Nat, holder' = u, open' \subseteq Graphs,
             pc' = [pc EXCEPT ![u] = "count"], \A v \in Users \ {u} : pc[v] \notin EnforcePCs
      PROVE  Goal
  <2>1. /\ holder' /= NoUser /\ pc'[u] = "count"
        /\ \A v \in Users \ {u} : pc'[v] \notin EnforcePCs
    BY <1>2, GraphLeasesAssumption DEF GraphLeasesAssumption, Types, PcTypes
  <2>2. open' \ left' = {}
    BY <1>2
  <2>3. Cardinality(open' \ left') <= opened'
    BY <1>2, <2>2, FS_EmptySet
  <2>4. QED BY <2>1, <2>3 DEF EnforcePCs
<1>3. ASSUME NEW u \in Users, Lock(u) PROVE Goal
  BY <1>2, <1>3, GraphLeasesAssumption
  DEF Lock, Types, PcTypes, StoreTypes, LockTypes, GraphLeasesAssumption
<1>4. ASSUME NEW u \in Users, Enforce(u) PROVE Goal
  <2>1. /\ holder = u /\ pc[u] \in EnforcePCs /\ u /= NoUser
        /\ \A v \in Users \ {u} : pc[v] \notin EnforcePCs
    BY <1>4, GraphLeasesAssumption
    DEF Enforce, Count, Counted, Consider, Considered, Evict, EvictFails, Unlock, EnforceStep,
        Types, LockTypes, EnforcePCs, GraphLeasesAssumption
  <2>2. UNCHANGED leases /\ \E next : pc' = [pc EXCEPT ![u] = next]
    BY <1>4 DEF Enforce, Count, Counted, Consider, Considered, Evict, EvictFails, Unlock,
                EnforceStep
  <2>3. \A v \in Users \ {u} : pc'[v] = pc[v]
    BY <2>2 DEF Types, PcTypes
  <2>4. Unasked
    <3>1. faults = 0
      BY <1>4 DEF Enforce, Count, Counted, Consider, Considered, Evict, EvictFails, Unlock,
                  EnforceStep, Unasked, Types, StoreTypes
    <3>2. QED BY <2>1, <2>3, <3>1 DEF Unasked, EnforcePCs
  <2>5. /\ pc[u] = "count" => Cardinality(open \ left) <= opened
        /\ pc[u] = "oldest" /\ victim = NoGraph => open \subseteq left
    BY <2>4 DEF Tended
  <2>6. ASSUME Unlock(u), open' = open, Cardinality(open) <= MaxOpen PROVE Goal
    <3>1. pc'[u] = "idle"
      BY <2>6 DEF Unlock, EnforceStep, Types, PcTypes
    <3>2. QED BY <2>1, <2>3, <2>6, <3>1 DEF EnforcePCs
  <2>7. CASE Count(u)
    <3>1. PICK g \in left : /\ left' = left \ {g}
                            /\ opened' = IF g \in open THEN opened + 1 ELSE opened
      BY <2>7 DEF Count
    <3>2. pc[u] = "count" /\ pc'[u] = "count" /\ open' = open /\ holder' = u
      BY <2>1, <2>7 DEF Count, EnforceStep, Types, PcTypes
    <3>3. Cardinality(open \ left') <= opened'
      <4>1. CASE g \in open
        <5>1. open \ left' = (open \ left) \cup {g} /\ g \notin open \ left
          BY <3>1, <4>1
        <5>2. Cardinality(open \ left') = Cardinality(open \ left) + 1
          BY <5>1, OpenFinite, FS_AddElement
        <5>3. QED BY <2>5, <3>1, <3>2, <4>1, <5>2, OpenFinite DEF Types, LockTypes
      <4>2. CASE g \notin open
        <5>1. open \ left' = open \ left
          BY <3>1, <4>2
        <5>2. QED BY <2>5, <3>1, <3>2, <4>2, <5>1
      <4>3. QED BY <4>1, <4>2
    <3>4. QED BY <2>1, <2>3, <3>2, <3>3 DEF EnforcePCs
  <2>8. CASE Counted(u)
    <3>1. pc[u] = "count" /\ open \ left = open /\ open' = open
      BY <2>8 DEF Counted
    <3>2. CASE TooMany
      <4>1. pc'[u] = "oldest" /\ left' = Graphs /\ holder' = u
        BY <2>1, <2>8, <3>2 DEF Counted, EnforceStep, Types, PcTypes
      <4>2. QED BY <2>1, <2>3, <3>1, <4>1 DEF EnforcePCs, Types, StoreTypes
    <3>3. CASE ~TooMany
      <4>1. Cardinality(open) <= MaxOpen
        BY <2>5, <3>1, <3>3, OpenFinite, GraphLeasesAssumption
        DEF TooMany, GraphLeasesAssumption, Types, LockTypes
      <4>2. QED BY <2>6, <2>8, <3>1, <3>3, <4>1 DEF Counted
    <3>4. QED BY <3>2, <3>3
  <2>9. CASE Consider(u)
    <3>1. PICK g \in left :
            /\ left' = left \ {g}
            /\ IF g \in open /\ leases[g] = 0
               THEN victim' \in IF victim = NoGraph THEN {g} ELSE {victim, g}
               ELSE UNCHANGED victim
      BY <2>9 DEF Consider
    <3>2. pc[u] = "oldest" /\ pc'[u] = "oldest" /\ open' = open /\ holder' = u
      BY <2>1, <2>9 DEF Consider, EnforceStep, Types, PcTypes
    <3>3. g \in Graphs /\ leases[g] = 0 /\ g /= NoGraph
      BY <2>4, UnaskedIdle, GraphLeasesAssumption DEF Types, LockTypes, GraphLeasesAssumption
    <3>4. ASSUME victim' = NoGraph PROVE open \subseteq left'
      BY <2>5, <3>1, <3>2, <3>3, <3>4
    <3>5. QED BY <2>1, <2>3, <3>2, <3>4 DEF EnforcePCs
  <2>10. CASE Considered(u)
    <3>1. CASE victim = NoGraph
      <4>1. open = {}
        BY <2>5, <2>10, <3>1 DEF Considered
      <4>2. Cardinality(open) <= MaxOpen
        BY <4>1, FS_EmptySet, GraphLeasesAssumption DEF GraphLeasesAssumption
      <4>3. QED BY <2>6, <2>10, <3>1, <4>2 DEF Considered
    <3>2. CASE victim /= NoGraph
      <4>1. pc'[u] = "evict" /\ holder' = u
        BY <2>1, <2>10, <3>2 DEF Considered, EnforceStep, enforcement, Types, PcTypes
      <4>2. QED BY <2>1, <2>3, <4>1 DEF EnforcePCs
    <3>3. QED BY <3>1, <3>2
  <2>11. CASE Evict(u)
    BY <1>2, <2>1, <2>11 DEF Evict, EnforceStep, Recount, Types, StoreTypes
  <2>12. CASE EvictFails(u)
    BY <2>12 DEF EvictFails, Unasked, Types, StoreTypes
  <2>13. QED
    BY <1>4, <2>7, <2>8, <2>9, <2>10, <2>11, <2>12 DEF Enforce
<1>5. ASSUME NEW c \in Closers, BeginCloseAll(c) \/ Close(c) PROVE Goal
  <2>1. UNCHANGED <<enforcement, faults>> /\ \E next : pc' = [pc EXCEPT ![c] = next]
    BY <1>5 DEF BeginCloseAll, Close, CloseNext, CloseWoken, EndCloseAll, CloseOrWait
  <2>2. \A u \in Users : pc'[u] = pc[u]
    BY <2>1, GraphLeasesAssumption DEF Types, PcTypes, GraphLeasesAssumption
  <2>3. open' \subseteq open
    BY <1>5, QuietSteps DEF Quiet
  <2>4. Unasked
    BY <2>1, <2>2 DEF Unasked
  <2>5. /\ holder = NoUser => Cardinality(open) <= MaxOpen
        /\ \A u \in Users :
             /\ pc[u] = "count" => Cardinality(open \ left) <= opened
             /\ pc[u] = "oldest" /\ victim = NoGraph => open \subseteq left
    BY <2>4 DEF Tended
  <2>6. Cardinality(open') <= Cardinality(open) /\ Cardinality(open') \in Nat /\ Cardinality(open) \in Nat
    BY <2>3, OpenFinite
  <2>7. /\ Cardinality(open' \ left) <= Cardinality(open \ left)
        /\ Cardinality(open' \ left) \in Nat /\ Cardinality(open \ left) \in Nat
    BY <2>3, OpenFinite, FS_Subset, FS_CardinalityType
  <2>8. QED
    BY <2>1, <2>2, <2>3, <2>5, <2>6, <2>7, GraphLeasesAssumption
    DEF enforcement, Types, LockTypes, GraphLeasesAssumption
<1>6. CASE UNCHANGED vars
  <2>1. Unasked
    BY <1>6 DEF vars, Unasked
  <2>2. QED BY <1>6, <2>1 DEF Tended, vars, enforcement
<1>7. QED BY <1>1, <1>3, <1>4, <1>5, <1>6 DEF Next

-----------------------------------------------------------------------------
(* The invariant holds, and what follows from it. *)

LEMMA InitIInv == Init => IInv
<1> SUFFICES ASSUME Init PROVE IInv
  OBVIOUS
<1>1. Types
  BY GraphLeasesAssumption
  DEF Init, Types, PcTypes, StoreTypes, LockTypes, UserPCs, CloserPCs, EnforcePCs, GraphLeasesAssumption
<1>2. \A u \in Users : pc[u] = "idle"
  BY DEF Init
<1>3. Counts
  <2>1. \A g : Lessees(g) = {}
    BY <1>2 DEF Lessees
  <2>2. QED BY <1>2, <2>1, FS_EmptySet DEF Init, Counts
<1>4. Tended
  <2>1. Cardinality(open) <= MaxOpen
    BY FS_EmptySet, GraphLeasesAssumption DEF Init, GraphLeasesAssumption
  <2>2. QED BY <1>2, <2>1 DEF Tended
<1>5. LeasedStaysOpen /\ Shut
  BY <1>2 DEF Init, LeasedStaysOpen, Shut
<1>6. QED BY <1>1, <1>3, <1>4, <1>5 DEF IInv

LEMMA IInvHolds == Spec => []IInv
<1>1. IInv /\ [Next]_vars => IInv'
  BY NextTypes, NextCounts, NextLeased, NextShut, NextTended DEF IInv
<1>2. QED BY InitIInv, <1>1, PTL DEF Spec

\* No operation meets a closed store: whatever enforce and CloseAll have read before they
\* close a graph, they close it only when the leases are all back (closeIfIdleLocked, Close).
THEOREM LeasedGraphsStayOpen == Spec => []LeasedStaysOpen
<1>1. IInv => LeasedStaysOpen
  BY DEF IInv
<1>2. QED BY <1>1, IInvHolds, PTL

\* Once a CloseAll has returned no graph is open again, however the operations and other
\* closers run on: acquire refuses a closing graph, and a graph is closing before it is closed.
THEOREM ClosedGraphsStayClosed == Spec => []ClosedForGood
<1>1. IInv => ClosedForGood
  BY DEF IInv, Shut, ClosedForGood, Types, StoreTypes
<1>2. QED BY <1>1, IInvHolds, PTL

\* When every operation has returned the limit holds: what an enforce has missed, because it
\* was opened behind its back or was leased, is left to an operation that comes after it.
THEOREM RestingWithinLimit == Spec => []LimitHoldsAtRest
<1>1. ASSUME IInv, \A u \in Users : pc[u] = "idle", faults = 0 PROVE Cardinality(open) <= MaxOpen
  <2>1. Unasked
    BY <1>1 DEF Unasked
  <2>2. holder = NoUser
    BY <1>1 DEF IInv, Types, LockTypes, EnforcePCs
  <2>3. QED BY <1>1, <2>1, <2>2 DEF IInv, Tended
<1>2. IInv => LimitHoldsAtRest
  BY <1>1 DEF LimitHoldsAtRest
<1>3. QED BY <1>2, IInvHolds, PTL
=============================================================================
