---------------------------- MODULE GraphLeases ----------------------------
(***************************************************************************)
(* The lazily opened project graphs                                        *)
(* (internal/platform/ladybug/lazy_pebble_graph.go).                       *)
(*                                                                         *)
(* An operation on a graph takes a lease, which opens the store if it is   *)
(* closed, and gives it back; then it closes the stores in excess of       *)
(* MaxOpen, least recently used first. CloseAll closes every graph for     *)
(* good when the server stops, waiting for the leases of each.             *)
(*                                                                         *)
(* graph.mu is held for single steps here. lru.mu is held by a whole       *)
(* enforce, which looks at one graph after another while other operations  *)
(* take and return leases. Which of two idle graphs was used last is left  *)
(* open: enforce compares times it has read at different moments.          *)
(*                                                                         *)
(* Next uses none of the operators under a "Faulty" comment: each is a     *)
(* variant of the definition after it with a plausible bug.                *)
(***************************************************************************)
EXTENDS Integers, FiniteSets

CONSTANTS
  Graphs,     \* the projects' graphs, registered at the start
  Users,      \* goroutines that operate on graphs
  Closers,    \* goroutines that call CloseAll
  MaxOpen,    \* maxOpen
  MaxFaults,  \* bound: operations that panic and stores that fail to close
  NoGraph, NoUser

ASSUME GraphLeasesAssumption ==
  /\ IsFiniteSet(Graphs) /\ IsFiniteSet(Users)
  /\ Users \cap Closers = {}
  /\ NoGraph \notin Graphs /\ NoUser \notin Users
  /\ MaxOpen \in Nat \ {0} /\ MaxFaults \in Nat

VARIABLES
  open,     \* the graphs that have an open store
  leases,   \* leases[g]
  closing,  \* the graphs that accept no lease any more
  pc,       \* where each user and closer is
  at,       \* the graph that each of them is working on
  holder,   \* the user that holds lru.mu
  left,     \* the graphs that the holder has still to look at
  opened,   \* the open graphs that it has counted
  victim,   \* the idle graph that it has found
  todo,     \* the graphs that each closer has still to close
  faults    \* faults so far

enforcement == <<holder, left, opened, victim>>
vars == <<open, leases, closing, pc, at, enforcement, todo, faults>>

UserPCs == {"idle", "use", "enforce", "count", "oldest", "evict"}
CloserPCs == {"idle", "close", "wait", "woken", "over"}
EnforcePCs == {"count", "oldest", "evict"}

Init ==
  /\ open = {} /\ leases = [g \in Graphs |-> 0] /\ closing = {}
  /\ pc = [p \in Users \cup Closers |-> "idle"]
  /\ at = [p \in Users \cup Closers |-> NoGraph]
  /\ holder = NoUser /\ left = {} /\ opened = 0 /\ victim = NoGraph
  /\ todo = [c \in Closers |-> {}]
  /\ faults = 0

-----------------------------------------------------------------------------
(* withGraph. *)

\* Faulty: a closing graph is opened again.
AcquireClosing(u) ==
  /\ pc[u] = "idle"
  /\ \E g \in Graphs :
       /\ open' = open \cup {g}
       /\ leases' = [leases EXCEPT ![g] = @ + 1]
       /\ at' = [at EXCEPT ![u] = g]
  /\ pc' = [pc EXCEPT ![u] = "use"]
  /\ UNCHANGED <<closing, enforcement, todo, faults>>

\* acquire; an acquire that is refused, or cannot open the store, changes nothing.
Acquire(u) ==
  /\ pc[u] = "idle"
  /\ \E g \in Graphs \ closing :
       /\ open' = open \cup {g}
       /\ leases' = [leases EXCEPT ![g] = @ + 1]
       /\ at' = [at EXCEPT ![u] = g]
  /\ pc' = [pc EXCEPT ![u] = "use"]
  /\ UNCHANGED <<closing, enforcement, todo, faults>>

\* Faulty: the last lease wakes nobody.
WakingNobody(g, next) == next

\* cond.Broadcast
Waking(g, next) ==
  [p \in DOMAIN next |-> IF next[p] = "wait" /\ at[p] = g THEN "woken" ELSE next[p]]

\* release, on the way to step next.
GiveBack(u, next) ==
  LET g == at[u]
      moved == [pc EXCEPT ![u] = next]
  IN  /\ pc[u] = "use"
      /\ leases' = [leases EXCEPT ![g] = IF @ > 0 THEN @ - 1 ELSE @]
      /\ pc' = IF leases'[g] = 0 THEN Waking(g, moved) ELSE moved
      /\ at' = [at EXCEPT ![u] = NoGraph]
      /\ UNCHANGED <<open, closing, enforcement, todo>>

Release(u) == GiveBack(u, "enforce") /\ UNCHANGED faults

\* The operation panics: the lease is given back and nothing is enforced.
Panic(u) ==
  /\ faults < MaxFaults /\ faults' = faults + 1
  /\ GiveBack(u, "idle")

-----------------------------------------------------------------------------
(* enforce, which holds lru.mu to its end. *)

EnforceStep(u, next) ==
  /\ holder = u
  /\ pc' = [pc EXCEPT ![u] = next]
  /\ UNCHANGED <<leases, closing, at, todo>>

Unlock(u) == EnforceStep(u, "idle") /\ holder' = NoUser /\ left' = {} /\ opened' = 0 /\ victim' = NoGraph

Recount == left' = Graphs /\ opened' = 0 /\ victim' = NoGraph /\ UNCHANGED holder

Lock(u) ==
  /\ pc[u] = "enforce" /\ holder = NoUser
  /\ holder' = u /\ left' = Graphs
  /\ pc' = [pc EXCEPT ![u] = "count"]
  /\ UNCHANGED <<open, leases, closing, at, opened, victim, todo, faults>>

\* openCountLocked
Count(u) ==
  /\ pc[u] = "count"
  /\ \E g \in left :
       /\ left' = left \ {g}
       /\ opened' = IF g \in open THEN opened + 1 ELSE opened
  /\ EnforceStep(u, "count")
  /\ UNCHANGED <<open, holder, victim, faults>>

\* Faulty: one graph too many stays open.
TooManyLater == opened > MaxOpen + 1

TooMany == opened > MaxOpen

Counted(u) ==
  /\ pc[u] = "count" /\ left = {}
  /\ IF TooMany
     THEN EnforceStep(u, "oldest") /\ left' = Graphs /\ UNCHANGED <<holder, opened, victim>>
     ELSE Unlock(u)
  /\ UNCHANGED <<open, faults>>

\* oldestIdleLocked
Consider(u) ==
  /\ pc[u] = "oldest"
  /\ \E g \in left :
       /\ left' = left \ {g}
       /\ IF g \in open /\ leases[g] = 0
          THEN victim' \in IF victim = NoGraph THEN {g} ELSE {victim, g}
          ELSE UNCHANGED victim
  /\ EnforceStep(u, "oldest")
  /\ UNCHANGED <<open, holder, opened, faults>>

Considered(u) ==
  /\ pc[u] = "oldest" /\ left = {}
  /\ IF victim = NoGraph
     THEN Unlock(u)
     ELSE EnforceStep(u, "evict") /\ UNCHANGED enforcement
  /\ UNCHANGED <<open, faults>>

\* Faulty: the victim may have been leased since it was found idle.
EvictUnchecked(u) ==
  /\ pc[u] = "evict"
  /\ open' = open \ {victim}
  /\ EnforceStep(u, "count") /\ Recount
  /\ UNCHANGED faults

\* closeIfIdleLocked
Evict(u) ==
  /\ pc[u] = "evict"
  /\ open' = IF leases[victim] > 0 THEN open ELSE open \ {victim}
  /\ EnforceStep(u, "count") /\ Recount
  /\ UNCHANGED faults

\* Faulty: lru.mu stays locked.
EvictFailsLocked(u) ==
  /\ pc[u] = "evict" /\ leases[victim] = 0 /\ victim \in open
  /\ faults < MaxFaults /\ faults' = faults + 1
  /\ open' = open \ {victim}
  /\ EnforceStep(u, "idle") /\ UNCHANGED enforcement

\* The store of the victim returns an error when it is closed: enforce ends.
EvictFails(u) ==
  /\ pc[u] = "evict" /\ leases[victim] = 0 /\ victim \in open
  /\ faults < MaxFaults /\ faults' = faults + 1
  /\ open' = open \ {victim}
  /\ Unlock(u)

-----------------------------------------------------------------------------
(* CloseAll. *)

\* The graphs are copied under lru.mu.
BeginCloseAll(c) ==
  /\ pc[c] = "idle" /\ holder = NoUser
  /\ pc' = [pc EXCEPT ![c] = "close"]
  /\ todo' = [todo EXCEPT ![c] = Graphs]
  /\ UNCHANGED <<open, leases, closing, at, enforcement, faults>>

\* Close, from its first check or after a wakeup.
CloseOrWait(c, g) ==
  /\ IF leases[g] > 0
     THEN /\ pc' = [pc EXCEPT ![c] = "wait"]
          /\ at' = [at EXCEPT ![c] = g]
          /\ UNCHANGED <<open, todo>>
     ELSE /\ pc' = [pc EXCEPT ![c] = "close"]
          /\ at' = [at EXCEPT ![c] = NoGraph]
          /\ open' = open \ {g}
          /\ todo' = [todo EXCEPT ![c] = @ \ {g}]
  /\ UNCHANGED <<leases, enforcement, faults>>

CloseNext(c) ==
  /\ pc[c] = "close"
  /\ \E g \in todo[c] : closing' = closing \cup {g} /\ CloseOrWait(c, g)

CloseWoken(c) ==
  /\ pc[c] = "woken"
  /\ CloseOrWait(c, at[c])
  /\ UNCHANGED closing

EndCloseAll(c) ==
  /\ pc[c] = "close" /\ todo[c] = {}
  /\ pc' = [pc EXCEPT ![c] = "over"]
  /\ UNCHANGED <<open, leases, closing, at, enforcement, todo, faults>>

-----------------------------------------------------------------------------
Enforce(u) == Count(u) \/ Counted(u) \/ Consider(u) \/ Considered(u) \/ Evict(u) \/ EvictFails(u)
Close(c) == CloseNext(c) \/ CloseWoken(c) \/ EndCloseAll(c)

Next ==
  \/ \E u \in Users : Acquire(u) \/ Release(u) \/ Panic(u) \/ Lock(u) \/ Enforce(u)
  \/ \E c \in Closers : BeginCloseAll(c) \/ Close(c)

\* Operations on a graph end, a goroutine that can go on does, and lru.mu does not
\* starve a goroutine that asks for it.
Fairness ==
  /\ \A u \in Users : WF_vars(Release(u)) /\ SF_vars(Lock(u)) /\ WF_vars(Enforce(u))
  /\ \A c \in Closers : WF_vars(Close(c))

Spec == Init /\ [][Next]_vars
FairSpec == Spec /\ Fairness

-----------------------------------------------------------------------------
(* Properties. *)

\* A store stays open under a lease, whatever enforce has seen of its graph before
\* (closeIfIdleLocked, Close): no operation meets a closed store.
LeasedStaysOpen == \A u \in Users : pc[u] = "use" => at[u] \in open

\* When no operation is left that has to enforce it, the limit holds, though each
\* enforce looks at the graphs one by one, while others open and close them.
LimitHoldsAtRest ==
  (\A u \in Users : pc[u] = "idle") /\ faults = 0 => Cardinality(open) <= MaxOpen

\* lazy_pebble_graph_test.go:94: CloseAll returns with every graph closed, and none is
\* opened again (acquire).
ClosedForGood == (\E c \in Closers : pc[c] = "over") => open = {}

\* An operation returns: enforce, which starts again with each victim it closes or finds
\* leased meanwhile, comes to an end.
EnforcementEnds == \A u \in Users : pc[u] = "enforce" ~> pc[u] = "idle"

\* CloseAll returns once the operations have ended: no wakeup of its wait is lost.
ClosersReturn == \A c \in Closers : pc[c] = "close" ~> pc[c] = "over"
=============================================================================
