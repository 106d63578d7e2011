---------------------------- MODULE TaskAdmission ----------------------------
(***************************************************************************)
(* What the ingestion scheduler promises about the tasks of one project,   *)
(* without channels, workers or counters: a project-wide task is active    *)
(* alone, path tasks are active up to a limit, and a path task never       *)
(* becomes active while a project-wide task of its project is waiting.     *)
(***************************************************************************)
EXTENDS Naturals, FiniteSets

CONSTANTS Tasks, Project, Wide, Limit

VARIABLE stage   \* stage[t] \in {"outside", "waiting", "active", "over"}

InStage(s, p) == {t \in Tasks : Project[t] = p /\ stage[t] = s}

Move(t, from, to) ==
  /\ stage[t] = from
  /\ stage' = [stage EXCEPT ![t] = to]

Init == stage = [t \in Tasks |-> "outside"]

Arrive(t) == Move(t, "outside", "waiting")

BeginWide(t) ==
  /\ t \in Wide
  /\ InStage("active", Project[t]) = {}
  /\ Move(t, "waiting", "active")

BeginPath(t) ==
  /\ t \notin Wide
  /\ (InStage("active", Project[t]) \cup InStage("waiting", Project[t])) \cap Wide = {}
  /\ Cardinality(InStage("active", Project[t])) < Limit
  /\ Move(t, "waiting", "active")

Finish(t) == Move(t, "active", "over")

Withdraw(t) == Move(t, "waiting", "over") \/ Move(t, "outside", "over")

\* The process ends: what had arrived is lost, what was arriving may be.
Lose ==
  /\ stage' \in [Tasks -> {"outside", "over"}]
  /\ \A t \in Tasks : stage'[t] = "outside" => stage[t] = "outside"

Next ==
  \/ \E t \in Tasks :
        Arrive(t) \/ BeginWide(t) \/ BeginPath(t) \/ Finish(t) \/ Withdraw(t)
  \/ Lose

Spec == Init /\ [][Next]_stage
=============================================================================
