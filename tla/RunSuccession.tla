---------------------------- MODULE RunSuccession ----------------------------
(***************************************************************************)
(* What the automation service promises of the runs of one task, without   *)
(* claims, leases, categories or the task: runs succeed one another. A run *)
(* enters when every earlier one is over, it is executed and may be put    *)
(* back, a limited number of times, and once it is over it stays so.       *)
(***************************************************************************)
EXTENDS Naturals

CONSTANTS Ids, MaxTries

VARIABLES
  stage,  \* stage[id] \in {"none", "waiting", "executing", "over"}
  tries   \* tries[id]: how often run id was executed

Open(id) == stage[id] \in {"waiting", "executing"}

Init ==
  /\ stage = [id \in Ids |-> "none"]
  /\ tries = [id \in Ids |-> 0]

Move(id, to) == stage' = [stage EXCEPT ![id] = to]

Enter(id) ==
  /\ stage[id] = "none" /\ \A other \in Ids : ~Open(other)
  /\ Move(id, "waiting")
  /\ UNCHANGED tries

Execute(id) ==
  /\ stage[id] = "waiting" /\ tries[id] < MaxTries
  /\ Move(id, "executing")
  /\ tries' = [tries EXCEPT ![id] = @ + 1]

\* Only a run that has a try left is put back.
PutBack(id) ==
  /\ stage[id] = "executing" /\ tries[id] < MaxTries
  /\ Move(id, "waiting")
  /\ UNCHANGED tries

End(id) ==
  /\ Open(id)
  /\ Move(id, "over")
  /\ UNCHANGED tries

Next == \E id \in Ids : Enter(id) \/ Execute(id) \/ PutBack(id) \/ End(id)

Spec == Init /\ [][Next]_<<stage, tries>>
=============================================================================
