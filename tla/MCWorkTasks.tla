---------------------------- MODULE MCWorkTasks ----------------------------
(* Small instances of the Work Task module. *)
EXTENDS WorkTasksProperties, TLC

RunSymmetry == Permutations(Runs)
=============================================================================
