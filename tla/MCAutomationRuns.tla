-------------------------- MODULE MCAutomationRuns --------------------------
(* Small instances of the automation runs of one task. *)
EXTENDS AutomationRunsProperties
=============================================================================
