------------------------- MODULE MCWorkflowService --------------------------
(* TLC instances of WorkflowService. *)
EXTENDS WorkflowService

Delayed == {"delay"}
Repeating == {"schedule"}
AllOutcomes == {"Await", "Error", "Failed"}
Answering == {"callback"}
Scheduling == {"stop", "resume"}
=============================================================================
