---------------------------- MODULE WorkflowLimits ----------------------------
(***************************************************************************)
(* What a run of a workflow is given from outside, x/workflow: the IDs its *)
(* callbacks get and the limit of its recoveries.                          *)
(***************************************************************************)
EXTENDS Integers

CONSTANTS
    Callbacks,     \* what GenerateCallbackID returns
    MaxRetries     \* Dependency.MaxRetries(), BaseState.DefaultMaxRetries

NoCallback == 0

ASSUME MaxRetriesAssumption == MaxRetries \in Nat
ASSUME CallbacksAssumption == NoCallback \notin Callbacks
=============================================================================
