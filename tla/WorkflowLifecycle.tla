-------------------------- MODULE WorkflowLifecycle --------------------------
(***************************************************************************)
(* What a workflow run promises to the functions it calls and to whoever   *)
(* answers them, x/workflow/workflow_transition.go: the states of a run    *)
(* and the callbacks it waits for, without the flow it executes.  What an  *)
(* execution comes to is left open here; Workflow executes the flow.       *)
(***************************************************************************)
EXTENDS WorkflowLimits, FiniteSets

VARIABLES
    phase,      \* the type of the State
    callback,   \* Await.CallbackID
    retried,    \* Error.Retried
    started,    \* the callbacks the run has waited for
    answered    \* those of them it got a result for

vars == <<phase, callback, retried, started, answered>>

\* "Expired" is the Error that ExpireAsync leaves, "Error" any other.
Phases == {"nil", "Scheduled", "ScheduleStopped", "Await", "Error",
           "Expired", "Done"}

TypeOK ==
    /\ phase \in Phases
    /\ callback \in Callbacks \cup {NoCallback}
    /\ retried \in Nat
    /\ started \in SUBSET Callbacks
    /\ answered \in SUBSET started

Init ==
    /\ phase = "nil"
    /\ callback = NoCallback
    /\ retried = 0
    /\ started = {}
    /\ answered = {}

-----------------------------------------------------------------------------
\* The flow was executed from its start up to a state that stops it.
Reaches(p) ==
    /\ phase' = p
    /\ IF p = "Await"
       THEN /\ callback' \in Callbacks \ started
            /\ started' = started \cup {callback'}
       ELSE callback' = NoCallback /\ started' = started

Executed == \E p \in {"Await", "Error", "Done"} : Reaches(p)

Run ==
    /\ phase \in {"nil", "Scheduled"}
    /\ Executed
    /\ retried' = 0
    /\ UNCHANGED answered

Schedule ==
    /\ phase = "nil"
    /\ phase' = "Scheduled"
    /\ UNCHANGED <<callback, retried, started, answered>>

StopSchedule ==
    /\ phase = "Scheduled"
    /\ phase' = "ScheduleStopped"
    /\ UNCHANGED <<callback, retried, started, answered>>

ResumeSchedule ==
    /\ phase = "ScheduleStopped"
    /\ phase' = "Scheduled"
    /\ UNCHANGED <<callback, retried, started, answered>>

Callback ==
    /\ phase = "Await"
    /\ Executed
    /\ retried' = 0
    /\ answered' = answered \cup {callback}

\* The counter goes up when the same problem comes back.
TryRecover ==
    /\ phase = "Error" /\ retried < MaxRetries
    /\ Executed
    /\ retried' \in IF phase' = "Error" THEN {0, retried + 1} ELSE {0}
    /\ UNCHANGED answered

ExpireAsync ==
    /\ phase = "Await"
    /\ phase' = "Expired"
    /\ retried' = MaxRetries
    /\ UNCHANGED <<callback, started, answered>>

Next ==
    Run \/ Schedule \/ StopSchedule \/ ResumeSchedule \/ Callback
        \/ TryRecover \/ ExpireAsync

Spec == Init /\ [][Next]_vars

-----------------------------------------------------------------------------
(* Properties *)

\* Every callback that a run has waited for is settled in one way only: it
\* was answered, or it is the one the run waits for, or it is the one that
\* timed out. A run that is Done, or failed for another reason, owes nothing.
EachCallbackSettledOnce ==
    started \ answered =
        IF phase \in {"Await", "Expired"} THEN {callback} ELSE {}

\* Recovery gives up: the counter does not pass the limit, whatever mixture
\* of problems, callbacks and timeouts the run goes through.
RetriesAreBounded == retried <= MaxRetries
=============================================================================
