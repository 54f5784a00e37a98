\* Four flows, run at once, later or on a schedule, with every outcome of
\* every call, callbacks before and after their deadline, and recoveries.
SPECIFICATION Spec
CONSTANTS
    Flows <- AllFlows
    Arg = "input"
    Values <- YesNo
    Callbacks <- CallbackIDs
    MaxRetries = 2
    Options <- AllOptions
    Delay = 1
    MaxTime = 2
    MaxCalls = 6
INVARIANTS
    TypeOK
    AwaitedCallStartsOnce
    ResultsComeFromCallbacks
    EachStepUsesItsOwnResult
PROPERTIES
    ImplementsLifecycle
CHECK_DEADLOCK FALSE
