\* One delayed run: two clients that answer it against the tasks.
SPECIFICATION FairSpec
CONSTANTS
    MaxRuns = 1
    Handlers = {h1, h2}
    Options <- Delayed
    Outcomes <- AllOutcomes
    Requests <- Answering
    Timeout = 1
    MaxRetries = 1
    QueueCapacity = 1
    MaxTime = 2
    MaxCallbacks = 1
    MaxVersion = 3
INVARIANTS
    TypeOK
    EachCallbackSettledOnce
PROPERTIES
    EveryTaskIsDone
CHECK_DEADLOCK FALSE
