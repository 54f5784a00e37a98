\* A schedule and its next runs, stopped and resumed by a client.
SPECIFICATION Spec
CONSTANTS
    MaxRuns = 3
    Handlers = {h1}
    Options <- Repeating
    Outcomes = {}
    Requests <- Scheduling
    Timeout = 1
    MaxRetries = 0
    QueueCapacity = 2
    MaxTime = 1
    MaxCallbacks = 0
    MaxVersion = 3
INVARIANTS
    OneLivePerSchedule
PROPERTIES
    StoredRunsFollowLifecycle
CHECK_DEADLOCK FALSE
