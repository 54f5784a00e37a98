\* The in-memory repository, as in the test, with two recovery attempts.
SPECIFICATION Spec
CONSTANTS
    Input <- Fixed
    End <- OneEnd
    EndOfStream = 9
    Copying <- InMemory
    AutoSnapshot = TRUE
    MaxAttempts = 3
    StoreFails = FALSE
INVARIANTS
    ResultsAreComplete
CHECK_DEADLOCK FALSE
