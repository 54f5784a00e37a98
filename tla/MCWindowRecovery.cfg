\* Sliding windows, two kinds of repositories, and failures everywhere.
SPECIFICATION FairSpec
CONSTANTS
    Input <- Sliding
    End <- TwoEnds
    EndOfStream = 9
    Copying <- BothKinds
    AutoSnapshot = TRUE
    MaxAttempts = 2
    StoreFails = TRUE
INVARIANTS
    TypeOK
    WindowsSkipNothing
    NothingIsLost
    EverythingIsPushed
PROPERTIES
    RecoveryReturns
CHECK_DEADLOCK FALSE
