\* Close while a subscriber is about to wait.
SPECIFICATION FairSpec
CONSTANTS
    s1 = s1
    s2 = s2
    Subscribers = {s1, s2}
    Messages <- TwoMessages
    From <- FrontAndBack
    Filtered = {}
    Cancellable = {}
    MaxLog = 2
    MaxBatch = 1
PROPERTIES
    ClosedSubscriberReturns
CHECK_DEADLOCK FALSE
