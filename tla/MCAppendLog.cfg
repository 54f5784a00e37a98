\* A filtered reader from the back and a cancellable one from an offset.
SPECIFICATION FairSpec
CONSTANTS
    s1 = s1
    s2 = s2
    Subscribers = {s1, s2}
    Messages <- AllMessages
    From <- BackAndOffset
    Filtered = {s1}
    Cancellable = {s2}
    MaxLog = 3
    MaxBatch = 2
INVARIANTS
    TypeOK
    ExactlyOnceInOrder
    NoMissedAppend
PROPERTIES
    ImplementsEventLog
    EveryMessageArrives
CHECK_DEADLOCK FALSE
