\* What the comment on Before says of one reader.
SPECIFICATION Spec
CONSTANTS
    Keys <- AllKeys
    Values = {1, 2}
    Readers = {r}
    Queries <- AllQueries
    MaxUpdates = 1
PROPERTIES
    BeforeIsLeftOut
CHECK_DEADLOCK FALSE
