\* One reader, and one batch of changes between its pages.
SPECIFICATION Spec
CONSTANTS
    Keys <- AllKeys
    Values = {1, 2}
    Readers = {r}
    Queries <- AllQueries
    MaxUpdates = 1
INVARIANTS
    PagesCoverWhatStays
PROPERTIES
    PrevUndoesNext
CHECK_DEADLOCK FALSE
