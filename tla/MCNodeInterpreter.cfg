\* Small graphs of every kind of node, with handlers that fail.
SPECIFICATION FairSpec
CONSTANTS
    Graphs <- AllGraphs
    Windows = {1, 2, 3, 4}
    WindowOf <- TwoWindows
    WindowAfter <- NextWindow
    WindowSize = 2
    Capacity = 2
INVARIANTS
    TypeOK
    DeliveredInOrder
    OneHandlerAtATime
    FinishedIsComplete
PROPERTIES
    RunReturns
CHECK_DEADLOCK FALSE
