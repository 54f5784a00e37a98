-------------------------- MODULE MCNodeInterpreter --------------------------
(* Graphs and TLC instances of NodeInterpreter. *)
EXTENDS NodeInterpreter

LoadNode(k) == [kind |-> "load", input |-> <<>>, need |-> {}, fails |-> FALSE, items |-> k]
MapNode(i) == [kind |-> "map", input |-> <<i>>, need |-> {}, fails |-> FALSE]
FailingNode(i) == [kind |-> "map", input |-> <<i>>, need |-> {}, fails |-> TRUE]
WindowNode(i, ts) == [kind |-> "window", input |-> <<i>>, need |-> ts, fails |-> FALSE]
JoinNode(i, j) == [kind |-> "join", input |-> <<i, j>>, need |-> {}, fails |-> FALSE]

AtWatermark == {{"watermark"}}
AnyOf == {{"watermark"}, {"size"}}
AllOf == {{"watermark", "size"}}

\* Nodes are started from the last ones to the loads.
Line == <<MapNode(2), WindowNode(3, AtWatermark), LoadNode(2)>>
Sized == <<WindowNode(2, AllOf), LoadNode(3)>>
Nested == <<WindowNode(2, AllOf), WindowNode(3, AnyOf), LoadNode(3)>>
Fork == <<MapNode(3), MapNode(3), LoadNode(3)>>
JoinedWindow == <<WindowNode(2, AtWatermark), JoinNode(3, 4), LoadNode(1), LoadNode(0)>>
TwiceInWindow == <<WindowNode(2, AllOf), JoinNode(3, 3), LoadNode(1)>>
FailingFork == <<FailingNode(3), MapNode(3), LoadNode(2)>>
FailingLine == <<MapNode(2), FailingNode(3), LoadNode(2)>>
FailingJoin == <<JoinNode(2, 3), FailingNode(4), LoadNode(0), LoadNode(1)>>

AllGraphs == {Line, Sized, Nested, Fork, JoinedWindow, TwiceInWindow, FailingFork, FailingLine,
              FailingJoin}

\* The windows of three items, and of the ends of windows.
TwoWindows == <<1, 1, 2>>
NextWindow == <<2, 3, 4, 4>>
=============================================================================
