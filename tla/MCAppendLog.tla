---------------------------- MODULE MCAppendLog ----------------------------
(* TLC instances of AppendLog. *)
EXTENDS AppendLog, TLC

CONSTANTS s1, s2

Update(matches) == [deleted |-> FALSE, matches |-> matches, offset |-> 0]
Removal == [deleted |-> TRUE, matches |-> FALSE, offset |-> 0]
Pushed == [deleted |-> FALSE, matches |-> TRUE, offset |-> 7]

AllMessages == {Update(FALSE), Removal, Pushed}
TwoMessages == {Update(TRUE), Removal}

\* From the back, and from an offset that is in the log or is not.
BackAndOffset == s1 :> -1 @@ s2 :> 7
\* From the front and from the back.
FrontAndBack == s1 :> 0 @@ s2 :> -1
=============================================================================
