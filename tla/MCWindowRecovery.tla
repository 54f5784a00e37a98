--------------------------- MODULE MCWindowRecovery ---------------------------
(* TLC instances of WindowRecovery. *)
EXTENDS WindowRecovery

Rec(ws) == [time |-> 0, windows |-> ws]
Mark(t) == [time |-> t, windows |-> <<>>]

\* Sliding windows: the second record is in two of them, and the third one
\* comes after the watermark that flushed its first window.
Sliding == <<Rec(<<1>>), Rec(<<1, 2>>), Mark(5), Rec(<<1, 2>>), Mark(9)>>
TwoEnds == <<5, 7>>

\* One window, one watermark at the end: the shape of the repository's test.
Fixed == <<Rec(<<1>>), Rec(<<1>>), Mark(9)>>
OneEnd == <<5>>

BothKinds == {TRUE, FALSE}
InMemory == {FALSE}
=============================================================================
