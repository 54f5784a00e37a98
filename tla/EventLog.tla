------------------------------ MODULE EventLog ------------------------------
(***************************************************************************)
(* What the change log of x/storage/schemaless/stream.go is for those who  *)
(* write it and follow it: events that are only added to, and one cursor   *)
(* for each reader.  There is no lock here, nobody sleeps or is woken, and *)
(* to look at an event and to move to it is one step; AppendLog does all   *)
(* of that, and implements it.                                             *)
(***************************************************************************)
EXTENDS Integers, Sequences, SequencesExt

CONSTANTS
    Readers,
    Events,
    Wants     \* per reader, the events that it is called with

VARIABLES
    events,   \* all that was written
    closed,   \* no more is to come
    stage,    \* where the call of each reader is
    cursor,   \* the events that each reader is past
    given     \* the positions of those it was called with

vars == <<events, closed, stage, cursor, given>>

Init ==
    /\ events = <<>>
    /\ closed = FALSE
    /\ stage = [r \in Readers |-> "away"]
    /\ cursor = [r \in Readers |-> 0]
    /\ given = [r \in Readers |-> <<>>]

\* One call adds any number of events. A batch may come after the end.
Write ==
    /\ events' \in Seq(Events) /\ IsPrefix(events, events')
    /\ UNCHANGED <<closed, stage, cursor, given>>

Close ==
    /\ closed' = TRUE
    /\ UNCHANGED <<events, stage, cursor, given>>

Moves(r, from, to) ==
    /\ stage[r] = from
    /\ stage' = [stage EXCEPT ![r] = to]

\* A reader begins at an event that is there, not at one that will come.
Begin(r) ==
    /\ Moves(r, "away", "reading")
    /\ \E i \in 1 .. Len(events) : cursor' = [cursor EXCEPT ![r] = i - 1]
    /\ UNCHANGED <<events, closed, given>>

\* The event it asks for is not among those that are there, or is the last.
Refuse(r) ==
    /\ Moves(r, "away", "refused")
    /\ events # <<>>
    /\ UNCHANGED <<events, closed, cursor, given>>

\* The next event, which the reader is called with when it wants it.
Give(r) ==
    /\ stage[r] = "reading" /\ cursor[r] < Len(events)
    /\ cursor' = [cursor EXCEPT ![r] = @ + 1]
    /\ given' = IF events[cursor[r] + 1] \in Wants[r]
                THEN [given EXCEPT ![r] = Append(@, cursor[r] + 1)]
                ELSE given
    /\ UNCHANGED <<events, closed, stage>>

\* A reader stays until it is past the last event and no more is to come.
End(r) ==
    /\ Moves(r, "reading", "ended")
    /\ closed /\ cursor[r] = Len(events)
    /\ UNCHANGED <<events, closed, cursor, given>>

\* Unless its context is done, which is found out before an event is given.
Leave(r) ==
    /\ Moves(r, "reading", "left")
    /\ cursor[r] < Len(events)
    /\ UNCHANGED <<events, closed, cursor, given>>

Next ==
    \/ Write \/ Close
    \/ \E r \in Readers : Begin(r) \/ Refuse(r) \/ Give(r) \/ End(r) \/ Leave(r)

Spec == Init /\ [][Next]_vars
=============================================================================
