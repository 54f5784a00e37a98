------------------------------ MODULE AppendLog ------------------------------
(***************************************************************************)
(* The change log of x/storage/schemaless/stream.go: an append-only list   *)
(* that any number of subscribers follow, each with a position of its own, *)
(* under one RWMutex whose read side is also the lock of the condition     *)
(* variable the subscribers wait on.                                       *)
(*                                                                         *)
(* A writer holds the mutex alone and is one step.  A subscriber holds it  *)
(* for reading while it looks for a message; when there is none it calls   *)
(* cond.Wait, which first registers the goroutine and then unlocks.  Those *)
(* are two steps here (pc "park..." holds the read lock, "parked..." does  *)
(* not), because Close, which takes the read lock too, fits between them.  *)
(***************************************************************************)
EXTENDS Integers, Sequences, SequencesExt

CONSTANTS
    Subscribers,
    Messages,      \* what is stored: [deleted, matches, offset]
    From,          \* the fromOffset argument of each subscriber
    Filtered,      \* subscribers that pass a filter
    Cancellable,   \* subscribers whose context may be cancelled
    MaxLog,        \* bound on the length of the log
    MaxBatch       \* bound on the number of changes of one Append

\* deleted: Change.Deleted. matches: After satisfies the filter. offset:
\* Change.Offset, which only a caller of Push sets.
ASSUME MessagesAssumption ==
    Messages \subseteq [deleted : BOOLEAN, matches : BOOLEAN, offset : Nat]
ASSUME FromAssumption == From \in [Subscribers -> Nat \cup {-1}]
ASSUME BoundsAssumption == MaxLog \in Nat /\ MaxBatch \in Nat

VARIABLES
    log,        \* AppendLog.log
    closed,     \* AppendLog.closed
    pc,         \* where each call of Subscribe is
    prev,       \* Subscribe's prev: the position of the message it is at
    start,      \* auxiliary: the position it began at
    handled,    \* auxiliary: the positions f was called with, in order
    cancelled   \* the contexts that are done

vars == <<log, closed, pc, prev, start, handled, cancelled>>

Waiting == {"parkFirst", "parkNext"}       \* hold the read lock
Parked == {"parkedFirst", "parkedNext"}    \* in the condition's notify list
Finished == {"returned", "cancelled", "notFound"}

TypeOK ==
    /\ log \in Seq(Messages)
    /\ closed \in BOOLEAN
    /\ pc \in [Subscribers -> {"idle", "first", "next", "deliver"}
                                \cup Waiting \cup Parked \cup Finished]
    /\ prev \in [Subscribers -> 0 .. Len(log)]
    /\ start \in [Subscribers -> 0 .. Len(log)]
    /\ handled \in [Subscribers -> Seq(1 .. Len(log))]
    /\ cancelled \in SUBSET Cancellable

Init ==
    /\ log = <<>>
    /\ closed = FALSE
    /\ pc = [s \in Subscribers |-> "idle"]
    /\ prev = [s \in Subscribers |-> 0]
    /\ start = [s \in Subscribers |-> 0]
    /\ handled = [s \in Subscribers |-> <<>>]
    /\ cancelled = {}

-----------------------------------------------------------------------------
\* Mutation: cond.Signal, one of them does.
Signal ==
    LET sleeping == {s \in Subscribers : pc[s] \in Parked}
    IN  IF sleeping = {} THEN UNCHANGED pc
        ELSE \E s \in sleeping :
                pc' = [pc EXCEPT ![s] = IF @ = "parkedFirst" THEN "first" ELSE "next"]

\* cond.Broadcast: everyone in the notify list competes for the lock again.
Broadcast ==
    pc' = [s \in Subscribers |->
              CASE pc[s] = "parkedFirst" -> "first"
                [] pc[s] = "parkedNext" -> "next"
                [] OTHER -> pc[s]]

\* Mutation: writers take the read lock.
ReadLockFree == TRUE

\* mux.Lock is granted when no goroutine holds the read lock.
WriteLockFree == \A s \in Subscribers : pc[s] \notin Waiting

PushBack(batch) ==
    /\ WriteLockFree
    /\ Len(log) + Len(batch) <= MaxLog
    /\ log' = log \o batch
    /\ Broadcast
    /\ UNCHANGED <<closed, prev, start, handled, cancelled>>

\* The three of them panic when the log is closed.
Change(m) == ~closed /\ ~m.deleted /\ m.offset = 0 /\ PushBack(<<m>>)
Delete(m) == ~closed /\ m.deleted /\ m.offset = 0 /\ PushBack(<<m>>)
Push(m) == ~closed /\ PushBack(<<m>>)

\* Append copies the list of another log, empty or not, and asks whether
\* that log is closed. UpdateRecords passes one that never is.
Append_(batch) == PushBack(batch)

\* Close takes the read lock, which it shares with waiting subscribers.
Close ==
    /\ closed' = TRUE
    /\ Broadcast
    /\ UNCHANGED <<log, prev, start, handled, cancelled>>

Cancel(s) ==
    /\ cancelled' = cancelled \cup {s}
    /\ UNCHANGED <<log, closed, pc, prev, start, handled>>

-----------------------------------------------------------------------------
(* Subscribe *)

Go(s, from, to) ==
    /\ pc[s] = from
    /\ pc' = [pc EXCEPT ![s] = to]

Subscribe(s) ==
    /\ Go(s, "idle", "first")
    /\ UNCHANGED <<log, closed, prev, start, handled, cancelled>>

\* The first loop waits for a message and does not look at closed.
WaitFirst(s) ==
    /\ log = <<>>
    /\ Go(s, "first", "parkFirst")
    /\ UNCHANGED <<log, closed, prev, start, handled, cancelled>>

\* The positions whose message carries the wanted offset.
Hits(f) == {i \in 1 .. Len(log) : log[i].offset = f}

\* Mutation: -1 begins after the back.
StartAfterBack(f) == IF f = 0 THEN 1 ELSE Len(log) + 1

\* Where the switch on fromOffset leaves prev: the scan stops at the first
\* hit and at the back when there is none.
StartPosition(f) ==
    IF f = 0 THEN 1
    ELSE IF f = -1 \/ Hits(f) = {} THEN Len(log)
    ELSE CHOOSE i \in Hits(f) : \A j \in Hits(f) : i <= j

SelectStart(s) ==
    LET p == StartPosition(From[s])
    IN  /\ log # <<>>
        /\ IF From[s] \notin {0, -1} /\ p = Len(log)
           THEN /\ Go(s, "first", "notFound")
                /\ UNCHANGED <<prev, start>>
           ELSE /\ Go(s, "first", "deliver")
                /\ prev' = [prev EXCEPT ![s] = p]
                /\ start' = [start EXCEPT ![s] = p]
        /\ UNCHANGED <<log, closed, handled, cancelled>>

\* The filter is put to After, which a deletion does not have.
Passes(s, m) == s \in Filtered /\ ~m.deleted => m.matches

\* The select prefers a done context; otherwise f is called without a lock.
Deliver(s) ==
    /\ s \notin cancelled
    /\ Go(s, "deliver", "next")
    /\ handled' = IF Passes(s, log[prev[s]])
                  THEN [handled EXCEPT ![s] = Append(@, prev[s])]
                  ELSE handled
    /\ UNCHANGED <<log, closed, prev, start, cancelled>>

StopOnCancel(s) ==
    /\ s \in cancelled
    /\ Go(s, "deliver", "cancelled")
    /\ UNCHANGED <<log, closed, prev, start, handled, cancelled>>

WaitNext(s) ==
    /\ prev[s] = Len(log) /\ ~closed
    /\ Go(s, "next", "parkNext")
    /\ UNCHANGED <<log, closed, prev, start, handled, cancelled>>

\* Mutation: Close ends the call at once.
ReturnAtClose(s) ==
    /\ closed
    /\ Go(s, "next", "returned")
    /\ UNCHANGED <<log, closed, prev, start, handled, cancelled>>

ReturnClosed(s) ==
    /\ prev[s] = Len(log) /\ closed
    /\ Go(s, "next", "returned")
    /\ UNCHANGED <<log, closed, prev, start, handled, cancelled>>

\* Mutation: on to the back of the log.
AdvanceToBack(s) ==
    /\ prev[s] < Len(log)
    /\ Go(s, "next", "deliver")
    /\ prev' = [prev EXCEPT ![s] = Len(log)]
    /\ UNCHANGED <<log, closed, start, handled, cancelled>>

Advance(s) ==
    /\ prev[s] < Len(log)
    /\ Go(s, "next", "deliver")
    /\ prev' = [prev EXCEPT ![s] = @ + 1]
    /\ UNCHANGED <<log, closed, start, handled, cancelled>>

\* cond.Wait: into the notify list, then unlock.
Park(s) ==
    /\ \/ Go(s, "parkFirst", "parkedFirst")
       \/ Go(s, "parkNext", "parkedNext")
    /\ UNCHANGED <<log, closed, prev, start, handled, cancelled>>

SubscriberStep(s) ==
    \/ WaitFirst(s) \/ SelectStart(s) \/ Deliver(s) \/ StopOnCancel(s)
    \/ WaitNext(s) \/ ReturnClosed(s) \/ Advance(s) \/ Park(s)

Next ==
    \/ \E s \in Subscribers : Subscribe(s) \/ SubscriberStep(s)
    \/ \E s \in Cancellable : Cancel(s)
    \/ \E m \in Messages : Change(m) \/ Delete(m) \/ Push(m)
    \/ \E batch \in BoundedSeq(Messages, MaxBatch) : Append_(batch)
    \/ Close

Spec == Init /\ [][Next]_vars

\* A goroutine inside Subscribe keeps running, f returns, and a goroutine in
\* the notify list runs after a Broadcast. Writers, Close and contexts are free.
Fairness == \A s \in Subscribers : WF_vars(SubscriberStep(s))

FairSpec == Spec /\ Fairness

-----------------------------------------------------------------------------
(* Properties *)

\* The positions from i to j whose message passes the filter of s.
Due(s, i, j) == {p \in i .. j : Passes(s, log[p])}

\* The last position that f has been called with, or that was filtered out.
Passed(s) == IF pc[s] \in {"deliver", "cancelled"} THEN prev[s] - 1 ELSE prev[s]

\* What f has been called with is what it is due, exactly once and in order:
\* nothing that was appended while the subscriber was busy, waiting, or being
\* woken is skipped or repeated.
ExactlyOnceInOrder ==
    \A s \in Subscribers :
        start[s] > 0
            => /\ ToSet(handled[s]) = Due(s, start[s], Passed(s))
               /\ \A i, j \in DOMAIN handled[s] : i < j => handled[s][i] < handled[s][j]

\* No append is missed by a sleeper: a subscriber that is in the notify list,
\* or has decided to enter it, is at the end of the log.
NoMissedAppend ==
    \A s \in Subscribers :
        /\ pc[s] \in {"parkFirst", "parkedFirst"} => log = <<>>
        /\ pc[s] \in {"parkNext", "parkedNext"} => prev[s] = Len(log)

\* The comment of Subscribe, "this guarantees that multiple can consume the
\* log, even if it's closed": a call that returns because of Close has been
\* through all the messages the log holds, unless one was appended since.
ReturnsAtTheEnd ==
    [][\A s \in Subscribers :
          pc[s] # "returned" /\ pc'[s] = "returned"
              => closed /\ ToSet(handled'[s]) = Due(s, start[s], Len(log))]_vars

\* A message that is in the log gets to every subscriber that began before
\* it and has not returned, whatever the others do and whether the log is
\* closed or not, unless the subscriber's context is done first.
EveryMessageArrives ==
    \A s \in Subscribers, n \in 1 .. MaxLog :
        (start[s] \in 1 .. n /\ n <= Len(log) /\ pc[s] # "returned")
            ~> (prev[s] > n \/ (prev[s] = n /\ pc[s] # "deliver")
                \/ s \in cancelled)

\* "If the stream is closed, and there are no more messages, return": a call
\* that already got a message does so after Close. In the code it may have
\* looked at closed, found it FALSE, and not yet be in the notify list when
\* Close broadcasts.
ClosedSubscriberReturns ==
    \A s \in Subscribers : (closed /\ start[s] > 0) ~> (pc[s] \in Finished)

-----------------------------------------------------------------------------
(* The log as its readers see it *)

\* Who waits for the lock, sleeps or is woken is where it was.
Stage(s) ==
    CASE pc[s] \in {"idle", "first", "parkFirst", "parkedFirst"} -> "away"
      [] pc[s] \in {"deliver", "next", "parkNext", "parkedNext"} -> "reading"
      [] pc[s] = "returned" -> "ended"
      [] pc[s] = "cancelled" -> "left"
      [] pc[s] = "notFound" -> "refused"

Log == INSTANCE EventLog WITH
    Readers <- Subscribers, Events <- Messages,
    Wants <- [s \in Subscribers |-> {m \in Messages : Passes(s, m)}],
    events <- log, closed <- closed,
    stage <- [s \in Subscribers |-> Stage(s)],
    cursor <- [s \in Subscribers |-> Passed(s)],
    given <- handled

\* The mutex and the condition variable are not to be noticed: whatever order
\* locks are granted and sleepers woken in, a call of Subscribe moves through
\* an append-only list by itself, one message at a time, and ends only when
\* the log is closed and it has been through all of it, or its context is done.
ImplementsEventLog == Log!Spec
=============================================================================
