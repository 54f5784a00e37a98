--------------------------- MODULE AppendLogProofs ---------------------------
(***************************************************************************)
(* Theorems about AppendLog for every set of subscribers and messages and  *)
(* any length of the log.  That no append is missed rests on the lock      *)
(* alone: a writer waits until nobody is between the look at the end of    *)
(* the log and the notify list, and its broadcast empties that list.  That *)
(* nothing is skipped or repeated rests on the position a subscriber keeps *)
(* over the unlocked call of f.                                            *)
(* From both follows that the log implements EventLog.                     *)
(***************************************************************************)
EXTENDS AppendLog, SequenceTheorems, WellFoundedInduction, TLAPS

\* A subscriber that is past the first message has a position in the log, not
\* before the one it began at; until then it has handled nothing.
Active == {"next", "deliver", "parkNext", "parkedNext", "returned", "cancelled"}
PositionKnown ==
    \A s \in Subscribers :
        IF pc[s] \in Active
        THEN start[s] \in 1 .. prev[s]
        ELSE start[s] = 0 /\ handled[s] = <<>>

Inv == TypeOK /\ NoMissedAppend /\ PositionKnown

-----------------------------------------------------------------------------
(* Lemmas about the operators *)

\* A broadcast leaves nobody in the notify list, and moves nobody into it.
LEMMA BroadcastWakes ==
    ASSUME TypeOK, Broadcast
    PROVE  /\ pc' \in [Subscribers -> {"idle", "first", "next", "deliver"}
                                          \cup Waiting \cup Finished]
           /\ \A s \in Subscribers : pc'[s] \in Waiting => pc[s] = pc'[s]
  BY DEF TypeOK, Broadcast, Waiting, Parked, Finished

\* Who is woken has the position it slept at.
LEMMA BroadcastKeepsPositions ==
    ASSUME TypeOK, PositionKnown, Broadcast, UNCHANGED <<prev, start, handled>>
    PROVE  PositionKnown'
  BY DEF TypeOK, PositionKnown, Active, Broadcast, Waiting, Parked, Finished

\* A sequence over a set is one over a larger set.
LEMMA SeqOfLarger ==
    ASSUME NEW S, NEW T, S \subseteq T, NEW q \in Seq(S)
    PROVE  q \in Seq(T)
<1>1. q \in [1 .. Len(q) -> S] /\ Len(q) \in Nat
  BY LenProperties
<1>2. q \in [1 .. Len(q) -> T]
  BY <1>1
<1>3. QED
  BY <1>1, <1>2, SeqDef

\* A batch is a sequence of messages.
LEMMA BatchType ==
    ASSUME NEW batch \in BoundedSeq(Messages, MaxBatch)
    PROVE  batch \in Seq(Messages)
<1>1. BoundedSeq(Messages, MaxBatch) = UNION {[1 .. m -> Messages] : m \in 0 .. MaxBatch}
  BY DEF BoundedSeq, SeqOf
<1>2. PICK m \in 0 .. MaxBatch : batch \in [1 .. m -> Messages]
  BY <1>1
<1>3. m \in Nat
  BY <1>2, BoundsAssumption
<1>4. QED
  BY <1>2, <1>3, SeqDef

\* The back of a log that is not empty, or the first message with an offset.
LEMMA StartIsInLog ==
    ASSUME log \in Seq(Messages), log # <<>>, NEW f
    PROVE  StartPosition(f) \in 1 .. Len(log)
<1>1. Len(log) \in Nat /\ Len(log) >= 1
  BY EmptySeq, LenProperties
<1>2. CASE f # 0 /\ f # -1 /\ Hits(f) # {}
  <2>1. Hits(f) \in SUBSET Nat
    BY <1>1 DEF Hits
  <2>2. PICK i \in Hits(f) : \A j \in Hits(f) : i <= j
    <3>1. PICK i \in Hits(f) : \A j \in Hits(f) : <<j, i>> \notin OpToRel(<, Nat)
      BY <1>2, <2>1, NatLessThanWellFounded, WFMin
    <3>2. \A j \in Nat : j < i => <<j, i>> \in OpToRel(<, Nat)
      BY <2>1 DEF OpToRel
    <3>3. \A j \in Hits(f) : ~(j < i)
      BY <2>1, <3>1, <3>2
    <3>4. QED
      BY <2>1, <3>3
  <2>3. StartPosition(f) \in Hits(f)
    BY <1>2, <2>2 DEF StartPosition
  <2>4. QED
    BY <2>3 DEF Hits
<1>3. CASE ~(f # 0 /\ f # -1 /\ Hits(f) # {})
  BY <1>1, <1>3 DEF StartPosition
<1>4. QED
  BY <1>2, <1>3

-----------------------------------------------------------------------------
(* The invariant *)

\* Nobody has begun to read an empty log.
LEMMA InitInv == Init => Inv
<1> SUFFICES ASSUME Init PROVE Inv
  OBVIOUS
<1>1. log = <<>> /\ Len(log) = 0 /\ log \in Seq(Messages)
  BY DEF Init
<1>2. <<>> \in Seq(1 .. Len(log)) /\ 0 \in 0 .. Len(log)
  BY <1>1
<1>3. TypeOK
  BY <1>1, <1>2 DEF Init, TypeOK
<1>4. NoMissedAppend /\ PositionKnown
  BY DEF Init, NoMissedAppend, PositionKnown, Active
<1>5. QED
  BY <1>3, <1>4 DEF Inv

\* What all the writers do.
LEMMA PushBackKeepsInv ==
    ASSUME Inv, NEW batch \in Seq(Messages), PushBack(batch)
    PROVE  Inv'
<1>1. /\ log' \in Seq(Messages)
      /\ Len(log') = Len(log) + Len(batch)
      /\ Len(log) \in Nat /\ Len(batch) \in Nat
  BY ConcatProperties, LenProperties DEF Inv, TypeOK, PushBack
<1>2. /\ pc' \in [Subscribers -> {"idle", "first", "next", "deliver"}
                                     \cup Waiting \cup Finished]
      /\ \A s \in Subscribers : pc'[s] \notin Waiting
  BY BroadcastWakes DEF Inv, PushBack, WriteLockFree
<1>3. \A s \in Subscribers : handled[s] \in Seq(1 .. Len(log'))
  <2> TAKE s \in Subscribers
  <2>1. handled[s] \in Seq(1 .. Len(log))
    BY DEF Inv, TypeOK
  <2>2. 1 .. Len(log) \subseteq 1 .. Len(log')
    BY <1>1
  <2>3. QED
    BY <2>1, <2>2, SeqOfLarger
<1>4. TypeOK'
  BY <1>1, <1>2, <1>3 DEF Inv, TypeOK, PushBack, Parked
<1>5. NoMissedAppend'
  BY <1>2 DEF NoMissedAppend, Waiting, Parked, Finished
<1>6. PositionKnown'
  BY BroadcastKeepsPositions DEF Inv, PushBack
<1>7. QED
  BY <1>4, <1>5, <1>6 DEF Inv

\* Close wakes the sleepers too, but leaves those who are about to sleep: the
\* log is as it was.
LEMMA CloseKeepsInv ==
    ASSUME Inv, Close
    PROVE  Inv'
<1>1. /\ pc' \in [Subscribers -> {"idle", "first", "next", "deliver"}
                                     \cup Waiting \cup Finished]
      /\ \A s \in Subscribers : pc'[s] \in Waiting => pc[s] = pc'[s]
  BY BroadcastWakes DEF Inv, Close
<1>2. TypeOK'
  BY <1>1 DEF Inv, TypeOK, Close, Parked
<1>3. NoMissedAppend'
  BY <1>1 DEF Inv, NoMissedAppend, Close, Waiting, Parked, Finished
<1>4. PositionKnown'
  BY BroadcastKeepsPositions DEF Inv, Close
<1>5. QED
  BY <1>2, <1>3, <1>4 DEF Inv

\* A step of one subscriber, by its kind: waiting, moving on, and the rest.
LEMMA SubscriberKeepsInv ==
    ASSUME Inv, NEW s \in Subscribers, Subscribe(s) \/ SubscriberStep(s)
    PROVE  Inv'
<1> USE DEF Go, Waiting, Parked, Finished
<1>1. Len(log) \in Nat /\ (log # <<>> => Len(log) >= 1)
  BY LenProperties, EmptySeq DEF Inv, TypeOK
<1>2. CASE Subscribe(s)
  BY <1>2 DEF Subscribe, Inv, TypeOK, NoMissedAppend, PositionKnown, Active
<1>3. CASE WaitFirst(s)
  BY <1>3 DEF WaitFirst, Inv, TypeOK, NoMissedAppend, PositionKnown, Active
<1>4. CASE SelectStart(s)
  <2>1. StartPosition(From[s]) \in 1 .. Len(log)
    BY <1>4, StartIsInLog DEF SelectStart, Inv, TypeOK
  <2>2. TypeOK'
    <3>1. CASE From[s] \notin {0, -1} /\ StartPosition(From[s]) = Len(log)
      BY <1>1, <1>4, <3>1 DEF SelectStart, Inv, TypeOK
    <3>2. CASE ~(From[s] \notin {0, -1} /\ StartPosition(From[s]) = Len(log))
      <4>1. StartPosition(From[s]) \in 0 .. Len(log)
        BY <1>1, <2>1
      <4>2. /\ prev' \in [Subscribers -> 0 .. Len(log)]
            /\ start' \in [Subscribers -> 0 .. Len(log)]
        BY <1>4, <3>2, <4>1 DEF SelectStart, Inv, TypeOK
      <4>3. QED
        BY <1>4, <3>2, <4>2 DEF SelectStart, Inv, TypeOK
    <3>3. QED
      BY <3>1, <3>2
  <2>3. NoMissedAppend'
    BY <1>4 DEF SelectStart, Inv, TypeOK, NoMissedAppend
  <2>4. PositionKnown'
    BY <1>1, <1>4, <2>1 DEF SelectStart, Inv, TypeOK, PositionKnown, Active
  <2>5. QED
    BY <2>2, <2>3, <2>4 DEF Inv
<1>5. CASE Deliver(s)
  <2>1. prev[s] \in 1 .. Len(log)
    BY <1>1, <1>5 DEF Deliver, Inv, TypeOK, PositionKnown, Active
  <2>4. QED
    BY <1>5, <2>1 DEF Deliver, Inv, TypeOK, NoMissedAppend, PositionKnown, Active
<1>6. CASE StopOnCancel(s)
  BY <1>6 DEF StopOnCancel, Inv, TypeOK, NoMissedAppend, PositionKnown, Active
<1>7. CASE WaitNext(s)
  BY <1>7 DEF WaitNext, Inv, TypeOK, NoMissedAppend, PositionKnown, Active
<1>8. CASE ReturnClosed(s)
  BY <1>8 DEF ReturnClosed, Inv, TypeOK, NoMissedAppend, PositionKnown, Active
<1>9. CASE Advance(s)
  BY <1>1, <1>9 DEF Advance, Inv, TypeOK, NoMissedAppend, PositionKnown, Active
<1>10. CASE Park(s)
  BY <1>10 DEF Park, Inv, TypeOK, NoMissedAppend, PositionKnown, Active
<1>11. QED
  BY <1>2, <1>3, <1>4, <1>5, <1>6, <1>7, <1>8, <1>9, <1>10 DEF SubscriberStep

\* A log that was changed, cancelled or closed, one operation at a time.
LEMMA StepInv == Inv /\ [Next]_vars => Inv'
<1> SUFFICES ASSUME Inv, [Next]_vars PROVE Inv'
  OBVIOUS
<1>1. CASE \E s \in Subscribers : Subscribe(s) \/ SubscriberStep(s)
  BY <1>1, SubscriberKeepsInv
<1>2. CASE \E s \in Cancellable : Cancel(s)
  BY <1>2 DEF Cancel, Inv, TypeOK, NoMissedAppend, PositionKnown, Active
<1>3. CASE \E m \in Messages : Change(m) \/ Delete(m) \/ Push(m)
  <2>1. PICK m \in Messages : PushBack(<<m>>)
    BY <1>3 DEF Change, Delete, Push
  <2>2. <<m>> \in Seq(Messages)
    OBVIOUS
  <2>3. QED
    BY <2>1, <2>2, PushBackKeepsInv
<1>4. CASE \E batch \in BoundedSeq(Messages, MaxBatch) : Append_(batch)
  BY <1>4, BatchType, PushBackKeepsInv DEF Append_
<1>5. CASE Close
  BY <1>5, CloseKeepsInv
<1>6. CASE UNCHANGED vars
  BY <1>6 DEF vars, Inv, TypeOK, NoMissedAppend, PositionKnown, Active
<1>7. QED
  BY <1>1, <1>2, <1>3, <1>4, <1>5, <1>6 DEF Next

-----------------------------------------------------------------------------
(* Every message once, in order *)

\* What f was called with does not change with what is appended behind it.
LEMMA WriterKeepsOrder ==
    ASSUME Inv, ExactlyOnceInOrder, NEW batch \in Seq(Messages), PushBack(batch)
    PROVE  ExactlyOnceInOrder'
<1> SUFFICES ASSUME NEW s \in Subscribers, start'[s] > 0
             PROVE  /\ ToSet(handled'[s]) = Due(s, start[s], Passed(s))'
                    /\ \A i, j \in DOMAIN handled'[s] :
                          i < j => handled'[s][i] < handled'[s][j]
  BY DEF ExactlyOnceInOrder
<1>1. /\ start' = start /\ prev' = prev /\ handled' = handled
      /\ prev[s] \in 0 .. Len(log) /\ start[s] \in 0 .. Len(log) /\ Len(log) \in Nat
  BY LenProperties DEF PushBack, Inv, TypeOK
<1>2. \A p \in 1 .. Len(log) : log'[p] = log[p]
  BY ConcatProperties, LenProperties DEF PushBack, Inv, TypeOK
<1>3. pc'[s] \in {"deliver", "cancelled"} <=> pc[s] \in {"deliver", "cancelled"}
  BY DEF PushBack, Broadcast
<1>4. Passed(s)' = Passed(s)
  BY <1>1, <1>3 DEF Passed
<1>5. start[s] .. Passed(s) \subseteq 1 .. Len(log)
  BY <1>1 DEF Passed
<1>6. Due(s, start[s], Passed(s))' = Due(s, start[s], Passed(s))
  BY <1>1, <1>2, <1>4, <1>5 DEF Due, Passes
<1>7. QED
  BY <1>1, <1>6 DEF ExactlyOnceInOrder

\* A step that leaves the log and what was handled alone, and no position
\* counts as passed that did not before.
LEMMA SameIsInOrder ==
    ASSUME ExactlyOnceInOrder, NEW s \in Subscribers,
           log' = log, start'[s] = start[s], handled'[s] = handled[s],
           Passed(s)' = Passed(s), start'[s] > 0
    PROVE  /\ ToSet(handled'[s]) = Due(s, start[s], Passed(s))'
           /\ \A i, j \in DOMAIN handled'[s] :
                 i < j => handled'[s][i] < handled'[s][j]
  BY DEF ExactlyOnceInOrder, Due, Passes

\* f is called with the position after all those it was called with.
LEMMA DeliverKeepsOrder ==
    ASSUME Inv, ExactlyOnceInOrder, NEW s \in Subscribers, Deliver(s)
    PROVE  /\ ToSet(handled'[s]) = Due(s, start[s], Passed(s))'
           /\ \A i, j \in DOMAIN handled'[s] :
                 i < j => handled'[s][i] < handled'[s][j]
<1> DEFINE h == handled[s]
           p == prev[s]
<1>1. /\ log' = log /\ start' = start /\ prev' = prev
      /\ pc[s] = "deliver" /\ pc'[s] = "next"
  BY DEF Deliver, Go, Inv, TypeOK
<1>2. /\ Len(log) \in Nat /\ p \in 1 .. Len(log) /\ start[s] \in 1 .. p
      /\ h \in Seq(1 .. Len(log))
  BY <1>1, LenProperties DEF Inv, TypeOK, PositionKnown, Active
<1>3. /\ ToSet(h) = Due(s, start[s], p - 1)
      /\ \A i, j \in DOMAIN h : i < j => h[i] < h[j]
  BY <1>1, <1>2 DEF ExactlyOnceInOrder, Passed
<1>4. Due(s, start[s], Passed(s))' = Due(s, start[s], p)
  BY <1>1 DEF Due, Passed, Passes
<1>5. CASE Passes(s, log[p])
  <2>1. handled'[s] = Append(h, p)
    BY <1>5 DEF Deliver, Inv, TypeOK
  <2>2. /\ Len(h) \in Nat /\ DOMAIN h = 1 .. Len(h)
        /\ Len(Append(h, p)) = Len(h) + 1
        /\ DOMAIN Append(h, p) = 1 .. (Len(h) + 1)
        /\ \A i \in 1 .. Len(h) : Append(h, p)[i] = h[i]
        /\ Append(h, p)[Len(h) + 1] = p
    BY <1>2, AppendProperties, LenProperties
  <2>3. ToSet(Append(h, p)) = ToSet(h) \cup {p}
    BY <2>2 DEF ToSet
  <2>4. Due(s, start[s], p) = Due(s, start[s], p - 1) \cup {p}
    BY <1>2, <1>5 DEF Due
  <2>5. \A i \in DOMAIN h : h[i] \in start[s] .. (p - 1)
    BY <1>3 DEF ToSet, Due
  <2>6. \A i, j \in DOMAIN Append(h, p) : i < j => Append(h, p)[i] < Append(h, p)[j]
    <3> SUFFICES ASSUME NEW i \in 1 .. (Len(h) + 1), NEW j \in 1 .. (Len(h) + 1), i < j
                 PROVE  Append(h, p)[i] < Append(h, p)[j]
      BY <2>2
    <3>1. i \in 1 .. Len(h)
      BY <2>2
    <3>2. CASE j = Len(h) + 1
      <4>1. h[i] \in start[s] .. (p - 1)
        BY <2>2, <2>5, <3>1
      <4>2. Append(h, p)[i] = h[i] /\ Append(h, p)[j] = p
        BY <2>2, <3>1, <3>2
      <4>3. p - 1 \in Nat /\ \A x \in start[s] .. (p - 1) : x < p
        BY <1>2
      <4>4. QED
        BY ONLY <4>1, <4>2, <4>3
    <3>3. CASE j # Len(h) + 1
      <4>1. j \in 1 .. Len(h)
        BY <2>2, <3>3
      <4>2. QED
        BY <1>3, <2>2, <3>1, <4>1
    <3>4. QED
      BY <3>2, <3>3
  <2>7. QED
    BY <1>3, <1>4, <2>1, <2>3, <2>4, <2>6
<1>6. CASE ~Passes(s, log[p])
  <2>1. handled'[s] = h
    BY <1>6 DEF Deliver
  <2>2. Due(s, start[s], p) = Due(s, start[s], p - 1)
    BY <1>2, <1>6 DEF Due
  <2>3. QED
    BY <1>3, <1>4, <2>1, <2>2
<1>7. QED
  BY <1>5, <1>6

\* A subscriber begins with nothing passed, at the position it starts from.
LEMMA SelectStartKeepsOrder ==
    ASSUME Inv, NEW s \in Subscribers, SelectStart(s), start'[s] > 0
    PROVE  /\ ToSet(handled'[s]) = Due(s, start[s], Passed(s))'
           /\ \A i, j \in DOMAIN handled'[s] :
                 i < j => handled'[s][i] < handled'[s][j]
<1>1. pc[s] = "first" /\ start[s] = 0 /\ handled[s] = <<>> /\ handled' = handled
  BY DEF SelectStart, Go, Inv, TypeOK, PositionKnown, Active
<1>2. /\ pc'[s] = "deliver" /\ prev'[s] = start'[s]
      /\ start'[s] = StartPosition(From[s])
  BY <1>1 DEF SelectStart, Go, Inv, TypeOK
<1>3. start'[s] \in Nat
  <2>1. StartPosition(From[s]) \in 1 .. Len(log) /\ Len(log) \in Nat
    BY StartIsInLog, LenProperties DEF SelectStart, Inv, TypeOK
  <2>2. QED
    BY <1>2, <2>1
<1>4. Due(s, start[s], Passed(s))' = {}
  BY <1>2, <1>3 DEF Due, Passed
<1>5. ToSet(<<>>) = {} /\ DOMAIN <<>> = {}
  BY DEF ToSet
<1>6. QED
  BY <1>1, <1>4, <1>5

\* What one subscriber does, for that subscriber and for the others.
LEMMA SubscriberKeepsOrder ==
    ASSUME Inv, ExactlyOnceInOrder,
           NEW t \in Subscribers, Subscribe(t) \/ SubscriberStep(t)
    PROVE  ExactlyOnceInOrder'
<1> SUFFICES ASSUME NEW s \in Subscribers, start'[s] > 0
             PROVE  /\ ToSet(handled'[s]) = Due(s, start[s], Passed(s))'
                    /\ \A i, j \in DOMAIN handled'[s] :
                          i < j => handled'[s][i] < handled'[s][j]
  BY DEF ExactlyOnceInOrder
<1>1. log' = log
  BY DEF Subscribe, SubscriberStep, WaitFirst, SelectStart, Deliver, StopOnCancel,
         WaitNext, ReturnClosed, Advance, Park
<1>2. CASE s # t
  <2>1. /\ pc'[s] = pc[s] /\ prev'[s] = prev[s]
        /\ start'[s] = start[s] /\ handled'[s] = handled[s]
    BY <1>2 DEF Subscribe, SubscriberStep, WaitFirst, SelectStart, Deliver, StopOnCancel,
                WaitNext, ReturnClosed, Advance, Park, Go, Inv, TypeOK
  <2>2. QED
    BY <1>1, <2>1, SameIsInOrder DEF Passed
<1>3. CASE s = t /\ Deliver(t)
  BY <1>3, DeliverKeepsOrder
<1>4. CASE s = t /\ SelectStart(t)
  BY <1>4, SelectStartKeepsOrder
<1>5. CASE s = t /\ Advance(t)
  <2>1. prev[s] \in Nat
    BY LenProperties DEF Inv, TypeOK
  <2>2. /\ pc[s] = "next" /\ pc'[s] = "deliver" /\ prev'[s] = prev[s] + 1
        /\ start' = start /\ handled' = handled
    BY <1>5 DEF Advance, Go, Inv, TypeOK
  <2>3. Passed(s)' = Passed(s)
    BY <2>1, <2>2 DEF Passed
  <2>4. QED
    BY <1>1, <2>2, <2>3, SameIsInOrder
<1>6. CASE s = t /\ \/ Subscribe(t) \/ WaitFirst(t) \/ StopOnCancel(t)
                    \/ WaitNext(t) \/ ReturnClosed(t) \/ Park(t)
  <2>1. /\ start' = start /\ handled' = handled /\ prev' = prev
        /\ pc'[s] \in {"deliver", "cancelled"} <=> pc[s] \in {"deliver", "cancelled"}
    BY <1>6 DEF Subscribe, WaitFirst, StopOnCancel, WaitNext, ReturnClosed, Park, Go,
                Inv, TypeOK
  <2>2. QED
    BY <1>1, <2>1, SameIsInOrder DEF Passed
<1>7. QED
  BY <1>2, <1>3, <1>4, <1>5, <1>6 DEF SubscriberStep

\* No step of a subscriber or a writer disturbs what was handled.
LEMMA StepInOrder == Inv /\ ExactlyOnceInOrder /\ [Next]_vars => ExactlyOnceInOrder'
<1> SUFFICES ASSUME Inv, ExactlyOnceInOrder, [Next]_vars PROVE ExactlyOnceInOrder'
  OBVIOUS
<1>1. CASE \E s \in Subscribers : Subscribe(s) \/ SubscriberStep(s)
  BY <1>1, SubscriberKeepsOrder
<1>2. CASE \E m \in Messages : Change(m) \/ Delete(m) \/ Push(m)
  <2>1. PICK m \in Messages : PushBack(<<m>>)
    BY <1>2 DEF Change, Delete, Push
  <2>2. <<m>> \in Seq(Messages)
    OBVIOUS
  <2>3. QED
    BY <2>1, <2>2, WriterKeepsOrder
<1>3. CASE \E batch \in BoundedSeq(Messages, MaxBatch) : Append_(batch)
  BY <1>3, BatchType, WriterKeepsOrder DEF Append_
<1>4. CASE (\E s \in Cancellable : Cancel(s)) \/ Close \/ UNCHANGED vars
  <2>1. /\ log' = log /\ start' = start /\ handled' = handled /\ prev' = prev
        /\ \A s \in Subscribers :
              pc'[s] \in {"deliver", "cancelled"} <=> pc[s] \in {"deliver", "cancelled"}
    BY <1>4 DEF Cancel, Close, Broadcast, vars
  <2>2. \A s \in Subscribers : Passed(s)' = Passed(s)
    BY <2>1 DEF Passed
  <2>3. QED
    BY <2>1, <2>2, SameIsInOrder DEF ExactlyOnceInOrder
<1>5. QED
  BY <1>1, <1>2, <1>3, <1>4 DEF Next

\* Who returns because of Close was at the end, with everything passed.
LEMMA ReturnIsAtTheEnd ==
    ASSUME Inv, ExactlyOnceInOrder, Next, NEW s \in Subscribers,
           pc[s] # "returned", pc'[s] = "returned"
    PROVE  closed /\ ToSet(handled'[s]) = Due(s, start[s], Len(log))
<1>1. ReturnClosed(s)
  BY DEF Next, Subscribe, SubscriberStep, WaitFirst, SelectStart, Deliver, StopOnCancel,
         WaitNext, ReturnClosed, Advance, Park, Go, Cancel, Change, Delete, Push, Append_,
         PushBack, Close, Broadcast, Inv, TypeOK
<1>2. closed /\ pc[s] = "next" /\ prev[s] = Len(log) /\ handled' = handled
  BY <1>1 DEF ReturnClosed, Go
<1>3. start[s] > 0
  BY <1>2, LenProperties DEF Inv, TypeOK, PositionKnown, Active
<1>4. QED
  BY <1>2, <1>3 DEF ExactlyOnceInOrder, Passed

-----------------------------------------------------------------------------
(* Theorems *)

\* The inductive invariant: the types, who may sleep, the positions, the order.
LEMMA SpecKeepsInv == Spec => [](Inv /\ ExactlyOnceInOrder)
<1>1. Init => Inv /\ ExactlyOnceInOrder
  BY InitInv DEF Init, ExactlyOnceInOrder
<1>2. Inv /\ ExactlyOnceInOrder /\ [Next]_vars => (Inv /\ ExactlyOnceInOrder)'
  BY StepInv, StepInOrder
<1>3. QED
  BY <1>1, <1>2, PTL DEF Spec

\* The types of the log and of all its subscribers: positions and what was
\* handled lie in the log, which no step shortens.
THEOREM TypeCorrect == Spec => []TypeOK
<1>1. Inv => TypeOK
  BY DEF Inv
<1>2. QED
  BY <1>1, SpecKeepsInv, PTL

\* A subscriber that sleeps, or is about to, is at the end of the log: there
\* is no message that an append has failed to wake it for.
THEOREM NoAppendMissed == Spec => []NoMissedAppend
<1>1. Inv => NoMissedAppend
  BY DEF Inv
<1>2. QED
  BY <1>1, SpecKeepsInv, PTL

\* f is called with each message that a subscriber is due exactly once, in
\* the order of the log, for any interleaving with writers and others.
THEOREM OnceInOrder == Spec => []ExactlyOnceInOrder
  BY SpecKeepsInv, PTL

\* A call that returns because of Close has seen the whole log.
THEOREM ReturnsOnlyAtTheEnd == Spec => ReturnsAtTheEnd
<1>1. Inv /\ ExactlyOnceInOrder /\ [Next]_vars
         => [\A s \in Subscribers :
                pc[s] # "returned" /\ pc'[s] = "returned"
                    => closed /\ ToSet(handled'[s]) = Due(s, start[s], Len(log))]_vars
  BY ReturnIsAtTheEnd
<1>2. QED
  BY <1>1, SpecKeepsInv, PTL DEF Spec, ReturnsAtTheEnd

-----------------------------------------------------------------------------
(* The log as its readers see it *)

\* Where the reader s is, before and after a step that leaves it there.
SameReader(s) == Stage(s)' = Stage(s) /\ Passed(s)' = Passed(s)

\* What the abstract log is of this one, for the reader that takes a step.
LEMMA OneReaderMoves ==
    ASSUME Inv, NEW s \in Subscribers, Subscribe(s) \/ SubscriberStep(s)
    PROVE  /\ UNCHANGED <<log, closed>>
           /\ \A t \in Subscribers \ {s} : SameReader(t) /\ handled'[t] = handled[t]
<1>1. /\ pc \in [Subscribers -> {"idle", "first", "next", "deliver"}
                                     \cup Waiting \cup Parked \cup Finished]
      /\ prev \in [Subscribers -> 0 .. Len(log)]
      /\ handled \in [Subscribers -> Seq(1 .. Len(log))]
  BY DEF Inv, TypeOK
<1>2. /\ UNCHANGED <<log, closed>>
      /\ \E to : pc' = [pc EXCEPT ![s] = to]
      /\ \E to : prev' = prev \/ prev' = [prev EXCEPT ![s] = to]
      /\ \E to : handled' = handled \/ handled' = [handled EXCEPT ![s] = to]
  <2>1. CASE Subscribe(s)
    BY <2>1 DEF Subscribe, Go
  <2>2. CASE WaitFirst(s) \/ WaitNext(s) \/ Park(s)
    BY <2>2 DEF WaitFirst, WaitNext, Park, Go
  <2>3. CASE StopOnCancel(s) \/ ReturnClosed(s)
    BY <2>3 DEF StopOnCancel, ReturnClosed, Go
  <2>4. CASE SelectStart(s)
    BY <2>4 DEF SelectStart, Go
  <2>5. CASE Deliver(s)
    BY <2>5 DEF Deliver, Go
  <2>6. CASE Advance(s)
    BY <2>6 DEF Advance, Go
  <2> QED
    BY <2>1, <2>2, <2>3, <2>4, <2>5, <2>6 DEF SubscriberStep
<1>3. \A t \in Subscribers \ {s} :
         pc'[t] = pc[t] /\ prev'[t] = prev[t] /\ handled'[t] = handled[t]
  BY ONLY <1>1, <1>2
<1> QED
  BY ONLY <1>2, <1>3 DEF SameReader, Stage, Passed

\* Waiting, sleeping, and moving to a message do not show.
LEMMA HiddenSteps ==
    ASSUME Inv, NEW s \in Subscribers,
           \/ Subscribe(s) \/ WaitFirst(s) \/ WaitNext(s) \/ Park(s) \/ Advance(s)
    PROVE  SameReader(s) /\ handled' = handled
<1>1. prev[s] \in Nat
  BY LenProperties DEF Inv, TypeOK
<1>2. CASE Advance(s)
  <2>1. /\ pc[s] = "next" /\ pc'[s] = "deliver" /\ prev'[s] = prev[s] + 1
        /\ handled' = handled
    BY <1>2 DEF Advance, Go, Inv, TypeOK
  <2> QED
    BY <1>1, <2>1 DEF SameReader, Stage, Passed
<1>3. CASE Subscribe(s) \/ WaitFirst(s) \/ WaitNext(s) \/ Park(s)
  BY <1>3 DEF Subscribe, WaitFirst, WaitNext, Park, Go, Inv, TypeOK,
              SameReader, Stage, Passed
<1> QED
  BY <1>2, <1>3

\* Nor does a broadcast.
LEMMA WakingIsHidden ==
    ASSUME Inv, Broadcast, prev' = prev
    PROVE  \A s \in Subscribers : SameReader(s)
  BY DEF Broadcast, Inv, TypeOK, SameReader, Stage, Passed

\* All readers stay where they are, and are given nothing.
LEMMA StutterMaps ==
    ASSUME UNCHANGED <<log, closed, handled>>, \A s \in Subscribers : SameReader(s)
    PROVE  UNCHANGED Log!vars
  BY DEF Log!vars, SameReader

\* A call that moves from one stage to another, and leaves the others alone.
LEMMA StageMaps ==
    ASSUME NEW s \in Subscribers, NEW from, NEW to, Stage(s) = from, Stage(s)' = to,
           \A t \in Subscribers \ {s} : SameReader(t)
    PROVE  Log!Moves(s, from, to)
  BY DEF Log!Moves, SameReader

\* What is appended is added to what was there.
LEMMA WriteMaps ==
    ASSUME Inv, NEW batch \in Seq(Messages), PushBack(batch)
    PROVE  Log!Write
<1>1. /\ log \in Seq(Messages) /\ log' = log \o batch
      /\ UNCHANGED <<closed, handled, prev>> /\ Broadcast
  BY DEF PushBack, Inv, TypeOK
<1>2. log' \in Seq(Messages) /\ Len(log) <= Len(log')
  BY <1>1, ConcatProperties, LenProperties
<1>3. SubSeq(log, 1, Len(log)) = SubSeq(log', 1, Len(log))
  BY <1>1, <1>2
<1>4. \A s \in Subscribers : SameReader(s)
  BY <1>1, WakingIsHidden
<1> QED
  BY <1>1, <1>2, <1>3, <1>4 DEF Log!Write, Log!IsPrefix, SameReader

\* f is called with the next message.
LEMMA DeliverMaps ==
    ASSUME Inv, NEW s \in Subscribers, Deliver(s)
    PROVE  Log!Give(s)
<1>1. /\ UNCHANGED <<log, closed, prev>> /\ pc[s] = "deliver" /\ pc'[s] = "next"
      /\ prev[s] \in 1 .. Len(log) /\ Len(log) \in Nat /\ log[prev[s]] \in Messages
      /\ \A t \in Subscribers \ {s} : pc'[t] = pc[t]
  BY LenProperties, ElementOfSeq DEF Deliver, Go, Inv, TypeOK, PositionKnown, Active
<1>2. /\ Stage(s) = "reading" /\ Stage(s)' = "reading"
      /\ Passed(s) = prev[s] - 1 /\ Passed(s)' = prev[s]
      /\ \A t \in Subscribers \ {s} : SameReader(t)
  BY <1>1 DEF Stage, Passed, SameReader
<1>3. handled' = IF Passes(s, log[prev[s]])
                  THEN [handled EXCEPT ![s] = Append(@, prev[s])] ELSE handled
  BY DEF Deliver
<1>4. (prev[s] - 1) + 1 = prev[s]
  BY <1>1
<1> DEFINE cursor == [t \in Subscribers |-> Passed(t)]
           stage == [t \in Subscribers |-> Stage(t)]
           wants == [t \in Subscribers |-> {m \in Messages : Passes(t, m)}]
<1>5. stage[s] = "reading" /\ cursor[s] = prev[s] - 1 /\ cursor[s] + 1 = prev[s]
  BY <1>2, <1>4
<1>6. stage' = stage /\ cursor' = [cursor EXCEPT ![s] = prev[s]]
  BY <1>2 DEF SameReader
<1>7. log[prev[s]] \in wants[s] <=> Passes(s, log[prev[s]])
  BY <1>1
<1>8. cursor[s] < Len(log)
  BY <1>1, <1>5
<1> HIDE DEF cursor, stage, wants
<1>9. /\ stage[s] = "reading" /\ cursor[s] < Len(log)
      /\ cursor' = [cursor EXCEPT ![s] = cursor[s] + 1]
      /\ handled' = IF log[cursor[s] + 1] \in wants[s]
                    THEN [handled EXCEPT ![s] = Append(handled[s], cursor[s] + 1)]
                    ELSE handled
      /\ UNCHANGED <<log, closed, stage>>
  BY <1>1, <1>3, <1>5, <1>6, <1>7, <1>8
<1> QED
  BY <1>9 DEF Log!Give, cursor, stage, wants

LEMMA StopMaps ==
    ASSUME Inv, NEW s \in Subscribers, StopOnCancel(s)
    PROVE  Log!Leave(s)
<1>1. /\ UNCHANGED <<log, closed, prev, handled>> /\ pc[s] = "deliver" /\ pc'[s] = "cancelled"
      /\ prev[s] \in 1 .. Len(log) /\ Len(log) \in Nat
  BY LenProperties DEF StopOnCancel, Go, Inv, TypeOK, PositionKnown, Active
<1>2. /\ Stage(s) = "reading" /\ Stage(s)' = "left"
      /\ Passed(s) = prev[s] - 1 /\ Passed(s)' = prev[s] - 1
  BY <1>1 DEF Stage, Passed
<1>3. \A t \in Subscribers \ {s} : SameReader(t)
  BY OneReaderMoves DEF SubscriberStep
<1> QED
  BY <1>1, <1>2, <1>3, StageMaps DEF Log!Leave, SameReader

LEMMA ReturnMaps ==
    ASSUME Inv, NEW s \in Subscribers, ReturnClosed(s)
    PROVE  Log!End(s)
<1>1. /\ UNCHANGED <<log, closed, prev, handled>> /\ pc[s] = "next" /\ pc'[s] = "returned"
      /\ closed /\ prev[s] = Len(log)
  BY DEF ReturnClosed, Go, Inv, TypeOK
<1>2. /\ Stage(s) = "reading" /\ Stage(s)' = "ended"
      /\ Passed(s) = prev[s] /\ Passed(s)' = prev[s]
  BY <1>1 DEF Stage, Passed
<1>3. \A t \in Subscribers \ {s} : SameReader(t)
  BY OneReaderMoves DEF SubscriberStep
<1> QED
  BY <1>1, <1>2, <1>3, StageMaps DEF Log!End, SameReader

LEMMA StartMaps ==
    ASSUME Inv, NEW s \in Subscribers, SelectStart(s)
    PROVE  Log!Begin(s) \/ Log!Refuse(s)
<1> PICK p : p = StartPosition(From[s])
  OBVIOUS
<1>1. /\ UNCHANGED <<log, closed, handled>> /\ log # <<>> /\ pc[s] = "first"
      /\ p \in 1 .. Len(log) /\ Len(log) \in Nat /\ prev[s] \in Nat
  BY LenProperties, StartIsInLog DEF SelectStart, Go, Inv, TypeOK
<1>2. \A t \in Subscribers \ {s} : SameReader(t)
  BY OneReaderMoves DEF SubscriberStep
<1>3. CASE pc'[s] = "notFound" /\ prev' = prev
  <2>1. Stage(s) = "away" /\ Stage(s)' = "refused" /\ Passed(s)' = Passed(s)
    BY <1>1, <1>3 DEF Stage, Passed
  <2> QED
    BY <1>1, <1>2, <2>1, StageMaps DEF Log!Refuse, SameReader
<1>4. CASE pc'[s] = "deliver" /\ prev'[s] = p
  <2>1. Stage(s) = "away" /\ Stage(s)' = "reading" /\ Passed(s)' = p - 1
    BY <1>1, <1>4 DEF Stage, Passed
  <2> QED
    BY <1>1, <1>2, <2>1, StageMaps DEF Log!Begin, SameReader
<1> QED
  BY <1>3, <1>4 DEF SelectStart, Go, Inv, TypeOK

LEMMA SubscriberMaps ==
    ASSUME Inv, NEW s \in Subscribers, Subscribe(s) \/ SubscriberStep(s)
    PROVE  [Log!Next]_(Log!vars)
<1>1. UNCHANGED <<log, closed>> /\ \A t \in Subscribers \ {s} : SameReader(t)
  BY OneReaderMoves
<1>2. CASE Subscribe(s) \/ WaitFirst(s) \/ WaitNext(s) \/ Park(s) \/ Advance(s)
  BY <1>1, <1>2, HiddenSteps, StutterMaps
<1>3. CASE SelectStart(s) \/ Deliver(s) \/ StopOnCancel(s) \/ ReturnClosed(s)
  BY <1>3, StartMaps, DeliverMaps, StopMaps, ReturnMaps DEF Log!Next
<1> QED
  BY <1>2, <1>3 DEF SubscriberStep

LEMMA StepMaps == Inv /\ [Next]_vars => [Log!Next]_(Log!vars)
<1> SUFFICES ASSUME Inv, [Next]_vars
             PROVE  [Log!Next]_(Log!vars)
  OBVIOUS
<1>1. CASE \E s \in Subscribers : Subscribe(s) \/ SubscriberStep(s)
  BY <1>1, SubscriberMaps
<1>2. CASE (\E s \in Cancellable : Cancel(s)) \/ UNCHANGED vars
  <2>1. UNCHANGED <<log, closed, handled, pc, prev>>
    BY <1>2 DEF Cancel, vars
  <2>2. \A s \in Subscribers : SameReader(s)
    BY <2>1 DEF SameReader, Stage, Passed
  <2> QED
    BY <2>1, <2>2, StutterMaps
<1>3. CASE \E m \in Messages : Change(m) \/ Delete(m) \/ Push(m)
  <2>1. PICK m \in Messages : PushBack(<<m>>)
    BY <1>3 DEF Change, Delete, Push
  <2>2. <<m>> \in Seq(Messages)
    OBVIOUS
  <2> QED
    BY <2>1, <2>2, WriteMaps DEF Log!Next
<1>4. CASE \E batch \in BoundedSeq(Messages, MaxBatch) : Append_(batch)
  BY <1>4, BatchType, WriteMaps DEF Append_, Log!Next
<1>5. CASE Close
  <2>1. UNCHANGED <<log, handled, prev>> /\ closed' = TRUE /\ Broadcast
    BY <1>5 DEF Close
  <2>2. \A s \in Subscribers : SameReader(s)
    BY <2>1, WakingIsHidden
  <2> QED
    BY <2>1, <2>2 DEF Log!Next, Log!Close, SameReader
<1> QED
  BY <1>1, <1>2, <1>3, <1>4, <1>5 DEF Next

LEMMA InitMaps == Init => Log!Init
  BY DEF Init, Log!Init, Stage, Passed

\* The log implements what its readers see, for any number of them: locks,
\* the notify list and the way from a message to the next do not show.
THEOREM EventLogImplemented == Spec => ImplementsEventLog
<1>1. Inv /\ [Next]_vars => [Log!Next]_(Log!vars)
  BY StepMaps
<1> QED
  BY <1>1, InitMaps, SpecKeepsInv, PTL DEF Spec, ImplementsEventLog, Log!Spec
=============================================================================
