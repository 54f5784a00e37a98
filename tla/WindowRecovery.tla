---------------------------- MODULE WindowRecovery ----------------------------
(***************************************************************************)
(* A windowed projection that recovers from failures, x/projection:        *)
(* Recovery runs DoWindow again and again until it ends or the attempts    *)
(* are used up.  DoWindow pulls records and watermarks from a stream,      *)
(* merges records into windows, and on a watermark pushes the windows that *)
(* are due and deletes them.  What it has consumed is in a state object,   *)
(* of which a goroutine per attempt saves a snapshot every 100 ms; the     *)
(* next attempt goes on from the latest snapshot.  The windows themselves  *)
(* are in a store of their own that survives an attempt.                   *)
(*                                                                         *)
(* A goroutine of an attempt goes on when the attempt has failed: it stops *)
(* when Recovery returns.  The in-memory repository keeps the pointer to   *)
(* the state object, so a snapshot changes with it and the next attempt    *)
(* works on the same object; other repositories store a copy.              *)
(***************************************************************************)
EXTENDS Integers, Sequences, FiniteSets, SequencesExt

CONSTANTS
    Input,         \* the items of the topic that is pulled
    End,           \* Window.End of each window, in the order of a flush
    EndOfStream,   \* math.MaxInt64 as an event time
    Copying,       \* the kinds of snapshot repositories, TRUE: copies
    AutoSnapshot,  \* RecoveryOptions.autoSnapshot
    MaxAttempts,   \* RecoveryOptions.maxRecoveryAttempts
    StoreFails     \* TRUE when the snapshot repository may return errors

\* Flushed windows are sorted by End and Key; windows are named by position.
Windows == DOMAIN End

\* An item is a record, with the windows MkWindow returns for it, or a
\* watermark, with its time; records have time 0.
IsRecord(i) == Input[i].time = 0

ASSUME EndAssumption ==
    /\ End \in Seq(Nat)
    /\ \A w, x \in Windows : w <= x => End[w] <= End[x]
    /\ \A w \in Windows : End[w] <= EndOfStream
\* Nothing comes after the end of the stream.
ASSUME InputAssumption ==
    /\ EndOfStream \in Nat \ {0}
    /\ Input \in Seq([time : 0 .. EndOfStream, windows : Seq(Windows)])
    /\ \A i \in DOMAIN Input :
          /\ ~IsRecord(i) => Input[i].windows = <<>>
          /\ Input[i].time = EndOfStream => i = Len(Input)
ASSUME OptionsAssumption ==
    /\ Copying \subseteq BOOLEAN
    /\ AutoSnapshot \in BOOLEAN /\ StoreFails \in BOOLEAN
    /\ MaxAttempts \in Nat

VARIABLES
    copies,      \* whether the repository of this run stores copies
    heap,        \* the state objects; the first is the repository's copy
    context,     \* the state object of the attempt
    snapshot,    \* the state object that is the latest snapshot, 0: none
    holders,     \* the state objects that goroutines take snapshots of
    cancelled,   \* cancel() was called by such a goroutine
    windows,     \* the window store: the offsets merged into each window
    out,         \* the topic that is pushed to
    item,        \* the offset of the item that is handled
    pc,          \* where the attempt is
    left,        \* attempts left
    result       \* what Recovery returned

vars == <<copies, heap, context, snapshot, holders, cancelled, windows, out,
          item, pc, left, result>>

\* Offset 0 stands for nil, and watermark 0 too.
State == [offset : 0 .. Len(Input), watermark : 0 .. EndOfStream]
InitState == [offset |-> 0, watermark |-> 0]
StoreCell == 1

\* at is auxiliary: the watermark that was handled. Window 0: a watermark.
Pushed == [window : Windows \cup {0}, merged : Seq(1 .. Len(Input)), at : 1 .. Len(Input)]

TypeOK ==
    /\ copies \in Copying
    /\ heap \in Seq(State) /\ Len(heap) <= MaxAttempts + 2
    /\ context \in 0 .. Len(heap)
    /\ snapshot \in 0 .. Len(heap)
    /\ holders \in SUBSET (1 .. Len(heap))
    /\ cancelled \in BOOLEAN
    /\ windows \in [Windows -> Seq(1 .. Len(Input))]
    /\ out \in Seq(Pushed)
    /\ item \in 0 .. Len(Input)
    /\ pc \in {"load", "pull", "handle", "pushWatermark", "ackWatermark", "ackOffset",
               "returned"}
    /\ left \in 0 .. MaxAttempts
    /\ result \in {"none", "nil", "error"}

Init ==
    /\ copies \in Copying
    /\ heap = <<InitState>>
    /\ context = 0
    /\ snapshot = 0
    /\ holders = {}
    /\ cancelled = FALSE
    /\ windows = [w \in Windows |-> <<>>]
    /\ out = <<>>
    /\ item = 0
    /\ pc = "load"
    /\ left = MaxAttempts
    /\ result = "none"

-----------------------------------------------------------------------------
(* Recovery *)

Return(r) ==
    /\ pc' = "returned"
    /\ result' = r

\* Mutation: the attempts are not counted down to an end.
FailWithoutLimit == pc' = "load" /\ left' = left - 1 /\ UNCHANGED result

\* DoWindow returned an error.
Fail ==
    IF left = 0
    THEN Return("error") /\ UNCHANGED left
    ELSE pc' = "load" /\ left' = left - 1 /\ UNCHANGED result

\* The top of the loop: it looks at the context first, which is cancelled
\* when a snapshot could not be saved.
ReturnCancelled ==
    /\ pc = "load" /\ cancelled
    /\ Return("nil")
    /\ UNCHANGED <<copies, heap, context, snapshot, holders, cancelled, windows, out,
                   item, left>>

LoadFails ==
    /\ pc = "load" /\ ~cancelled /\ StoreFails
    /\ Return("error")
    /\ UNCHANGED <<copies, heap, context, snapshot, holders, cancelled, windows, out,
                   item, left>>

\* LatestSnapshot, init() when there is none, and the goroutine is started.
Load ==
    /\ pc = "load" /\ ~cancelled
    /\ IF snapshot # 0 /\ ~copies
       THEN context' = snapshot /\ UNCHANGED heap
       ELSE /\ heap' = Append(heap, IF snapshot = 0 THEN InitState ELSE heap[snapshot])
            /\ context' = Len(heap')
    /\ holders' = IF AutoSnapshot THEN holders \cup {context'} ELSE holders
    /\ pc' = "pull"
    /\ UNCHANGED <<copies, snapshot, cancelled, windows, out, item, left, result>>

\* One turn of a snapshotting goroutine, whatever became of its attempt. A
\* copy is taken at one instant: in the code the attempt may acknowledge
\* between the reads of the two fields, but an attempt that goes on from such
\* a copy looks at its watermark only for the end of the stream, and no step
\* that can fail comes after that one was acknowledged.
Snapshot(h) ==
    /\ h \in holders
    /\ IF copies
       THEN heap' = [heap EXCEPT ![StoreCell] = heap[h]] /\ snapshot' = StoreCell
       ELSE snapshot' = h /\ UNCHANGED heap
    /\ UNCHANGED <<copies, context, holders, cancelled, windows, out, item, pc, left,
                   result>>

SnapshotFails(h) ==
    /\ h \in holders /\ StoreFails
    /\ cancelled' = TRUE
    /\ holders' = holders \ {h}
    /\ UNCHANGED <<copies, heap, context, snapshot, windows, out, item, pc, left, result>>

\* The context of all goroutines is done. One that is at work in its turn
\* may still save.
Stop(h) ==
    /\ h \in holders
    /\ cancelled \/ pc = "returned"
    /\ holders' = holders \ {h}
    /\ UNCHANGED <<copies, heap, context, snapshot, cancelled, windows, out, item, pc,
                   left, result>>

-----------------------------------------------------------------------------
(* DoWindow *)

Finish ==
    /\ pc = "pull" /\ heap[context].watermark = EndOfStream
    /\ Return("nil")
    /\ UNCHANGED <<copies, heap, context, snapshot, holders, cancelled, windows, out,
                   item, left>>

\* While there is nothing to pull the loop goes round without any effect.
PullIn ==
    /\ pc = "pull" /\ heap[context].watermark # EndOfStream
    /\ heap[context].offset < Len(Input)
    /\ item' = heap[context].offset + 1
    /\ pc' = "handle"
    /\ UNCHANGED <<copies, heap, context, snapshot, holders, cancelled, windows, out, left,
                   result>>

PullFails ==
    /\ pc = "pull" /\ heap[context].watermark # EndOfStream
    /\ Fail
    /\ UNCHANGED <<copies, heap, context, snapshot, holders, cancelled, windows, out, item>>

\* Mutation: the offset of the window is not compared.
NewForAgain(w, i) == TRUE

\* WindowRecord.Offset; 0 when the window is not in the store.
WindowOffset(w) == IF windows[w] = <<>> THEN 0 ELSE Last(windows[w])

\* What int8 makes of a number.
Int8(n) == ((n + 128) % 256) - 128

\* Records are merged into a window in the order of their offsets, once. The
\* streams compare two offsets by their difference, as an int8: of offsets that
\* are 128 or more apart the later one may count as the earlier.
NewFor(w, i) == windows[w] = <<>> \/ Int8(i - WindowOffset(w)) > 0

\* The window store after the first n windows of item i.
Merged(i, n) ==
    [w \in Windows |->
        IF w \in {Input[i].windows[k] : k \in 1 .. n} /\ NewFor(w, i)
        THEN Append(windows[w], i) ELSE windows[w]]

\* Every window of the record in turn, until merge returns an error.
MergeRecord ==
    LET ws == Input[item].windows
    IN  /\ pc = "handle" /\ IsRecord(item)
        /\ \E n \in 0 .. Len(ws) :
              /\ windows' = Merged(item, n)
              /\ IF n = Len(ws)
                 THEN pc' = "ackOffset" /\ UNCHANGED <<left, result>>
                 ELSE NewFor(ws[n + 1], item) /\ Fail
        /\ UNCHANGED <<copies, heap, context, snapshot, holders, cancelled, out, item>>

\* The windows that are due, in the order of a flush.
Due(time) == {w \in Windows : windows[w] # <<>> /\ End[w] <= time}
Ascending(S) == {s \in Bijection(1 .. Cardinality(S), S) :
                    \A j, k \in DOMAIN s : j < k => s[j] < s[k]}

\* The results of the first n windows of due.
Results(due, n) ==
    [k \in 1 .. n |-> [window |-> due[k], merged |-> windows[due[k]], at |-> item]]

Delete(S) == windows' = [w \in Windows |-> IF w \in S THEN <<>> ELSE windows[w]]

\* Mutation: the windows are deleted before they are pushed.
FlushDeletesFirst ==
    /\ pc = "handle" /\ ~IsRecord(item)
    /\ Delete(Due(Input[item].time))
    /\ \E due \in Ascending(Due(Input[item].time)) :
          \E n \in 0 .. Len(due) :
              /\ out' = out \o Results(due, n)
              /\ IF n = Len(due)
                 THEN pc' = "pushWatermark" /\ UNCHANGED <<left, result>>
                 ELSE Fail
    /\ UNCHANGED <<copies, heap, context, snapshot, holders, cancelled, item>>

\* Mutation: the watermark is acknowledged before the windows are pushed.
FlushAcksFirst ==
    /\ pc = "handle" /\ ~IsRecord(item)
    /\ heap' = [heap EXCEPT ![context].watermark = Input[item].time]
    /\ \E due \in Ascending(Due(Input[item].time)) :
          \E n \in 0 .. Len(due) :
              /\ out' = out \o Results(due, n)
              /\ IF n = Len(due)
                 THEN /\ Delete(Due(Input[item].time))
                      /\ pc' = "pushWatermark" /\ UNCHANGED <<left, result>>
                 ELSE Fail /\ UNCHANGED windows
    /\ UNCHANGED <<copies, context, snapshot, holders, cancelled, item>>

\* Every window that is due in turn, until a push fails; then all of them are
\* deleted.
Flush ==
    /\ pc = "handle" /\ ~IsRecord(item)
    /\ \E due \in Ascending(Due(Input[item].time)) :
          \E n \in 0 .. Len(due) :
              /\ out' = out \o Results(due, n)
              /\ IF n = Len(due)
                 THEN /\ Delete(Due(Input[item].time))
                      /\ pc' = "pushWatermark" /\ UNCHANGED <<left, result>>
                 ELSE Fail /\ UNCHANGED windows
    /\ UNCHANGED <<copies, heap, context, snapshot, holders, cancelled, item>>

PushWatermark ==
    /\ pc = "pushWatermark"
    /\ \/ /\ out' = Append(out, [window |-> 0, merged |-> <<>>, at |-> item])
          /\ pc' = "ackWatermark" /\ UNCHANGED <<left, result>>
       \/ Fail /\ UNCHANGED out
    /\ UNCHANGED <<copies, heap, context, snapshot, holders, cancelled, windows, item>>

\* Mutation: a watermark that was acknowledged is not replaced.
AckFirstWatermark ==
    /\ pc = "ackWatermark"
    /\ heap' = [heap EXCEPT ![context].watermark =
                   IF @ = 0 THEN Input[item].time ELSE @]
    /\ pc' = "ackOffset"
    /\ UNCHANGED <<copies, context, snapshot, holders, cancelled, windows, out, item, left,
                   result>>

AckWatermark ==
    /\ pc = "ackWatermark"
    /\ heap' = [heap EXCEPT ![context].watermark = Input[item].time]
    /\ pc' = "ackOffset"
    /\ UNCHANGED <<copies, context, snapshot, holders, cancelled, windows, out, item, left,
                   result>>

AckOffset ==
    /\ pc = "ackOffset"
    /\ heap' = [heap EXCEPT ![context].offset = item]
    /\ pc' = "pull"
    /\ UNCHANGED <<copies, context, snapshot, holders, cancelled, windows, out, item, left,
                   result>>

Attempt ==
    \/ ReturnCancelled \/ LoadFails \/ Load
    \/ Finish \/ PullIn \/ MergeRecord \/ Flush \/ PushWatermark
    \/ AckWatermark \/ AckOffset

Next ==
    \/ Attempt \/ PullFails
    \/ \E h \in holders : Snapshot(h) \/ SnapshotFails(h) \/ Stop(h)

Spec == Init /\ [][Next]_vars

\* Recovery runs in the goroutine of its caller. Nothing makes a pull fail, so
\* an attempt that finds nothing more to pull may go round for ever.
FairSpec == Spec /\ WF_vars(Attempt)

-----------------------------------------------------------------------------
(* Properties *)

\* Record i of window w is in it, or in a result that was pushed for it.
Accounted(w, i) ==
    \/ i \in ToSet(windows[w])
    \/ \E k \in DOMAIN out : out[k].window = w /\ i \in ToSet(out[k].merged)

\* Replays merge nothing twice, and what is skipped because a window has gone
\* past it is not lost: the offsets in a window rise, and any record up to
\* the last of them is accounted for, from whatever snapshots the attempts
\* began and wherever they failed.
WindowsSkipNothing ==
    \A w \in Windows :
        /\ \A k \in 1 .. Len(windows[w]) - 1 : windows[w][k] < windows[w][k + 1]
        /\ \A i \in 1 .. WindowOffset(w) :
              w \in ToSet(Input[i].windows) => Accounted(w, i)

\* Where an attempt may begin, what was consumed before is safe: any record
\* that a state object has acknowledged is accounted for in all its windows.
NothingIsLost ==
    \A cell \in DOMAIN heap : \A i \in 1 .. heap[cell].offset :
        \A w \in ToSet(Input[i].windows) : Accounted(w, i)

\* When Recovery returns nil after the end of the stream, every record has
\* reached the output in every window it belongs to, whatever had to be
\* replayed. (It also returns nil when a snapshot could not be saved.)
EverythingIsPushed ==
    result = "nil" /\ ~cancelled =>
        \A i \in 1 .. Len(Input) :
            (\E j \in i .. Len(Input) : Input[j].time = EndOfStream) =>
                \A w \in ToSet(Input[i].windows) :
                    \E k \in DOMAIN out : out[k].window = w /\ i \in ToSet(out[k].merged)

\* Recovery returns, however often the parts fail, on a stream that ends.
RecoveryReturns ==
    (\E j \in DOMAIN Input : Input[j].time = EndOfStream) => <>(result # "none")

\* The record i of w is late for the watermark at j: an earlier one was due.
IsLate(w, i, j) == \E m \in i .. (j - 1) : ~IsRecord(m) /\ Input[m].time >= End[w]

\* The results that projection_test.go expects with failures at every pull
\* and push: what comes out of a window is merged from all of its records. In
\* the code the goroutines of attempts that have failed go on saving, so an
\* attempt may start from the state of another than the last one. When that
\* state is not the one the windows are from, a window that was flushed, and
\* is being filled again, is pushed with a part of its records.
ResultsAreComplete ==
    \A k \in DOMAIN out :
        out[k].window # 0 =>
            \A i \in 1 .. out[k].at :
                out[k].window \in ToSet(Input[i].windows)
                    /\ ~IsLate(out[k].window, i, out[k].at)
                => i \in ToSet(out[k].merged)
=============================================================================
