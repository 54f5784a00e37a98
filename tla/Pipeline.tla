------------------------------ MODULE Pipeline ------------------------------
(***************************************************************************)
(* The stages of a projection, x/projection, each reading a topic of a     *)
(* stream and writing another one:                                         *)
(*                                                                         *)
(*    DoLoad --> 1 --> DoMap --> 2                                         *)
(*               1 and 2 --> DoJoin --> 3                                  *)
(*               2 or 3 --> DoSink                                         *)
(*                                                                         *)
(* as projection_test.go composes them.  The in-memory stream has no lock, *)
(* so its caller runs one stage at a time; it goes round the stages, and a *)
(* call that failed it may repeat at once.  What a stage has consumed is   *)
(* in a state object; a call that failed leaves it as it is, and a process *)
(* that crashed goes on from a snapshot of it.  Topics keep what is pushed *)
(* to them, so a stage that goes on from an older state pushes again what  *)
(* it has pushed before.                                                   *)
(***************************************************************************)
EXTENDS Integers, Sequences, FiniteSets, SequencesExt

CONSTANTS
    Input,        \* what the loader pushes: 0 for a record, or a watermark
    EndOfStream,  \* math.MaxInt64 as an event time
    SinkTopics,   \* the topics the sink may read: 2, 3 or both
    MaxFaults     \* bound on the calls that fail and the crashes

ASSUME InputAssumption == Input \in Seq(0 .. EndOfStream) /\ EndOfStream \in Nat \ {0}
\* Nothing follows the end of the stream.
ASSUME EndAssumption == \A i \in DOMAIN Input : Input[i] = EndOfStream => i = Len(Input)
ASSUME SinkTopicsAssumption == SinkTopics \subseteq {2, 3}
ASSUME MaxFaultsAssumption == MaxFaults \in Nat

VARIABLES
    topic,      \* the three topics
    state,      \* the state object of every stage that pulls
    saved,      \* the latest snapshot of each
    sinkTopic,  \* the topic the sink reads in this run
    loaded,     \* DoLoad has returned nil
    turn,       \* the stage that is called
    pc,         \* where the call is
    seen,       \* watermarkA and watermarkB of a call of DoJoin
    handled,    \* auxiliary: the records the sink's function was called with
    faults,     \* auxiliary: calls that failed, and crashes
    restored    \* auxiliary: a stage went on from a snapshot

vars == <<topic, state, saved, sinkTopic, loaded, turn, pc, seen, handled, faults,
          restored>>

Pullers == {"map", "join", "sink"}
After == [load |-> "map", map |-> IF sinkTopic = 2 THEN "sink" ELSE "join",
          join |-> "sink", sink |-> "load"]

\* A record is known by its place in the input and by whether it went
\* through the map; a watermark by its time.
Rec(i, via) == [time |-> 0, id |-> i, via |-> via]
Mark(t) == [time |-> t, id |-> 0, via |-> "none"]
Item == {Rec(i, via) : i \in DOMAIN Input, via \in {"load", "map"}}
            \cup {Mark(t) : t \in 1 .. EndOfStream}

\* PullPushContextState and JoinContextState. Offset 0 is nil. Of a join:
\* leftNext is LeftOrRight.
Position == [offset : Nat, watermark : 0 .. EndOfStream]
JoinPosition == [left : Nat, right : Nat, leftNext : BOOLEAN,
                 watermark : 0 .. EndOfStream]
State == [map : Position, join : JoinPosition, sink : Position]

TypeOK ==
    /\ topic \in [1 .. 3 -> Seq(Item)]
    /\ state \in State /\ saved \in State
    /\ \A s \in {"map", "sink"} : saved[s].offset <= state[s].offset
    /\ state.map.offset <= Len(topic[1]) /\ state.sink.offset <= Len(topic[sinkTopic])
    /\ state.join.left <= Len(topic[1]) /\ state.join.right <= Len(topic[2])
    /\ sinkTopic \in SinkTopics
    /\ loaded \in BOOLEAN
    /\ turn \in Pullers \cup {"load"}
    /\ pc \in {"pull", "ackWatermark", "ackOffset"}
    /\ seen \in [left : 0 .. EndOfStream, right : 0 .. EndOfStream]
    /\ handled \subseteq Item
    /\ faults \in 0 .. MaxFaults
    /\ restored \in BOOLEAN

NothingConsumed ==
    [map  |-> [offset |-> 0, watermark |-> 0],
     join |-> [left |-> 0, right |-> 0, leftNext |-> TRUE, watermark |-> 0],
     sink |-> [offset |-> 0, watermark |-> 0]]

Init ==
    /\ topic = [k \in 1 .. 3 |-> <<>>]
    /\ state = NothingConsumed
    /\ saved = NothingConsumed
    /\ sinkTopic \in SinkTopics
    /\ loaded = FALSE
    /\ turn = "load"
    /\ pc = "pull"
    /\ seen = [left |-> 0, right |-> 0]
    /\ handled = {}
    /\ faults = 0
    /\ restored = FALSE

-----------------------------------------------------------------------------
(* Calls of the stages *)

\* The locals of DoJoin begin with the watermark of its state.
Call(s) ==
    /\ turn' = s
    /\ pc' = "pull"
    /\ seen' = [left |-> state'.join.watermark, right |-> state'.join.watermark]

\* The caller goes on with the next stage, or calls the same one again. When
\* no crash can follow, the snapshots do not matter and are dropped.
Fault ==
    /\ faults < MaxFaults
    /\ faults' = faults + 1
    /\ saved' = IF faults' = MaxFaults THEN NothingConsumed ELSE saved
    /\ Call(turn) \/ Call(After[turn])

\* The item that follows the one that was acknowledged last. A topic that
\* nothing was pushed to is an error of Pull, and the end of a topic is
\* ErrNoMoreNewDataInStream: the call ends either way.
Source ==
    CASE turn = "map" -> topic[1]
      [] turn = "sink" -> topic[sinkTopic]
      [] turn = "join" -> topic[IF state.join.leftNext THEN 1 ELSE 2]
      [] OTHER -> <<>>
Offset ==
    IF turn # "join" THEN state[turn].offset
    ELSE IF state.join.leftNext THEN state.join.left ELSE state.join.right
Pulled == Source[Offset + 1]

CanPull(s) ==
    /\ turn = s /\ pc = "pull"
    /\ state[s].watermark # EndOfStream
    /\ Offset < Len(Source)

Return ==
    /\ turn \in Pullers /\ pc = "pull"
    /\ ~CanPull(turn)
    /\ UNCHANGED <<topic, state, saved, sinkTopic, loaded, handled, faults, restored>>
    /\ Call(After[turn])

\* Mutation: the item that failed is skipped.
CallFailsAndSkips ==
    /\ turn \in {"map", "sink"} /\ pc = "pull"
    /\ state' = [state EXCEPT ![turn].offset = IF CanPull(turn) THEN @ + 1 ELSE @]
    /\ UNCHANGED <<topic, sinkTopic, loaded, handled, restored>>
    /\ Fault

\* A pull, a push or the function of the sink returns an error, or the time
\* of DoMap is up: nothing was acknowledged since the last item.
CallFails ==
    /\ turn \in Pullers /\ pc = "pull"
    /\ UNCHANGED <<topic, state, sinkTopic, loaded, handled, restored>>
    /\ Fault

\* The process of a stage is gone, also between a push and what acknowledges
\* it, and goes on from its latest snapshot.
Crash ==
    /\ turn \in Pullers
    /\ state' = [state EXCEPT ![turn] = saved[turn]]
    /\ restored' = TRUE
    /\ Fault
    /\ UNCHANGED <<topic, sinkTopic, loaded, handled>>

\* The goroutine of Recovery saves the state of DoMap or DoSink at any time,
\* also between two acknowledgements; for a join its caller saves it.
Snapshot ==
    /\ turn \in Pullers /\ saved[turn] # state[turn]
    /\ faults < MaxFaults
    /\ turn = "join" => pc = "pull"
    /\ saved' = [saved EXCEPT ![turn] = state[turn]]
    /\ UNCHANGED <<topic, state, sinkTopic, loaded, turn, pc, seen, handled, faults,
                   restored>>

-----------------------------------------------------------------------------
(* DoLoad *)

\* The function pushes its data from the first to the last, until a push
\* fails; called again, it begins again.
Loading == [i \in DOMAIN Input |-> IF Input[i] = 0 THEN Rec(i, "load") ELSE Mark(Input[i])]

Load ==
    /\ turn = "load" /\ ~loaded
    /\ topic' = [topic EXCEPT ![1] = @ \o Loading]
    /\ loaded' = TRUE
    /\ UNCHANGED <<state, saved, sinkTopic, handled, faults, restored>>
    /\ Call("map")

LoadFails ==
    /\ turn = "load" /\ ~loaded
    /\ \E n \in 0 .. Len(Input) - 1 :
          topic' = [topic EXCEPT ![1] = @ \o SubSeq(Loading, 1, n)]
    /\ UNCHANGED <<state, sinkTopic, loaded, handled, restored>>
    /\ Fault

LoadIsDone ==
    /\ turn = "load" /\ loaded
    /\ UNCHANGED <<topic, state, saved, sinkTopic, loaded, handled, faults, restored>>
    /\ Call("map")

-----------------------------------------------------------------------------
(* DoMap *)

Push(k, x) == topic' = [topic EXCEPT ![k] = Append(@, x)]

MapRecord ==
    /\ CanPull("map") /\ Pulled.time = 0
    /\ Push(2, Rec(Pulled.id, "map"))
    /\ pc' = "ackOffset"
    /\ UNCHANGED <<state, saved, sinkTopic, loaded, turn, seen, handled, faults, restored>>

\* Mutation: a watermark that was processed is pushed again.
MapAnyWatermark ==
    /\ CanPull("map") /\ Pulled.time # 0
    /\ Push(2, Mark(Pulled.time))
    /\ pc' = "ackWatermark"
    /\ UNCHANGED <<state, saved, sinkTopic, loaded, turn, seen, handled, faults, restored>>

\* Mutation: the mapped watermark is acknowledged, and pushed by nobody.
MapDropsWatermark ==
    /\ CanPull("map") /\ Pulled.time # 0
    /\ pc' = IF state.map.watermark >= Pulled.time THEN "ackOffset" ELSE "ackWatermark"
    /\ UNCHANGED <<topic, state, saved, sinkTopic, loaded, turn, seen, handled, faults,
                   restored>>

MapWatermark ==
    /\ CanPull("map") /\ Pulled.time # 0
    /\ IF state.map.watermark >= Pulled.time
       THEN pc' = "ackOffset" /\ UNCHANGED topic
       ELSE Push(2, Mark(Pulled.time)) /\ pc' = "ackWatermark"
    /\ UNCHANGED <<state, saved, sinkTopic, loaded, turn, seen, handled, faults, restored>>

AckWatermark ==
    /\ turn = "map" /\ pc = "ackWatermark"
    /\ state' = [state EXCEPT !.map.watermark = Pulled.time]
    /\ pc' = "ackOffset"
    /\ UNCHANGED <<topic, saved, sinkTopic, loaded, turn, seen, handled, faults, restored>>

\* DoMap and DoSink.
AckOffset ==
    /\ turn \in {"map", "sink"} /\ pc = "ackOffset"
    /\ state' = [state EXCEPT ![turn].offset = @ + 1]
    /\ pc' = "pull"
    /\ UNCHANGED <<topic, saved, sinkTopic, loaded, turn, seen, handled, faults, restored>>

-----------------------------------------------------------------------------
(* DoJoin *)

JoinRecord ==
    /\ CanPull("join") /\ Pulled.time = 0
    /\ Push(3, Pulled)
    /\ pc' = "ackOffset"
    /\ UNCHANGED <<state, saved, sinkTopic, loaded, turn, seen, handled, faults, restored>>

\* Mutation: the watermark of the side that is ahead.
Higher(a, b) == IF a > b THEN a ELSE b

Lower(a, b) == IF a < b THEN a ELSE b

\* The watermark of one side, pushed and kept when both sides have reached it.
JoinWatermark ==
    LET now == IF state.join.leftNext THEN [seen EXCEPT !.left = Pulled.time]
               ELSE [seen EXCEPT !.right = Pulled.time]
        low == Lower(now.left, now.right)
    IN  /\ CanPull("join") /\ Pulled.time # 0
        /\ seen' = now
        /\ IF state.join.watermark >= low
           THEN UNCHANGED <<topic, state>>
           ELSE /\ Push(3, Mark(low))
                /\ state' = [state EXCEPT !.join.watermark = low]
        /\ pc' = "ackOffset"
        /\ UNCHANGED <<saved, sinkTopic, loaded, turn, handled, faults, restored>>

\* Mutation: the offset of the left side, whichever was pulled.
JoinAcksLeft ==
    /\ turn = "join" /\ pc = "ackOffset"
    /\ state' = [state EXCEPT !.join.left = @ + 1, !.join.leftNext = ~@]
    /\ pc' = "pull"
    /\ UNCHANGED <<topic, saved, sinkTopic, loaded, turn, seen, handled, faults, restored>>

\* The offset of the side that was pulled, and the other side is next.
JoinAck ==
    /\ turn = "join" /\ pc = "ackOffset"
    /\ state' = [state EXCEPT
                    !.join.left = IF state.join.leftNext THEN @ + 1 ELSE @,
                    !.join.right = IF state.join.leftNext THEN @ ELSE @ + 1,
                    !.join.leftNext = ~@]
    /\ pc' = "pull"
    /\ UNCHANGED <<topic, saved, sinkTopic, loaded, turn, seen, handled, faults, restored>>

-----------------------------------------------------------------------------
(* DoSink *)

SinkRecord ==
    /\ CanPull("sink") /\ Pulled.time = 0
    /\ handled' = handled \cup {Pulled}
    /\ pc' = "ackOffset"
    /\ UNCHANGED <<topic, state, saved, sinkTopic, loaded, turn, seen, faults, restored>>

\* A watermark is acknowledged without a look at the last one.
SinkWatermark ==
    /\ CanPull("sink") /\ Pulled.time # 0
    /\ state' = [state EXCEPT !.sink.watermark = Pulled.time]
    /\ pc' = "ackOffset"
    /\ UNCHANGED <<topic, saved, sinkTopic, loaded, turn, seen, handled, faults, restored>>

Next ==
    \/ Load \/ LoadFails \/ LoadIsDone
    \/ Return \/ CallFails \/ Crash \/ Snapshot
    \/ MapRecord \/ MapWatermark \/ AckWatermark \/ AckOffset
    \/ JoinRecord \/ JoinWatermark \/ JoinAck
    \/ SinkRecord \/ SinkWatermark

Spec == Init /\ [][Next]_vars

\* The caller goes on going round the stages.
FairSpec == Spec /\ WF_vars(Next)

-----------------------------------------------------------------------------
(* Properties *)

Records == {i \in DOMAIN Input : Input[i] = 0}

\* The ways in which a record gets into a topic.
Ways(k) == CASE k = 1 -> {"load"} [] k = 2 -> {"map"} [] k = 3 -> {"load", "map"}

\* The records that are in topic k before its p-th item.
Before(k, p) == {topic[k][q] : q \in 1 .. p - 1}

\* Replays repeat records and leave out none: before any record there is, in
\* every topic and of the same way, each one that the loader pushed earlier,
\* whichever calls failed and whatever snapshots the stages went on from.
RecordsSkipNothing ==
    \A k \in 1 .. 3 : \A p \in DOMAIN topic[k] :
        LET x == topic[k][p]
        IN  x.time = 0 =>
                \A i \in Records : i < x.id => Rec(i, x.via) \in Before(k, p)

\* A watermark promises that what is due before it has come: when it is in a
\* topic, every record that the loader pushed before the first watermark of
\* that time is in the topic before it, from both sides of a join.
WatermarksKeepTheirPromise ==
    \A k \in 1 .. 3 : \A p \in DOMAIN topic[k] :
        LET t == topic[k][p].time
        IN  t # 0 =>
                \A i \in Records :
                    (\A j \in 1 .. i : Input[j] < t) =>
                        \A via \in Ways(k) : Rec(i, via) \in Before(k, p)

\* DoMap and DoJoin push a watermark once, also when it comes again because
\* the loader began again, unless they went on from a snapshot.
WatermarksRise ==
    ~restored =>
        \A k \in {2, 3} : \A p, q \in DOMAIN topic[k] :
            p < q /\ topic[k][p].time # 0 /\ topic[k][q].time # 0
                => topic[k][p].time < topic[k][q].time

\* When the sink knows of the end of the stream, its function was called with
\* every record in every way, whatever failed on the way.
EndMeansEverything ==
    state.sink.watermark = EndOfStream =>
        \A i \in Records : \A via \in Ways(sinkTopic) : Rec(i, via) \in handled

\* Without a join in between, the end of the stream reaches the sink.
EndReachesSink ==
    sinkTopic = 2 => <>(state.sink.watermark = EndOfStream)
=============================================================================
