--------------------------- MODULE PipelineProofs ---------------------------
(***************************************************************************)
(* Proofs of the safety of Pipeline, for every input, every number of      *)
(* faults, and both topics the sink may read.                              *)
(*                                                                         *)
(* Typed is inductive by itself.  Delivered says what an acknowledged      *)
(* offset stands for and Kept what a watermark does, those of snapshots    *)
(* included: both stay true when topics grow.  That topics are sound       *)
(* follows for each new item from what the stage has delivered and from    *)
(* the soundness of the topic the item was pulled from.  Faithful is the   *)
(* conjunction; Risen needs Typed only.                                    *)
(***************************************************************************)
EXTENDS Pipeline, SequenceTheorems, TLAPS

Control ==
    /\ turn = "load" => pc = "pull"
    /\ pc = "ackWatermark" => turn = "map" /\ Pulled.time # 0
    /\ pc # "pull" => Offset < Len(Source)

SavedBehind ==
    /\ saved.join.left <= state.join.left
    /\ saved.join.right <= state.join.right

Typed == TypeOK /\ Control /\ SavedBehind

-----------------------------------------------------------------------------
(* Items and sources *)

LEMMA Transitive ==
    ASSUME NEW a \in Nat, NEW b \in Nat, NEW c \in Nat, a <= b, b <= c
    PROVE  a <= c
OBVIOUS

LEMMA OneMore ==
    ASSUME NEW n \in Nat, NEW q \in 1 .. n + 1
    PROVE  q \in 1 .. n \/ q = n + 1
OBVIOUS

LEMMA Shorter ==
    ASSUME NEW a \in Nat, NEW b \in Nat, a <= b
    PROVE  1 .. a \subseteq 1 .. b
OBVIOUS

LEMMA InputFacts ==
    /\ Len(Input) \in Nat /\ DOMAIN Input = 1 .. Len(Input)
    /\ \A i \in 1 .. Len(Input) : Input[i] \in 0 .. EndOfStream
    /\ EndOfStream \in Nat \ {0}
<1>1. Input \in Seq(0 .. EndOfStream) /\ EndOfStream \in Nat \ {0}
  BY InputAssumption
<1>2. \A i \in 1 .. Len(Input) : Input[i] \in 0 .. EndOfStream
  BY <1>1, ElementOfSeq
<1> QED
  BY <1>1, <1>2

LEMMA ItemFacts ==
    ASSUME NEW x \in Item
    PROVE  /\ x.time \in 0 .. EndOfStream
           /\ x.time = 0 => /\ x.id \in DOMAIN Input
                            /\ x.via \in {"load", "map"}
                            /\ x = Rec(x.id, x.via)
           /\ x.time # 0 => x = Mark(x.time)
<1>1. CASE x \in {Rec(i, via) : i \in DOMAIN Input, via \in {"load", "map"}}
  <2>1. PICK i \in DOMAIN Input, via \in {"load", "map"} : x = Rec(i, via)
    BY <1>1
  <2>2. x.time = 0 /\ x.id = i /\ x.via = via
    BY <2>1 DEF Rec
  <2> QED
    BY <2>1, <2>2, InputAssumption
<1>2. CASE x \in {Mark(t) : t \in 1 .. EndOfStream}
  <2>1. PICK t \in 1 .. EndOfStream : x = Mark(t)
    BY <1>2
  <2>2. x.time = t
    BY <2>1 DEF Mark
  <2> QED
    BY <2>1, <2>2, InputAssumption
<1> QED
  BY <1>1, <1>2 DEF Item

LEMMA RecIsItem ==
    ASSUME NEW i \in DOMAIN Input, NEW via \in {"load", "map"}
    PROVE  Rec(i, via) \in Item
BY DEF Item

LEMMA MarkIsItem ==
    ASSUME NEW t \in 1 .. EndOfStream
    PROVE  Mark(t) \in Item
BY DEF Item

LEMMA LoadingType == Loading \in Seq(Item) /\ Len(Loading) = Len(Input)
<1>1. DOMAIN Input = 1 .. Len(Input) /\ Len(Input) \in Nat
  BY InputFacts
<1>2. ASSUME NEW i \in 1 .. Len(Input)
      PROVE  (IF Input[i] = 0 THEN Rec(i, "load") ELSE Mark(Input[i])) \in Item
  <2>2. Input[i] # 0 => Input[i] \in 1 .. EndOfStream
    BY InputFacts
  <2> QED
    BY <1>1, <2>2, RecIsItem, MarkIsItem
<1>3. Loading \in [1 .. Len(Input) -> Item]
  BY <1>1, <1>2 DEF Loading
<1> QED
  BY <1>1, <1>3

LEMMA SourceFacts ==
    ASSUME TypeOK, turn \in Pullers
    PROVE  /\ Source \in Seq(Item)
           /\ Offset \in Nat /\ Offset <= Len(Source)
           /\ Offset < Len(Source) => Offset + 1 \in DOMAIN Source /\ Pulled \in Item
<1>1. sinkTopic \in 1 .. 3
  BY SinkTopicsAssumption DEF TypeOK
<1>2. Source \in Seq(Item) /\ Offset \in Nat /\ Offset <= Len(Source)
  <2>1. CASE turn = "map"
    BY <2>1 DEF TypeOK, Source, Offset, State, Position
  <2>2. CASE turn = "join"
    <3>1. /\ topic[1] \in Seq(Item) /\ topic[2] \in Seq(Item) /\ state.join \in JoinPosition
          /\ state.join.left <= Len(topic[1]) /\ state.join.right <= Len(topic[2])
      BY DEF TypeOK, State
    <3>2. state.join.left \in Nat /\ state.join.right \in Nat
      BY <3>1 DEF JoinPosition
    <3>3. /\ Source = topic[IF state.join.leftNext THEN 1 ELSE 2]
          /\ Offset = IF state.join.leftNext THEN state.join.left ELSE state.join.right
      BY <2>2 DEF Source, Offset
    <3> QED
      BY <3>1, <3>2, <3>3
  <2>3. CASE turn = "sink"
    BY <2>3, <1>1 DEF TypeOK, Source, Offset, State, Position
  <2> QED
    BY <2>1, <2>2, <2>3 DEF Pullers
<1> QED
  BY <1>2 DEF Pulled

-----------------------------------------------------------------------------
(* Types, control and offsets *)

LEMMA NothingIsState == NothingConsumed \in State
BY InputFacts DEF NothingConsumed, State, Position, JoinPosition

\* What a call or a fault leaves behind, whatever else the step does.
LEMMA CallFacts ==
    ASSUME NEW s \in Pullers \cup {"load"}, Call(s), state' \in State
    PROVE  /\ turn' \in Pullers \cup {"load"} /\ pc' = "pull"
           /\ seen' \in [left : 0 .. EndOfStream, right : 0 .. EndOfStream]
BY DEF Call, State, JoinPosition

LEMMA AfterType ==
    ASSUME NEW s \in Pullers \cup {"load"}
    PROVE  After[s] \in Pullers \cup {"load"}
BY DEF After, Pullers

LEMMA FaultFacts ==
    ASSUME TypeOK, Fault, state' \in State
    PROVE  /\ faults' \in 0 .. MaxFaults
           /\ saved' = saved \/ saved' = NothingConsumed
           /\ turn' \in Pullers \cup {"load"} /\ pc' = "pull"
           /\ seen' \in [left : 0 .. EndOfStream, right : 0 .. EndOfStream]
<1>1. turn \in Pullers \cup {"load"} /\ After[turn] \in Pullers \cup {"load"}
  BY AfterType DEF TypeOK
<1>2. Call(turn) \/ Call(After[turn])
  BY DEF Fault
<1>3. faults' \in 0 .. MaxFaults
  BY MaxFaultsAssumption DEF Fault, TypeOK
<1> QED
  BY <1>1, <1>2, <1>3, CallFacts DEF Fault

\* The topics when one of them grows.
LEMMA LoadGrows ==
    ASSUME TypeOK, NEW s \in Seq(Item),
           topic' = [topic EXCEPT ![1] = topic[1] \o s]
    PROVE  /\ topic' \in [1 .. 3 -> Seq(Item)]
           /\ \A i \in 1 .. 3 : Len(topic[i]) <= Len(topic'[i])
<1>1. topic \in [1 .. 3 -> Seq(Item)]
  BY DEF TypeOK
<1>2. topic[1] \o s \in Seq(Item) /\ Len(topic[1]) <= Len(topic[1] \o s)
  BY <1>1
<1>3. \A i \in 1 .. 3 : Len(topic[i]) \in Nat
  BY <1>1
<1> QED
  BY <1>1, <1>2, <1>3

LEMMA PushGrows ==
    ASSUME TypeOK, NEW k \in 1 .. 3, NEW x \in Item, Push(k, x)
    PROVE  /\ topic' \in [1 .. 3 -> Seq(Item)]
           /\ \A i \in 1 .. 3 : Len(topic[i]) <= Len(topic'[i])
<1>1. topic \in [1 .. 3 -> Seq(Item)]
  BY DEF TypeOK
<1>2. Append(topic[k], x) \in Seq(Item) /\ Len(topic[k]) <= Len(Append(topic[k], x))
  BY <1>1
<1>3. \A i \in 1 .. 3 : Len(topic[i]) \in Nat
  BY <1>1
<1> QED
  BY <1>1, <1>2, <1>3 DEF Push

\* Offsets stay in topics that grow.
Within(c) ==
    /\ c.map.offset <= Len(topic[1]) /\ c.sink.offset <= Len(topic[sinkTopic])
    /\ c.join.left <= Len(topic[1]) /\ c.join.right <= Len(topic[2])

LEMMA WithinGrows ==
    ASSUME TypeOK, NEW c \in State, Within(c), sinkTopic' = sinkTopic,
           topic' \in [1 .. 3 -> Seq(Item)],
           \A i \in 1 .. 3 : Len(topic[i]) <= Len(topic'[i])
    PROVE  Within(c)'
<1>1. sinkTopic \in 1 .. 3
  BY SinkTopicsAssumption DEF TypeOK
<1>2. \A i \in 1 .. 3 : Len(topic[i]) \in Nat /\ Len(topic'[i]) \in Nat
  BY DEF TypeOK
<1>3. c.map.offset \in Nat /\ c.sink.offset \in Nat /\ c.join.left \in Nat /\ c.join.right \in Nat
  BY DEF State, Position, JoinPosition
<1>4. Len(topic[1]) <= Len(topic'[1]) /\ Len(topic[2]) <= Len(topic'[2])
      /\ Len(topic[sinkTopic]) <= Len(topic'[sinkTopic])
  BY <1>1
<1>5. Len(topic[sinkTopic]) \in Nat /\ Len(topic'[sinkTopic]) \in Nat
  BY <1>1, <1>2
<1>6. /\ c.map.offset <= Len(topic[1]) /\ c.sink.offset <= Len(topic[sinkTopic])
      /\ c.join.left <= Len(topic[1]) /\ c.join.right <= Len(topic[2])
  BY DEF Within
<1>7. /\ Len(topic[1]) \in Nat /\ Len(topic'[1]) \in Nat
      /\ Len(topic[2]) \in Nat /\ Len(topic'[2]) \in Nat
  BY <1>2
<1>8. c.map.offset <= Len(topic'[1])
  BY <1>3, <1>4, <1>6, <1>7, Transitive
<1>9. c.join.left <= Len(topic'[1])
  BY <1>3, <1>4, <1>6, <1>7, Transitive
<1>10. c.join.right <= Len(topic'[2])
  BY <1>3, <1>4, <1>6, <1>7, Transitive
<1>11. c.sink.offset <= Len(topic'[sinkTopic])
  BY <1>3, <1>4, <1>5, <1>6, Transitive
<1> QED
  BY <1>8, <1>9, <1>10, <1>11 DEF Within

\* The parts of Typed after a step inside a call.
LEMMA TypedParts ==
    ASSUME topic' \in [1 .. 3 -> Seq(Item)],
           state' \in State, saved' \in State, Within(state)',
           saved'.map.offset <= state'.map.offset,
           saved'.sink.offset <= state'.sink.offset,
           SavedBehind',
           sinkTopic' \in SinkTopics, loaded' \in BOOLEAN,
           turn' \in Pullers \cup {"load"}, pc' \in {"pull", "ackWatermark", "ackOffset"},
           seen' \in [left : 0 .. EndOfStream, right : 0 .. EndOfStream],
           handled' \subseteq Item, faults' \in 0 .. MaxFaults, restored' \in BOOLEAN,
           Control'
    PROVE  Typed'
<1>1. TypeOK'
  BY DEF TypeOK, Within
<1> QED
  BY <1>1 DEF Typed

\* A step that ends a call: Control says nothing then.
LEMMA TypedAtPull ==
    ASSUME topic' \in [1 .. 3 -> Seq(Item)],
           state' \in State, saved' \in State, Within(state)',
           saved'.map.offset <= state'.map.offset,
           saved'.sink.offset <= state'.sink.offset,
           SavedBehind',
           sinkTopic' \in SinkTopics, loaded' \in BOOLEAN,
           turn' \in Pullers \cup {"load"}, pc' = "pull",
           seen' \in [left : 0 .. EndOfStream, right : 0 .. EndOfStream],
           handled' \subseteq Item, faults' \in 0 .. MaxFaults, restored' \in BOOLEAN
    PROVE  Typed'
<1>1. Control'
  BY DEF Control
<1> QED
  BY <1>1, TypedParts

LEMMA TypedInit == Init => Typed
<1> SUFFICES ASSUME Init PROVE Typed
  OBVIOUS
<1>1. topic = [k \in 1 .. 3 |-> <<>>] /\ topic \in [1 .. 3 -> Seq(Item)]
  BY DEF Init
<1>2. \A k \in 1 .. 3 : Len(topic[k]) = 0
  BY <1>1
<1>3. sinkTopic \in 1 .. 3 /\ sinkTopic \in SinkTopics
  BY SinkTopicsAssumption DEF Init
<1>4. state = NothingConsumed /\ saved = NothingConsumed
  BY DEF Init
<1>5. /\ \A s \in {"map", "sink"} : saved[s].offset <= state[s].offset
      /\ Within(state) /\ SavedBehind
  BY <1>2, <1>3, <1>4 DEF NothingConsumed, Within, SavedBehind
<1>6. TypeOK
  <2>1. seen \in [left : 0 .. EndOfStream, right : 0 .. EndOfStream]
    BY InputFacts DEF Init
  <2>2. faults \in 0 .. MaxFaults
    BY MaxFaultsAssumption DEF Init
  <2>3. /\ loaded \in BOOLEAN /\ restored \in BOOLEAN /\ handled \subseteq Item
        /\ turn \in Pullers \cup {"load"} /\ pc \in {"pull", "ackWatermark", "ackOffset"}
    BY DEF Init
  <2>4. state \in State /\ saved \in State
    BY <1>4, NothingIsState
  <2> QED
    BY <1>1, <1>3, <1>5, <2>1, <2>2, <2>3, <2>4 DEF TypeOK, Within
<1>7. Control
  BY DEF Init, Control
<1> QED
  BY <1>5, <1>6, <1>7 DEF Typed

\* A call that ends, with or without a fault, and items pushed before it did.
LEMMA TypedCallEnds ==
    ASSUME Typed, UNCHANGED <<state, sinkTopic, handled, restored>>,
           topic' \in [1 .. 3 -> Seq(Item)],
           \A i \in 1 .. 3 : Len(topic[i]) <= Len(topic'[i]),
           loaded' \in BOOLEAN,
           \/ Fault
           \/ /\ UNCHANGED <<saved, faults>>
              /\ \E s \in Pullers \cup {"load"} : Call(s)
    PROVE  Typed'
<1>1. Within(state)'
  <2>1. state \in State /\ Within(state)
    BY DEF Typed, TypeOK, Within
  <2>2. \A c \in State : Within(c) => Within(c)'
    BY WithinGrows DEF Typed
  <2> QED
    BY <2>1, <2>2 DEF Within
<1>2. saved' = saved \/ saved' = NothingConsumed
  BY FaultFacts DEF Typed, TypeOK
<1>3. /\ faults' \in 0 .. MaxFaults
      /\ turn' \in Pullers \cup {"load"} /\ pc' = "pull"
      /\ seen' \in [left : 0 .. EndOfStream, right : 0 .. EndOfStream]
  BY FaultFacts, CallFacts DEF Typed, TypeOK
<1>4. /\ saved' \in State
      /\ saved'.map.offset <= state'.map.offset
      /\ saved'.sink.offset <= state'.sink.offset
      /\ SavedBehind'
  <2>1. CASE saved' = saved
    BY <2>1 DEF Typed, TypeOK, SavedBehind
  <2>2. CASE saved' = NothingConsumed
    BY <2>2, NothingIsState
       DEF Typed, TypeOK, SavedBehind, NothingConsumed, State, Position, JoinPosition
  <2> QED
    BY <1>2, <2>1, <2>2
<1> QED
  BY <1>1, <1>3, <1>4, TypedAtPull DEF Typed, TypeOK

\* A call of a stage, or a part of it, that goes on.
LEMMA TypedPush ==
    ASSUME Typed, NEW k \in {2, 3}, NEW x \in Item, Push(k, x),
           turn \in {"map", "join"}, k = IF turn = "map" THEN 2 ELSE 3,
           CanPull(turn), pc' \in {"ackWatermark", "ackOffset"},
           pc' = "ackWatermark" => turn = "map" /\ Pulled.time # 0,
           UNCHANGED <<state, saved, sinkTopic, loaded, turn, seen, handled, faults, restored>>
    PROVE  Typed'
<1>1. /\ topic' \in [1 .. 3 -> Seq(Item)]
      /\ \A i \in 1 .. 3 : Len(topic[i]) <= Len(topic'[i])
  BY PushGrows DEF Typed
<1>2. Within(state)'
  <2>1. state \in State /\ Within(state)
    BY DEF Typed, TypeOK, Within
  <2>2. \A c \in State : Within(c) => Within(c)'
    BY <1>1, WithinGrows DEF Typed
  <2> QED
    BY <2>1, <2>2 DEF Within
<1>3. Control'
  <2>1. Offset < Len(Source)
    BY DEF CanPull
  <2>2. topic \in [1 .. 3 -> Seq(Item)] /\ topic'[1] = topic[1]
    BY DEF Typed, TypeOK, Push
  <2>3. CASE turn = "map"
    BY <2>1, <2>2, <2>3 DEF Control, Source, Offset, Pulled
  <2>4. CASE turn = "join"
    <3>1. topic'[2] = topic[2]
      BY <2>2, <2>4 DEF Push
    <3> QED
      BY <2>1, <2>2, <2>4, <3>1 DEF Control, Source, Offset, Pulled
  <2> QED
    BY <2>3, <2>4
<1> QED
  BY <1>1, <1>2, <1>3, TypedParts DEF Typed, TypeOK, SavedBehind

LEMMA TypedStep == Typed /\ [Next]_vars => Typed'
<1> SUFFICES ASSUME Typed, [Next]_vars PROVE Typed'
  OBVIOUS
<1>1. /\ topic \in [1 .. 3 -> Seq(Item)] /\ state \in State /\ saved \in State
      /\ \A i \in 1 .. 3 : Len(topic[i]) <= Len(topic[i])
      /\ Within(state) /\ loaded \in BOOLEAN
  BY DEF Typed, TypeOK, Within
<1>2. CASE Load
  <2>1. topic' = [topic EXCEPT ![1] = topic[1] \o Loading] /\ loaded' = TRUE /\ Call("map")
    BY <1>2 DEF Load
  <2>2. /\ topic' \in [1 .. 3 -> Seq(Item)]
        /\ \A i \in 1 .. 3 : Len(topic[i]) <= Len(topic'[i])
    BY <2>1, LoadingType, LoadGrows DEF Typed
  <2>3. /\ UNCHANGED <<state, saved, sinkTopic, handled, faults, restored>>
        /\ loaded' \in BOOLEAN
        /\ \E s \in Pullers \cup {"load"} : Call(s)
    BY <1>2, <2>1 DEF Load, Pullers
  <2> QED
    BY <2>2, <2>3, TypedCallEnds
<1>3. CASE LoadFails
  <2>1. PICK n \in 0 .. Len(Input) - 1 :
            topic' = [topic EXCEPT ![1] = topic[1] \o SubSeq(Loading, 1, n)]
    BY <1>3 DEF LoadFails
  <2>2. SubSeq(Loading, 1, n) \in Seq(Item)
    BY <2>1, LoadingType, InputFacts, SubSeqProperties
  <2>3. /\ topic' \in [1 .. 3 -> Seq(Item)]
        /\ \A i \in 1 .. 3 : Len(topic[i]) <= Len(topic'[i])
    BY <2>1, <2>2, LoadGrows DEF Typed
  <2>4. UNCHANGED <<state, sinkTopic, loaded, handled, restored>> /\ Fault
    BY <1>3 DEF LoadFails
  <2> QED
    BY <1>1, <2>3, <2>4, TypedCallEnds
<1>4. CASE LoadIsDone
  BY <1>1, <1>4, TypedCallEnds DEF LoadIsDone, Pullers
<1>5. CASE Return
  <2>1. turn \in Pullers \cup {"load"} /\ After[turn] \in Pullers \cup {"load"}
    BY AfterType DEF Typed, TypeOK
  <2> QED
    BY <1>1, <1>5, <2>1, TypedCallEnds DEF Return
<1>6. CASE CallFails
  BY <1>1, <1>6, TypedCallEnds DEF CallFails
<1>7. CASE Crash
  <2>1. state' = [state EXCEPT ![turn] = saved[turn]] /\ turn \in Pullers /\ Fault
    BY <1>7 DEF Crash
  <2>2. state' \in State /\ SavedBehind /\ \A s \in {"map", "sink"} : saved[s].offset <= state[s].offset
    BY <1>1, <2>1 DEF Typed, TypeOK, State, Pullers
  <2>3. /\ saved.map.offset \in Nat /\ saved.sink.offset \in Nat
        /\ saved.join.left \in Nat /\ saved.join.right \in Nat
        /\ state.map.offset \in Nat /\ state.sink.offset \in Nat
        /\ state.join.left \in Nat /\ state.join.right \in Nat
    BY <1>1 DEF State, Position, JoinPosition
  <2>8. sinkTopic \in 1 .. 3
    BY SinkTopicsAssumption DEF Typed, TypeOK
  <2>9. Len(topic[1]) \in Nat /\ Len(topic[2]) \in Nat /\ Len(topic[sinkTopic]) \in Nat
    BY <1>1, <2>8
  <2>4. /\ state'.map.offset <= state.map.offset /\ saved.map.offset <= state'.map.offset
        /\ state'.sink.offset <= state.sink.offset /\ saved.sink.offset <= state'.sink.offset
        /\ state'.join.left <= state.join.left /\ saved.join.left <= state'.join.left
        /\ state'.join.right <= state.join.right /\ saved.join.right <= state'.join.right
        /\ state'.map.offset \in Nat /\ state'.sink.offset \in Nat
        /\ state'.join.left \in Nat /\ state'.join.right \in Nat
    <3>1. /\ state'.map = state.map \/ state'.map = saved.map
          /\ state'.join = state.join \/ state'.join = saved.join
          /\ state'.sink = state.sink \/ state'.sink = saved.sink
      BY <1>1, <2>1 DEF State, Pullers
    <3>2. /\ saved.map.offset <= state.map.offset /\ saved.sink.offset <= state.sink.offset
          /\ saved.join.left <= state.join.left /\ saved.join.right <= state.join.right
      BY <2>2 DEF SavedBehind
    <3>3. /\ state'.map.offset <= state.map.offset /\ saved.map.offset <= state'.map.offset
          /\ state'.map.offset \in Nat
      BY <2>3, <3>1, <3>2
    <3>4. /\ state'.sink.offset <= state.sink.offset
          /\ saved.sink.offset <= state'.sink.offset /\ state'.sink.offset \in Nat
      BY <2>3, <3>1, <3>2
    <3>5. /\ state'.join.left <= state.join.left /\ saved.join.left <= state'.join.left
          /\ state'.join.left \in Nat
      BY <2>3, <3>1, <3>2
    <3>6. /\ state'.join.right <= state.join.right
          /\ saved.join.right <= state'.join.right /\ state'.join.right \in Nat
      BY <2>3, <3>1, <3>2
    <3> QED
      BY <3>3, <3>4, <3>5, <3>6
  <2>10. topic' = topic /\ sinkTopic' = sinkTopic
    BY <1>7 DEF Crash
  <2>11. /\ state.map.offset <= Len(topic[1]) /\ state.sink.offset <= Len(topic[sinkTopic])
        /\ state.join.left <= Len(topic[1]) /\ state.join.right <= Len(topic[2])
    BY <1>1 DEF Within
  <2>12. /\ state'.map.offset <= Len(topic[1]) /\ state'.sink.offset <= Len(topic[sinkTopic])
        /\ state'.join.left <= Len(topic[1]) /\ state'.join.right <= Len(topic[2])
    <3>1. state'.map.offset <= Len(topic[1])
      BY <2>3, <2>4, <2>9, <2>11, Transitive
    <3>2. state'.sink.offset <= Len(topic[sinkTopic])
      BY <2>3, <2>4, <2>9, <2>11, Transitive
    <3>3. state'.join.left <= Len(topic[1])
      BY <2>3, <2>4, <2>9, <2>11, Transitive
    <3>4. state'.join.right <= Len(topic[2])
      BY <2>3, <2>4, <2>9, <2>11, Transitive
    <3> QED
      BY <3>1, <3>2, <3>3, <3>4
  <2>5. Within(state)'
    BY <2>10, <2>12 DEF Within
  <2>6. /\ saved' \in State
        /\ saved'.map.offset <= state'.map.offset
        /\ saved'.sink.offset <= state'.sink.offset
        /\ SavedBehind'
    <3>1. saved' = saved \/ saved' = NothingConsumed
      BY <2>1, <2>2, FaultFacts DEF Typed
    <3>2. CASE saved' = saved
      BY <1>1, <2>4, <3>2 DEF SavedBehind
    <3>3. CASE saved' = NothingConsumed
      BY <2>4, <3>3, NothingIsState DEF SavedBehind, NothingConsumed
    <3> QED
      BY <3>1, <3>2, <3>3
  <2>7. /\ faults' \in 0 .. MaxFaults
        /\ turn' \in Pullers \cup {"load"} /\ pc' = "pull"
        /\ seen' \in [left : 0 .. EndOfStream, right : 0 .. EndOfStream]
    BY <2>1, <2>2, FaultFacts DEF Typed
  <2> QED
    BY <1>1, <1>7, <2>2, <2>5, <2>6, <2>7, TypedAtPull DEF Crash, Typed, TypeOK
<1>8. CASE Snapshot
  <2>1. saved' = [saved EXCEPT ![turn] = state[turn]] /\ turn \in Pullers
        /\ UNCHANGED <<topic, state, sinkTopic, loaded, turn, pc, seen, handled, faults, restored>>
    BY <1>8 DEF Snapshot
  <2>2. saved' \in State
    BY <1>1, <2>1 DEF State, Pullers
  <2>3. \A s \in {"map", "sink"} : saved[s].offset <= state[s].offset
    BY DEF Typed, TypeOK
  <2>4. /\ state.map.offset \in Nat /\ state.sink.offset \in Nat
        /\ state.join.left \in Nat /\ state.join.right \in Nat
    BY <1>1 DEF State, Position, JoinPosition
  <2>5. /\ saved'.map.offset <= state'.map.offset
        /\ saved'.sink.offset <= state'.sink.offset
        /\ SavedBehind'
    BY <1>1, <2>1, <2>3, <2>4 DEF Typed, SavedBehind, State, Pullers
  <2>6. Within(state)' /\ Control'
    BY <1>1, <2>1 DEF Typed, Within, Control, Source, Offset, Pulled
  <2> QED
    BY <1>1, <2>1, <2>2, <2>5, <2>6, TypedParts DEF Typed, TypeOK
<1>9. ASSUME NEW k \in {2, 3}, NEW x \in Item, Push(k, x),
             turn \in {"map", "join"}, k = IF turn = "map" THEN 2 ELSE 3,
             CanPull(turn), pc' \in {"ackWatermark", "ackOffset"},
             pc' = "ackWatermark" => turn = "map" /\ Pulled.time # 0,
             UNCHANGED <<state, saved, sinkTopic, loaded, turn, seen, handled, faults, restored>>
      PROVE  Typed'
  BY <1>9, TypedPush
<1>10. CASE MapRecord
  <2>1. CanPull("map") /\ Pulled.time = 0 /\ Push(2, Rec(Pulled.id, "map")) /\ turn = "map"
    BY <1>10 DEF MapRecord, CanPull
  <2>2. Pulled \in Item
    BY <2>1, SourceFacts DEF Typed, CanPull, Pullers
  <2>3. Rec(Pulled.id, "map") \in Item
    BY <2>1, <2>2, ItemFacts, RecIsItem
  <2> QED
    BY <1>9, <1>10, <2>1, <2>3 DEF MapRecord
<1>11. CASE MapWatermark
  <2>1. CanPull("map") /\ Pulled.time # 0 /\ turn = "map"
    BY <1>11 DEF MapWatermark, CanPull
  <2>2. Pulled \in Item
    BY <2>1, SourceFacts DEF Typed, CanPull, Pullers
  <2>3. Mark(Pulled.time) \in Item
    BY <2>1, <2>2, ItemFacts
  <2>4. CASE state.map.watermark >= Pulled.time
    <3>1. /\ pc' = "ackOffset"
          /\ UNCHANGED <<topic, state, saved, sinkTopic, loaded, turn, seen, handled, faults,
                         restored>>
      BY <1>11, <2>4 DEF MapWatermark
    <3>2. Within(state)' /\ Control'
      BY <1>1, <2>1, <3>1 DEF Within, Control, Source, Offset, CanPull
    <3> QED
      BY <1>1, <3>1, <3>2, TypedParts DEF Typed, TypeOK, SavedBehind
  <2>5. CASE ~(state.map.watermark >= Pulled.time)
    BY <1>9, <1>11, <2>1, <2>3, <2>5 DEF MapWatermark
  <2> QED
    BY <2>4, <2>5
<1>12. CASE AckWatermark
  <2>1. /\ state' = [state EXCEPT !.map.watermark = Pulled.time] /\ turn = "map"
        /\ pc = "ackWatermark" /\ pc' = "ackOffset"
        /\ UNCHANGED <<topic, saved, sinkTopic, loaded, turn, seen, handled, faults, restored>>
    BY <1>12 DEF AckWatermark
  <2>2. Offset < Len(Source) /\ Pulled \in Item
    BY <2>1, SourceFacts DEF Typed, Control, Pullers
  <2>3. Pulled.time \in 0 .. EndOfStream
    BY <2>2, ItemFacts
  <2>4. state' \in State
    BY <1>1, <2>1, <2>3 DEF State, Position
  <2>5. /\ state'.map.offset = state.map.offset /\ state'.sink = state.sink
        /\ state'.join = state.join
    BY <1>1, <2>1 DEF State, Position
  <2>6. Within(state)' /\ SavedBehind'
    BY <1>1, <2>1, <2>5 DEF Within, SavedBehind, Typed
  <2>7. Control'
    BY <2>1, <2>2, <2>5 DEF Control, Source, Offset
  <2> QED
    BY <1>1, <2>1, <2>4, <2>5, <2>6, <2>7, TypedParts DEF Typed, TypeOK
<1>13. CASE AckOffset
  <2>1. /\ state' = [state EXCEPT ![turn].offset = @ + 1] /\ turn \in {"map", "sink"}
        /\ pc = "ackOffset" /\ pc' = "pull"
        /\ UNCHANGED <<topic, saved, sinkTopic, loaded, turn, seen, handled, faults, restored>>
    BY <1>13 DEF AckOffset
  <2>2. Offset < Len(Source) /\ Source \in Seq(Item) /\ Offset \in Nat
    BY <2>1, SourceFacts DEF Typed, Control, Pullers
  <2>3. Offset + 1 <= Len(Source) /\ Len(Source) \in Nat
    BY <2>2
  <2>4. state' \in State
    <3>1. CASE turn = "map"
      <4>1. state.map \in Position
        BY <1>1 DEF State
      <4>2. [state.map EXCEPT !.offset = @ + 1] \in Position
        BY <4>1 DEF Position
      <4> QED
        BY <1>1, <2>1, <3>1, <4>2 DEF State
    <3>2. CASE turn = "sink"
      <4>1. state.sink \in Position
        BY <1>1 DEF State
      <4>2. [state.sink EXCEPT !.offset = @ + 1] \in Position
        BY <4>1 DEF Position
      <4> QED
        BY <1>1, <2>1, <3>2, <4>2 DEF State
    <3> QED
      BY <2>1, <3>1, <3>2
  <2>5. /\ \A s \in {"map", "sink"} : saved[s].offset <= state[s].offset
        /\ state.map.offset \in Nat /\ state.sink.offset \in Nat
        /\ saved.map.offset \in Nat /\ saved.sink.offset \in Nat
    BY <1>1 DEF Typed, TypeOK, State, Position
  <2>6. /\ saved'.map.offset <= state'.map.offset
        /\ saved'.sink.offset <= state'.sink.offset
        /\ state'.join = state.join
    BY <1>1, <2>1, <2>5 DEF State, Position
  <2>7. state'.map.offset <= Len(topic[1]) /\ state'.sink.offset <= Len(topic[sinkTopic])
    <3>1. CASE turn = "map"
      BY <1>1, <2>1, <2>3, <3>1 DEF Within, Source, Offset, State, Position
    <3>2. CASE turn = "sink"
      BY <1>1, <2>1, <2>3, <3>2 DEF Within, Source, Offset, State, Position
    <3> QED
      BY <2>1, <3>1, <3>2
  <2>8. Within(state)' /\ SavedBehind'
    BY <1>1, <2>1, <2>6, <2>7 DEF Within, SavedBehind, Typed
  <2> QED
    BY <1>1, <2>1, <2>4, <2>6, <2>8, TypedAtPull DEF Typed, TypeOK
<1>14. CASE JoinRecord
  <2>1. CanPull("join") /\ Push(3, Pulled) /\ turn = "join"
    BY <1>14 DEF JoinRecord, CanPull
  <2>2. Pulled \in Item
    BY <2>1, SourceFacts DEF Typed, CanPull, Pullers
  <2> QED
    BY <1>9, <1>14, <2>1, <2>2 DEF JoinRecord
<1>15. CASE JoinWatermark
  <2> DEFINE now == IF state.join.leftNext THEN [seen EXCEPT !.left = Pulled.time]
                    ELSE [seen EXCEPT !.right = Pulled.time]
             low == Lower(now.left, now.right)
  <2>1. CanPull("join") /\ Pulled.time # 0 /\ turn = "join" /\ seen' = now
        /\ pc' = "ackOffset"
        /\ UNCHANGED <<saved, sinkTopic, loaded, turn, handled, faults, restored>>
    BY <1>15 DEF JoinWatermark, CanPull
  <2>2. Pulled \in Item /\ Pulled.time \in 0 .. EndOfStream
    BY <2>1, SourceFacts, ItemFacts DEF Typed, CanPull, Pullers
  <2>3. now \in [left : 0 .. EndOfStream, right : 0 .. EndOfStream]
    BY <2>2 DEF Typed, TypeOK
  <2>4. low \in 0 .. EndOfStream
    BY <2>3 DEF Lower
  <2>5. \/ UNCHANGED <<topic, state>>
        \/ /\ state.join.watermark < low
           /\ Push(3, Mark(low))
           /\ state' = [state EXCEPT !.join.watermark = low]
    <3>1. state.join.watermark \in 0 .. EndOfStream
      BY <1>1 DEF State, JoinPosition
    <3> QED
      BY <1>15, <2>4, <3>1, InputFacts DEF JoinWatermark
  <2>6. /\ topic' \in [1 .. 3 -> Seq(Item)]
        /\ \A i \in 1 .. 3 : Len(topic[i]) <= Len(topic'[i])
        /\ topic'[1] = topic[1] /\ topic'[2] = topic[2]
    <3>1. CASE UNCHANGED <<topic, state>>
      BY <1>1, <3>1
    <3>2. CASE /\ state.join.watermark < low
               /\ Push(3, Mark(low))
      <4>1. state.join.watermark \in Nat
        BY <1>1 DEF State, JoinPosition
      <4>2. Mark(low) \in Item
        BY <2>4, <3>2, <4>1, MarkIsItem, InputFacts
      <4>3. topic'[1] = topic[1] /\ topic'[2] = topic[2]
        BY <1>1, <3>2 DEF Push
      <4> QED
        BY <3>2, <4>2, <4>3, PushGrows DEF Typed
    <3> QED
      BY <2>5, <3>1, <3>2
  <2>7. /\ state' \in State /\ state'.map = state.map /\ state'.sink = state.sink
        /\ state'.join.left = state.join.left /\ state'.join.right = state.join.right
        /\ state'.join.leftNext = state.join.leftNext
    BY <1>1, <2>4, <2>5 DEF State, JoinPosition
  <2>8. Within(state)'
    <3>1. \A c \in State : Within(c) => Within(c)'
      BY <2>1, <2>6, WithinGrows DEF Typed
    <3> QED
      BY <1>1, <2>7, <3>1 DEF Within
  <2>9. Control'
    BY <2>1, <2>6, <2>7 DEF Control, CanPull, Source, Offset
  <2> QED
    BY <1>1, <2>1, <2>3, <2>6, <2>7, <2>8, <2>9, TypedParts DEF Typed, TypeOK, SavedBehind
<1>16. CASE JoinAck
  <2>1. /\ state' = [state EXCEPT
                        !.join.left = IF state.join.leftNext THEN @ + 1 ELSE @,
                        !.join.right = IF state.join.leftNext THEN @ ELSE @ + 1,
                        !.join.leftNext = ~@]
        /\ turn = "join" /\ pc = "ackOffset" /\ pc' = "pull"
        /\ UNCHANGED <<topic, saved, sinkTopic, loaded, turn, seen, handled, faults, restored>>
    BY <1>16 DEF JoinAck
  <2>2. Offset < Len(Source) /\ Source \in Seq(Item) /\ Offset \in Nat
    BY <2>1, SourceFacts DEF Typed, Control, Pullers
  <2>3. Offset + 1 <= Len(Source) /\ Len(Source) \in Nat
    BY <2>2
  <2>4. state.join \in JoinPosition /\ saved.join \in JoinPosition
    BY <1>1 DEF State
  <2>5. /\ state'.map = state.map /\ state'.sink = state.sink
        /\ state'.join = [state.join EXCEPT
                             !.left = IF state.join.leftNext THEN @ + 1 ELSE @,
                             !.right = IF state.join.leftNext THEN @ ELSE @ + 1,
                             !.leftNext = ~@]
        /\ state' = [map |-> state'.map, join |-> state'.join, sink |-> state'.sink]
    BY <1>1, <2>1 DEF State
  <2>6. /\ state'.join \in JoinPosition
        /\ state'.join.left = IF state.join.leftNext THEN state.join.left + 1 ELSE state.join.left
        /\ state'.join.right = IF state.join.leftNext THEN state.join.right ELSE state.join.right + 1
    <3>1. /\ state.join.left \in Nat /\ state.join.right \in Nat
          /\ state.join.leftNext \in BOOLEAN
          /\ state.join.watermark \in 0 .. EndOfStream
      BY <2>4 DEF JoinPosition
    <3>2. state'.join = [left |-> IF state.join.leftNext THEN state.join.left + 1
                                  ELSE state.join.left,
                         right |-> IF state.join.leftNext THEN state.join.right
                                   ELSE state.join.right + 1,
                         leftNext |-> ~state.join.leftNext,
                         watermark |-> state.join.watermark]
      BY <2>4, <2>5 DEF JoinPosition
    <3> QED
      BY <3>1, <3>2 DEF JoinPosition
  <2>7. state' \in State
    BY <1>1, <2>5, <2>6 DEF State
  <2>8. state'.join.left <= Len(topic[1]) /\ state'.join.right <= Len(topic[2])
    BY <1>1, <2>1, <2>3, <2>4, <2>6 DEF Within, Source, Offset
  <2>9. SavedBehind'
    BY <2>1, <2>4, <2>6 DEF Typed, SavedBehind, JoinPosition
  <2>10. Within(state)'
    BY <1>1, <2>1, <2>5, <2>8 DEF Within
  <2> QED
    BY <1>1, <2>1, <2>5, <2>7, <2>9, <2>10, TypedAtPull DEF Typed, TypeOK
<1>17. CASE SinkRecord
  <2>1. /\ CanPull("sink") /\ turn = "sink" /\ pc' = "ackOffset"
        /\ handled' = handled \cup {Pulled}
        /\ UNCHANGED <<topic, state, saved, sinkTopic, loaded, turn, seen, faults, restored>>
    BY <1>17 DEF SinkRecord, CanPull
  <2>2. Pulled \in Item
    BY <2>1, SourceFacts DEF Typed, CanPull, Pullers
  <2>3. Within(state)' /\ Control'
    BY <1>1, <2>1 DEF Within, Control, Source, Offset, CanPull
  <2> QED
    BY <1>1, <2>1, <2>2, <2>3, TypedParts DEF Typed, TypeOK, SavedBehind
<1>18. CASE SinkWatermark
  <2>1. /\ CanPull("sink") /\ turn = "sink" /\ pc' = "ackOffset"
        /\ state' = [state EXCEPT !.sink.watermark = Pulled.time]
        /\ UNCHANGED <<topic, saved, sinkTopic, loaded, turn, seen, handled, faults, restored>>
    BY <1>18 DEF SinkWatermark, CanPull
  <2>2. Offset < Len(Source) /\ Pulled \in Item
    BY <2>1, SourceFacts DEF Typed, CanPull, Pullers
  <2>3. Pulled.time \in 0 .. EndOfStream
    BY <2>2, ItemFacts
  <2>4. state' \in State
    BY <1>1, <2>1, <2>3 DEF State, Position
  <2>5. /\ state'.sink.offset = state.sink.offset /\ state'.map = state.map
        /\ state'.join = state.join
    BY <1>1, <2>1 DEF State, Position
  <2>6. Within(state)' /\ SavedBehind'
    BY <1>1, <2>1, <2>5 DEF Within, SavedBehind, Typed
  <2>7. Control'
    BY <2>1, <2>2, <2>5 DEF Control, Source, Offset
  <2> QED
    BY <1>1, <2>1, <2>4, <2>5, <2>6, <2>7, TypedParts DEF Typed, TypeOK
<1>19. CASE UNCHANGED vars
  BY <1>19 DEF vars, Typed, TypeOK, Control, SavedBehind, Source, Offset, Pulled
<1> QED
  BY <1>2, <1>3, <1>4, <1>5, <1>6, <1>7, <1>8, <1>10, <1>11, <1>12, <1>13, <1>14, <1>15,
     <1>16, <1>17, <1>18, <1>19 DEF Next

LEMMA TypedAlways == Spec => []Typed
BY TypedInit, TypedStep, PTL DEF Spec

\* The types of the topics and of the state objects; every offset, also that of
\* every snapshot, lies in its topic.
THEOREM TypeCorrect == Spec => []TypeOK
<1>1. Typed => TypeOK
  BY DEF Typed
<1> QED
  BY <1>1, TypedAlways, PTL

-----------------------------------------------------------------------------
(* What offsets and watermarks stand for *)

Items(k) == {topic[k][q] : q \in 1 .. Len(topic[k])}

\* A record before an acknowledged offset is in the topic that the stage
\* writes, or was handled.
Mapped(c) ==
    \A q \in 1 .. c.map.offset :
        topic[1][q].time = 0 => Rec(topic[1][q].id, "map") \in Items(2)
JoinedLeft(c) ==
    \A q \in 1 .. c.join.left : topic[1][q].time = 0 => topic[1][q] \in Items(3)
JoinedRight(c) ==
    \A q \in 1 .. c.join.right : topic[2][q].time = 0 => topic[2][q] \in Items(3)
Sunk(c) ==
    \A q \in 1 .. c.sink.offset :
        topic[sinkTopic][q].time = 0 => topic[sinkTopic][q] \in handled

Delivered == Mapped(state) /\ JoinedLeft(state) /\ JoinedRight(state) /\ Sunk(state)

\* So is the one that is about to be acknowledged.
Handed ==
    pc = "ackOffset" /\ Pulled.time = 0 =>
        /\ turn = "map" => Rec(Pulled.id, "map") \in Items(2)
        /\ turn = "join" => Pulled \in Items(3)
        /\ turn = "sink" => Pulled \in handled

\* The records that the loader pushed before the first watermark of time t.
Due(t) == {i \in Records : \A j \in 1 .. i : Input[j] < t}

Promised(items, vias, t) == \A i \in Due(t) : \A via \in vias : Rec(i, via) \in items

\* What is due at a watermark is there: at those of the two sides of a join, at
\* the one it has pushed, and at the one the sink has seen; of snapshots, too.
KeptBy(c) ==
    /\ Promised(Items(3), {"load", "map"}, c.join.watermark)
    /\ Promised(handled, Ways(sinkTopic), c.sink.watermark)

Kept ==
    /\ Promised(Items(3), {"load"}, seen.left)
    /\ Promised(Items(3), {"map"}, seen.right)
    /\ KeptBy(state) /\ KeptBy(saved)

\* The p-th item of the sequence s, which is topic k, comes after what is
\* before it in the input.
SoundAt(k, x, before) ==
    /\ x.time = 0 => /\ x.via \in Ways(k)
                     /\ \A i \in Records : i < x.id => Rec(i, x.via) \in before
    /\ x.time # 0 => Promised(before, Ways(k), x.time)

Sound(k, s) == \A p \in 1 .. Len(s) : SoundAt(k, s[p], {s[q] : q \in 1 .. p - 1})

TopicsSound == \A k \in 1 .. 3 : Sound(k, topic[k])

\* The inductive invariant.
Faithful == Typed /\ TopicsSound /\ Delivered /\ Handed /\ Kept

LEMMA DueFacts ==
    /\ Due(0) = {}
    /\ \A s, t \in Nat : s <= t => Due(s) \subseteq Due(t)
<1>1. ASSUME NEW i \in Due(0) PROVE FALSE
  <2>1. i \in 1 .. Len(Input) /\ \A j \in 1 .. i : Input[j] < 0
    BY InputFacts DEF Due, Records
  <2>2. i \in 1 .. i
    BY <2>1, InputFacts
  <2>3. Input[i] < 0 /\ Input[i] \in Nat
    BY <2>1, <2>2, InputFacts
  <2> QED
    BY <2>3
<1>2. ASSUME NEW s \in Nat, NEW t \in Nat, s <= t, NEW i \in Due(s)
      PROVE  i \in Due(t)
  <2>1. i \in Records /\ i \in 1 .. Len(Input)
    BY InputFacts DEF Due, Records
  <2>2. ASSUME NEW j \in 1 .. i PROVE Input[j] < t
    <3>1. Input[j] < s
      BY <1>2 DEF Due
    <3>2. Input[j] \in Nat
      BY <2>1, InputFacts
    <3> QED
      BY <3>1, <3>2, <1>2
  <2> QED
    BY <2>1, <2>2 DEF Due
<1> QED
  BY <1>1, <1>2

-----------------------------------------------------------------------------
(* Topics that grow *)

LEMMA AppendSound ==
    ASSUME NEW k \in 1 .. 3, NEW s \in Seq(Item), NEW x \in Item,
           Sound(k, s), SoundAt(k, x, {s[q] : q \in 1 .. Len(s)})
    PROVE  Sound(k, Append(s, x))
<1> DEFINE t == Append(s, x)
<1>1. /\ Len(s) \in Nat /\ Len(t) = Len(s) + 1
      /\ \A q \in 1 .. Len(s) : t[q] = s[q]
      /\ t[Len(s) + 1] = x
  OBVIOUS
<1> HIDE DEF t
<1>2. ASSUME NEW p \in 1 .. Len(t)
      PROVE  SoundAt(k, t[p], {t[q] : q \in 1 .. p - 1})
  <2>1. CASE p <= Len(s)
    <3>1. p \in 1 .. Len(s) /\ t[p] = s[p]
      BY <1>1, <2>1
    <3>2. \A q \in 1 .. p - 1 : t[q] = s[q]
      BY <1>1, <3>1
    <3>3. {t[q] : q \in 1 .. p - 1} = {s[q] : q \in 1 .. p - 1}
      BY <3>2
    <3>4. SoundAt(k, s[p], {s[q] : q \in 1 .. p - 1})
      BY <3>1 DEF Sound
    <3> QED
      BY <3>1, <3>3, <3>4
  <2>2. CASE p = Len(s) + 1
    <3>1. p - 1 = Len(s) /\ t[p] = x
      BY <1>1, <2>2
    <3>2. {t[q] : q \in 1 .. p - 1} = {s[q] : q \in 1 .. Len(s)}
      BY <1>1, <3>1
    <3> QED
      BY <3>1, <3>2
  <2> QED
    BY <1>1, <2>1, <2>2
<1> QED
  BY <1>2 DEF Sound, t

\* A load pushes its data from the beginning.
LEMMA LoadSound ==
    ASSUME NEW s \in Seq(Item), Sound(1, s), NEW n \in 0 .. Len(Input)
    PROVE  Sound(1, s \o SubSeq(Loading, 1, n))
<1> DEFINE u == SubSeq(Loading, 1, n)
           t == s \o u
<1>1. u \in Seq(Item) /\ Len(u) = n /\ \A m \in 1 .. n : u[m] = Loading[m]
  BY LoadingType, InputFacts, SubSeqProperties
<1>2. \A m \in 1 .. n : u[m] = IF Input[m] = 0 THEN Rec(m, "load") ELSE Mark(Input[m])
  BY <1>1, InputFacts DEF Loading
<1> HIDE DEF u
<1>3. /\ Len(s) \in Nat /\ n \in Nat /\ Len(t) = Len(s) + n
      /\ \A q \in 1 .. Len(s) : t[q] = s[q]
      /\ \A m \in 1 .. n : t[Len(s) + m] = u[m]
  <2>1. Len(s) \in Nat /\ n \in Nat /\ Len(t) = Len(s) + n
    <3>1. Len(s) \in Nat /\ n \in Nat
      BY InputFacts, LenProperties
    <3> QED
      BY <1>1, <3>1, ConcatProperties
  <2>2. \A q \in 1 .. Len(s) + n : t[q] = IF q <= Len(s) THEN s[q] ELSE u[q - Len(s)]
    BY <1>1, ConcatProperties
  <2> HIDE DEF t
  <2>3. \A q \in 1 .. Len(s) : t[q] = s[q]
    BY <2>1, <2>2
  <2>4. ASSUME NEW m \in 1 .. n PROVE t[Len(s) + m] = u[m]
    <3>1. Len(s) + m \in 1 .. Len(s) + n /\ ~(Len(s) + m <= Len(s))
          /\ (Len(s) + m) - Len(s) = m
      BY <2>1
    <3> QED
      BY <2>2, <3>1
  <2> QED
    BY <2>1, <2>3, <2>4
<1> HIDE DEF t
<1>4. ASSUME NEW p \in 1 .. Len(t)
      PROVE  SoundAt(1, t[p], {t[q] : q \in 1 .. p - 1})
  <2>1. CASE p <= Len(s)
    <3>1. p \in 1 .. Len(s) /\ t[p] = s[p]
      BY <1>3, <2>1
    <3>2. \A q \in 1 .. p - 1 : t[q] = s[q]
      BY <1>3, <3>1
    <3>3. {t[q] : q \in 1 .. p - 1} = {s[q] : q \in 1 .. p - 1}
      BY <3>2
    <3>4. SoundAt(1, s[p], {s[q] : q \in 1 .. p - 1})
      BY <3>1 DEF Sound
    <3> QED
      BY <3>1, <3>3, <3>4
  <2>2. CASE p > Len(s)
    <3>1. PICK m \in 1 .. n : p = Len(s) + m
      <4>1. p - Len(s) \in 1 .. n /\ p = Len(s) + (p - Len(s))
        BY <1>3, <2>2
      <4> QED
        BY <4>1
    <3>2. t[p] = IF Input[m] = 0 THEN Rec(m, "load") ELSE Mark(Input[m])
      BY <1>2, <1>3, <3>1
    <3>3. ASSUME NEW i \in Records, i < m
          PROVE  Rec(i, "load") \in {t[q] : q \in 1 .. p - 1}
      <4>1. i \in 1 .. n /\ Input[i] = 0
        BY <3>3, InputFacts DEF Records
      <4>2. t[Len(s) + i] = Rec(i, "load")
        BY <1>2, <1>3, <4>1
      <4>3. Len(s) + i \in 1 .. p - 1
        BY <1>3, <3>1, <3>3, <4>1
      <4> QED
        BY <4>2, <4>3
    <3>4. CASE Input[m] = 0
      <4>1. t[p].time = 0 /\ t[p].id = m /\ t[p].via = "load"
        BY <3>2, <3>4 DEF Rec
      <4> QED
        BY <3>3, <4>1 DEF SoundAt, Ways
    <3>5. CASE Input[m] # 0
      <4>1. t[p].time = Input[m]
        BY <3>2, <3>5 DEF Mark
      <4>2. ASSUME NEW i \in Due(Input[m]) PROVE i < m
        <5>1. i \in 1 .. Len(Input) /\ m \in 1 .. Len(Input)
              /\ \A j \in 1 .. i : Input[j] < Input[m]
          BY InputFacts, <1>3 DEF Due, Records
        <5>2. CASE m <= i
          <6>1. Input[m] < Input[m] /\ Input[m] \in Nat
            BY <5>1, <5>2, InputFacts
          <6> QED
            BY <6>1
        <5> QED
          BY <5>1, <5>2
      <4>3. ASSUME NEW i \in Due(Input[m]) PROVE i \in Records
        BY DEF Due
      <4>4. Promised({t[q] : q \in 1 .. p - 1}, {"load"}, Input[m])
        BY <3>3, <4>2, <4>3 DEF Promised
      <4> QED
        BY <3>5, <4>1, <4>4 DEF SoundAt, Ways
    <3> QED
      BY <3>4, <3>5
  <2> QED
    BY <1>3, <2>1, <2>2
<1> QED
  BY <1>4 DEF Sound, t, u

\* What a step does to the topics and to what the sink has handled.
Grown ==
    /\ \A k \in 1 .. 3 : /\ Len(topic[k]) <= Len(topic'[k])
                         /\ \A q \in 1 .. Len(topic[k]) : topic'[k][q] = topic[k][q]
    /\ handled \subseteq handled'
    /\ sinkTopic' = sinkTopic

LEMMA PushedGrown ==
    ASSUME Typed, NEW k \in 1 .. 3, NEW x \in Item, Push(k, x),
           handled' = handled, sinkTopic' = sinkTopic
    PROVE  Grown
<1>1. topic \in [1 .. 3 -> Seq(Item)] /\ topic' = [topic EXCEPT ![k] = Append(topic[k], x)]
  BY DEF Typed, TypeOK, Push
<1>2. /\ Len(topic[k]) <= Len(Append(topic[k], x))
      /\ \A q \in 1 .. Len(topic[k]) : Append(topic[k], x)[q] = topic[k][q]
  BY <1>1
<1>3. \A i \in 1 .. 3 : Len(topic[i]) \in Nat
  BY <1>1
<1> QED
  BY <1>1, <1>2, <1>3 DEF Grown

LEMMA LoadedGrown ==
    ASSUME Typed, NEW s \in Seq(Item), topic' = [topic EXCEPT ![1] = topic[1] \o s],
           handled' = handled, sinkTopic' = sinkTopic
    PROVE  Grown
<1>1. topic \in [1 .. 3 -> Seq(Item)]
  BY DEF Typed, TypeOK
<1>2. /\ Len(topic[1]) <= Len(topic[1] \o s)
      /\ \A q \in 1 .. Len(topic[1]) : (topic[1] \o s)[q] = topic[1][q]
  BY <1>1
<1>3. \A i \in 1 .. 3 : Len(topic[i]) \in Nat
  BY <1>1
<1> QED
  BY <1>1, <1>2, <1>3 DEF Grown

LEMMA StaysGrown ==
    ASSUME Typed, topic' = topic, handled \subseteq handled', sinkTopic' = sinkTopic
    PROVE  Grown
<1>1. \A i \in 1 .. 3 : Len(topic[i]) \in Nat
  BY DEF Typed, TypeOK
<1> QED
  BY <1>1 DEF Grown

\* What a stage pulls is sound where it is put.
LEMMA MapSees ==
    ASSUME Typed, TopicsSound, Mapped(state), turn = "map", Offset < Len(Source)
    PROVE  /\ Pulled.time = 0 => SoundAt(2, Rec(Pulled.id, "map"), Items(2))
           /\ Pulled.time # 0 => SoundAt(2, Mark(Pulled.time), Items(2))
<1> DEFINE o == state.map.offset
           s == topic[1]
<1>1. Source = s /\ Offset = o /\ Pulled = s[o + 1]
  BY DEF Source, Offset, Pulled
<1>2. o \in Nat /\ o + 1 \in 1 .. Len(s) /\ Pulled \in Item /\ (o + 1) - 1 = o
  BY <1>1, SourceFacts DEF Typed, Pullers
<1>3. SoundAt(1, Pulled, {s[q] : q \in 1 .. (o + 1) - 1})
  <2>1. Sound(1, s)
    BY DEF TopicsSound
  <2>2. \A p \in 1 .. Len(s) : SoundAt(1, s[p], {s[q] : q \in 1 .. p - 1})
    BY <2>1 DEF Sound
  <2> QED
    BY <1>1, <1>2, <2>2
<1>4. SoundAt(1, Pulled, {s[q] : q \in 1 .. o})
  BY <1>2, <1>3
<1>5. ASSUME NEW i \in Records, Rec(i, "load") \in {s[q] : q \in 1 .. o}
      PROVE  Rec(i, "map") \in Items(2)
  <2>1. PICK q \in 1 .. o : s[q] = Rec(i, "load")
    BY <1>5
  <2>2. s[q].time = 0 /\ s[q].id = i
    BY <2>1 DEF Rec
  <2> QED
    BY <2>2 DEF Mapped
<1>6. CASE Pulled.time = 0
  <2>1. Pulled.via = "load" /\ \A i \in Records : i < Pulled.id => Rec(i, "load") \in {s[q] : q \in 1 .. o}
    BY <1>4, <1>6 DEF SoundAt, Ways
  <2>2. \A i \in Records : i < Pulled.id => Rec(i, "map") \in Items(2)
    BY <1>5, <2>1
  <2>3. /\ Rec(Pulled.id, "map").time = 0 /\ Rec(Pulled.id, "map").id = Pulled.id
        /\ Rec(Pulled.id, "map").via = "map"
    BY DEF Rec
  <2> QED
    BY <1>6, <2>2, <2>3 DEF SoundAt, Ways
<1>7. CASE Pulled.time # 0
  <2>1. Promised({s[q] : q \in 1 .. o}, {"load"}, Pulled.time)
    BY <1>4, <1>7 DEF SoundAt, Ways
  <2>2. Promised(Items(2), {"map"}, Pulled.time)
    BY <1>5, <2>1 DEF Promised, Due
  <2>3. Mark(Pulled.time).time = Pulled.time
    BY DEF Mark
  <2> QED
    BY <1>7, <2>2, <2>3 DEF SoundAt, Ways
<1> QED
  BY <1>6, <1>7

LEMMA JoinSees ==
    ASSUME Typed, TopicsSound, JoinedLeft(state), JoinedRight(state), turn = "join",
           Offset < Len(Source)
    PROVE  /\ Pulled.time = 0 => SoundAt(3, Pulled, Items(3))
           /\ Pulled.time # 0 =>
                  Promised(Items(3), {IF state.join.leftNext THEN "load" ELSE "map"}, Pulled.time)
<1> DEFINE k == IF state.join.leftNext THEN 1 ELSE 2
           via == IF state.join.leftNext THEN "load" ELSE "map"
           o == IF state.join.leftNext THEN state.join.left ELSE state.join.right
           s == topic[k]
<1>1. Source = s /\ Offset = o /\ Pulled = s[o + 1]
  BY DEF Source, Offset, Pulled
<1>2. o \in Nat /\ o + 1 \in 1 .. Len(s) /\ Pulled \in Item /\ (o + 1) - 1 = o
  BY <1>1, SourceFacts DEF Typed, Pullers
<1>3. SoundAt(k, Pulled, {s[q] : q \in 1 .. (o + 1) - 1})
  <2>1. Sound(k, s)
    BY DEF TopicsSound
  <2>2. \A p \in 1 .. Len(s) : SoundAt(k, s[p], {s[q] : q \in 1 .. p - 1})
    BY <2>1 DEF Sound
  <2> QED
    BY <1>1, <1>2, <2>2
<1>4. SoundAt(k, Pulled, {s[q] : q \in 1 .. o}) /\ Ways(k) = {via}
  <2>1. Ways(k) = {via}
    BY DEF Ways
  <2> QED
    BY <1>2, <1>3, <2>1
<1>5. ASSUME NEW x \in {s[q] : q \in 1 .. o}, x.time = 0
      PROVE  x \in Items(3)
  BY <1>5 DEF JoinedLeft, JoinedRight
<1>6. \A i, v : Rec(i, v).time = 0
  BY DEF Rec
<1> HIDE DEF s, k, o
<1>7. CASE Pulled.time = 0
  <2>1. /\ Pulled.via = via
        /\ \A i \in Records : i < Pulled.id => Rec(i, Pulled.via) \in {s[q] : q \in 1 .. o}
    BY <1>4, <1>7 DEF SoundAt
  <2>2. \A i \in Records : i < Pulled.id => Rec(i, Pulled.via) \in Items(3)
    BY <1>5, <1>6, <2>1
  <2> QED
    BY <1>7, <2>1, <2>2 DEF SoundAt, Ways
<1>8. CASE Pulled.time # 0
  <2>1. Promised({s[q] : q \in 1 .. o}, {via}, Pulled.time)
    BY <1>4, <1>8 DEF SoundAt
  <2>2. Promised(Items(3), {via}, Pulled.time)
    BY <1>5, <1>6, <2>1 DEF Promised
  <2> QED
    BY <1>8, <2>2
<1> QED
  BY <1>7, <1>8

LEMMA SinkSees ==
    ASSUME Typed, TopicsSound, Sunk(state), turn = "sink", Offset < Len(Source),
           Pulled.time # 0
    PROVE  Promised(handled, Ways(sinkTopic), Pulled.time)
<1> DEFINE o == state.sink.offset
           s == topic[sinkTopic]
<1>1. Source = s /\ Offset = o /\ Pulled = s[o + 1] /\ sinkTopic \in 1 .. 3
  BY SinkTopicsAssumption DEF Source, Offset, Pulled, Typed, TypeOK
<1>2. o \in Nat /\ o + 1 \in 1 .. Len(s) /\ (o + 1) - 1 = o
  BY <1>1, SourceFacts DEF Typed, Pullers
<1>3. SoundAt(sinkTopic, Pulled, {s[q] : q \in 1 .. (o + 1) - 1})
  BY <1>1, <1>2 DEF TopicsSound, Sound
<1>4. Promised({s[q] : q \in 1 .. o}, Ways(sinkTopic), Pulled.time)
  BY <1>2, <1>3 DEF SoundAt
<1>5. ASSUME NEW x \in {s[q] : q \in 1 .. o}, x.time = 0
      PROVE  x \in handled
  BY <1>5 DEF Sunk
<1>6. \A i, v : Rec(i, v).time = 0
  BY DEF Rec
<1> QED
  BY <1>4, <1>5, <1>6 DEF Promised

\* How a step changes the topics, and that each keeps what Sound says of it.
LEMMA TopicStep ==
    ASSUME Typed, TopicsSound, Delivered, Kept, [Next]_vars
    PROVE  Grown /\ TopicsSound'
<1> USE DEF Typed
<1>1. topic \in [1 .. 3 -> Seq(Item)] /\ \A k \in 1 .. 3 : Sound(k, topic[k])
  BY DEF TypeOK, TopicsSound
<1>2. ASSUME NEW k \in 1 .. 3, NEW x \in Item, Push(k, x), SoundAt(k, x, Items(k))
      PROVE  TopicsSound'
  <2>1. topic' = [topic EXCEPT ![k] = Append(topic[k], x)]
    BY <1>2 DEF Push
  <2>2. Sound(k, Append(topic[k], x))
    BY <1>1, <1>2, AppendSound DEF Items
  <2>3. \A i \in 1 .. 3 : Sound(i, topic'[i])
    BY <1>1, <2>1, <2>2
  <2> QED
    BY <2>3 DEF TopicsSound, Sound, SoundAt, Promised
<1>3. ASSUME NEW n \in 0 .. Len(Input),
             topic' = [topic EXCEPT ![1] = topic[1] \o SubSeq(Loading, 1, n)]
      PROVE  TopicsSound'
  <2>1. Sound(1, topic[1] \o SubSeq(Loading, 1, n))
    BY <1>1, LoadSound
  <2>2. \A i \in 1 .. 3 : Sound(i, topic'[i])
    BY <1>1, <1>3, <2>1
  <2> QED
    BY <2>2 DEF TopicsSound, Sound, SoundAt, Promised
<1>4. ASSUME topic' = topic PROVE TopicsSound'
  <2>1. \A i \in 1 .. 3 : Sound(i, topic'[i])
    BY <1>1, <1>4
  <2> QED
    BY <2>1 DEF TopicsSound, Sound, SoundAt, Promised
<1>5. CASE Load
  <2>1. SubSeq(Loading, 1, Len(Input)) = Loading /\ Len(Input) \in 0 .. Len(Input)
    BY LoadingType, InputFacts, SubSeqFull
  <2>2. topic' = [topic EXCEPT ![1] = topic[1] \o Loading]
        /\ handled' = handled /\ sinkTopic' = sinkTopic
    BY <1>5 DEF Load
  <2> QED
    BY <1>3, <2>1, <2>2, LoadingType, LoadedGrown
<1>6. CASE LoadFails
  <2>1. PICK n \in 0 .. Len(Input) - 1 :
            topic' = [topic EXCEPT ![1] = topic[1] \o SubSeq(Loading, 1, n)]
    BY <1>6 DEF LoadFails
  <2>2. SubSeq(Loading, 1, n) \in Seq(Item) /\ n \in 0 .. Len(Input)
    BY <2>1, LoadingType, InputFacts, SubSeqProperties
  <2>3. handled' = handled /\ sinkTopic' = sinkTopic
    BY <1>6 DEF LoadFails
  <2> QED
    BY <1>3, <2>1, <2>2, <2>3, LoadedGrown
<1>7. ASSUME UNCHANGED <<topic, sinkTopic>>, handled \subseteq handled'
      PROVE  Grown /\ TopicsSound'
  BY <1>4, <1>7, StaysGrown
<1>8. CASE LoadIsDone \/ Return \/ CallFails \/ Crash \/ Snapshot
  BY <1>7, <1>8 DEF LoadIsDone, Return, CallFails, Crash, Snapshot
<1>9. CASE AckWatermark \/ AckOffset \/ JoinAck \/ SinkRecord \/ SinkWatermark
  BY <1>7, <1>9 DEF AckWatermark, AckOffset, JoinAck, SinkRecord, SinkWatermark
<1>10. CASE UNCHANGED vars
  BY <1>7, <1>10 DEF vars
<1>11. CASE MapRecord
  <2>1. /\ CanPull("map") /\ Pulled.time = 0 /\ Push(2, Rec(Pulled.id, "map"))
        /\ turn = "map" /\ Offset < Len(Source)
        /\ handled' = handled /\ sinkTopic' = sinkTopic
    BY <1>11 DEF MapRecord, CanPull
  <2>2. Rec(Pulled.id, "map") \in Item
    <3>1. Pulled \in Item
      BY <2>1, SourceFacts DEF Pullers
    <3> QED
      BY <2>1, <3>1, ItemFacts, RecIsItem
  <2>3. SoundAt(2, Rec(Pulled.id, "map"), Items(2))
    BY <2>1, MapSees DEF Delivered
  <2> QED
    BY <1>2, <2>1, <2>2, <2>3, PushedGrown
<1>12. CASE MapWatermark
  <2>1. /\ CanPull("map") /\ Pulled.time # 0 /\ turn = "map" /\ Offset < Len(Source)
        /\ handled' = handled /\ sinkTopic' = sinkTopic
        /\ topic' = topic \/ Push(2, Mark(Pulled.time))
    BY <1>12 DEF MapWatermark, CanPull
  <2>2. Mark(Pulled.time) \in Item
    <3>1. Pulled \in Item
      BY <2>1, SourceFacts DEF Pullers
    <3> QED
      BY <2>1, <3>1, ItemFacts
  <2>3. SoundAt(2, Mark(Pulled.time), Items(2))
    BY <2>1, MapSees DEF Delivered
  <2> QED
    BY <1>2, <1>7, <2>1, <2>2, <2>3, PushedGrown
<1>13. CASE JoinRecord
  <2>1. /\ CanPull("join") /\ Pulled.time = 0 /\ Push(3, Pulled)
        /\ turn = "join" /\ Offset < Len(Source)
        /\ handled' = handled /\ sinkTopic' = sinkTopic
    BY <1>13 DEF JoinRecord, CanPull
  <2>2. Pulled \in Item
    BY <2>1, SourceFacts DEF Pullers
  <2>3. SoundAt(3, Pulled, Items(3))
    BY <2>1, JoinSees DEF Delivered
  <2> QED
    BY <1>2, <2>1, <2>2, <2>3, PushedGrown
<1>14. CASE JoinWatermark
  <2>1. /\ CanPull("join") /\ Pulled.time # 0 /\ turn = "join" /\ Offset < Len(Source)
        /\ handled' = handled /\ sinkTopic' = sinkTopic
        /\ topic' = topic \/ (/\ Push(3, Mark(Lower(seen'.left, seen'.right)))
                              /\ ~(state.join.watermark >= Lower(seen'.left, seen'.right)))
    BY <1>14 DEF JoinWatermark, CanPull
  <2> DEFINE low == Lower(seen'.left, seen'.right)
  <2>2. /\ seen.left \in Nat /\ seen.right \in Nat /\ Pulled.time \in Nat
        /\ seen'.left \in Nat /\ seen'.right \in Nat
        /\ seen'.left = IF state.join.leftNext THEN Pulled.time ELSE seen.left
        /\ seen'.right = IF state.join.leftNext THEN seen.right ELSE Pulled.time
    <3>1. Pulled \in Item
      BY <2>1, SourceFacts DEF Pullers
    <3>2. Pulled.time \in Nat
      BY <3>1, ItemFacts
    <3>3. seen \in [left : 0 .. EndOfStream, right : 0 .. EndOfStream]
      BY DEF TypeOK
    <3>4. seen' = IF state.join.leftNext THEN [seen EXCEPT !.left = Pulled.time]
                  ELSE [seen EXCEPT !.right = Pulled.time]
      BY <1>14 DEF JoinWatermark
    <3>5. seen.left \in Nat /\ seen.right \in Nat
      BY <3>3, InputFacts
    <3>6. CASE state.join.leftNext
      <4>1. seen' = [seen EXCEPT !.left = Pulled.time]
        BY <3>4, <3>6
      <4>2. seen'.left = Pulled.time /\ seen'.right = seen.right
        BY <3>3, <4>1
      <4> QED
        BY <3>2, <3>5, <3>6, <4>2
    <3>7. CASE ~state.join.leftNext
      <4>1. seen' = [seen EXCEPT !.right = Pulled.time]
        BY <3>4, <3>7
      <4>2. seen'.left = seen.left /\ seen'.right = Pulled.time
        BY <3>3, <4>1
      <4>3. (IF state.join.leftNext THEN Pulled.time ELSE seen.left) = seen.left
            /\ (IF state.join.leftNext THEN seen.right ELSE Pulled.time) = Pulled.time
        BY <3>7
      <4> QED
        BY <3>2, <3>5, <4>2, <4>3
    <3> QED
      BY <3>6, <3>7
  <2>3. /\ Promised(Items(3), {"load"}, seen'.left)
        /\ Promised(Items(3), {"map"}, seen'.right)
    <3>1. Promised(Items(3), {IF state.join.leftNext THEN "load" ELSE "map"}, Pulled.time)
      BY <2>1, JoinSees DEF Delivered
    <3>2. Promised(Items(3), {"load"}, seen.left) /\ Promised(Items(3), {"map"}, seen.right)
      BY DEF Kept
    <3>3. CASE state.join.leftNext
      <4>1. {IF state.join.leftNext THEN "load" ELSE "map"} = {"load"}
        BY <3>3
      <4>2. Promised(Items(3), {"load"}, Pulled.time)
        BY <3>1, <4>1
      <4>3. seen'.left = Pulled.time /\ seen'.right = seen.right
        BY <2>2, <3>3
      <4> QED
        BY <3>2, <4>2, <4>3
    <3>4. CASE ~state.join.leftNext
      <4>1. {IF state.join.leftNext THEN "load" ELSE "map"} = {"map"}
        BY <3>4
      <4>2. Promised(Items(3), {"map"}, Pulled.time)
        BY <3>1, <4>1
      <4>3. seen'.left = seen.left /\ seen'.right = Pulled.time
        BY <2>2, <3>4
      <4> QED
        BY <3>2, <4>2, <4>3
    <3> QED
      BY <3>3, <3>4
  <2>4. low \in Nat /\ low <= seen'.left /\ low <= seen'.right
    BY <2>2 DEF Lower
  <2>5. Due(low) \subseteq Due(seen'.left) /\ Due(low) \subseteq Due(seen'.right)
    BY <2>2, <2>4, DueFacts
  <2>6. Promised(Items(3), {"load", "map"}, low)
    BY <2>3, <2>5 DEF Promised
  <2>7. CASE Push(3, Mark(low)) /\ ~(state.join.watermark >= low)
    <3>1. state.join.watermark \in Nat
      BY InputFacts DEF TypeOK, State, JoinPosition
    <3>2. low # 0 /\ low \in 1 .. EndOfStream
      <4>1. seen'.left <= EndOfStream
        BY TypedStep DEF TypeOK
      <4> QED
        BY <2>2, <2>4, <2>7, <3>1, <4>1, InputFacts
    <3>3. Mark(low) \in Item
      BY <3>2, MarkIsItem
    <3>4. SoundAt(3, Mark(low), Items(3))
      BY <2>6, <3>2 DEF SoundAt, Ways, Mark
    <3> QED
      BY <1>2, <2>1, <2>7, <3>3, <3>4, PushedGrown
  <2> QED
    BY <1>7, <2>1, <2>7
<1> QED
  BY <1>5, <1>6, <1>8, <1>9, <1>10, <1>11, <1>12, <1>13, <1>14 DEF Next

-----------------------------------------------------------------------------
(* What was acknowledged *)

LEMMA ItemsGrow ==
    ASSUME Typed, Typed', Grown
    PROVE  \A k \in 1 .. 3 : Items(k) \subseteq Items(k)'
<1> SUFFICES ASSUME NEW k \in 1 .. 3, NEW q \in 1 .. Len(topic[k])
             PROVE  topic[k][q] \in Items(k)'
  BY DEF Items
<1>1. Len(topic[k]) \in Nat /\ Len(topic'[k]) \in Nat
  <2>1. topic \in [1 .. 3 -> Seq(Item)] /\ topic' \in [1 .. 3 -> Seq(Item)]
    BY DEF Typed, TypeOK
  <2> QED
    BY <2>1
<1>2. topic'[k][q] = topic[k][q] /\ Len(topic[k]) <= Len(topic'[k])
  BY DEF Grown
<1>3. q \in 1 .. Len(topic'[k])
  BY <1>1, <1>2, Shorter
<1> QED
  BY <1>2, <1>3 DEF Items

\* Sources and offsets as numbers.
LEMMA OffsetFacts ==
    ASSUME Typed
    PROVE  /\ state.map.offset \in Nat /\ state.map.offset <= Len(topic[1])
           /\ state.join.left \in Nat /\ state.join.left <= Len(topic[1])
           /\ state.join.right \in Nat /\ state.join.right <= Len(topic[2])
           /\ state.sink.offset \in Nat /\ state.sink.offset <= Len(topic[sinkTopic])
           /\ \A k \in 1 .. 3 : Len(topic[k]) \in Nat
           /\ sinkTopic \in 1 .. 3
<1>1. state \in State /\ sinkTopic \in 1 .. 3 /\ topic \in [1 .. 3 -> Seq(Item)]
  BY SinkTopicsAssumption DEF Typed, TypeOK
<1>2. /\ state.map.offset \in Nat /\ state.sink.offset \in Nat
      /\ state.join.left \in Nat /\ state.join.right \in Nat
  BY <1>1 DEF State, Position, JoinPosition
<1> QED
  BY <1>1, <1>2 DEF Typed, TypeOK

\* Going back to an older offset, or staying, keeps Delivered.
LEMMA DeliveredKept ==
    ASSUME Typed, Typed', Grown, Delivered,
           state'.map.offset <= state.map.offset,
           state'.join.left <= state.join.left, state'.join.right <= state.join.right,
           state'.sink.offset <= state.sink.offset
    PROVE  Delivered'
<1>1. /\ state'.map.offset \in Nat /\ state'.join.left \in Nat /\ state'.join.right \in Nat
      /\ state'.sink.offset \in Nat
  <2>1. state' \in State
    BY DEF Typed, TypeOK
  <2> QED
    BY <2>1 DEF State, Position, JoinPosition
<1>2. Mapped(state)'
  <2> SUFFICES ASSUME NEW q \in 1 .. state'.map.offset, topic'[1][q].time = 0
               PROVE  Rec(topic'[1][q].id, "map") \in Items(2)'
    BY DEF Mapped
  <2>1. q \in 1 .. state.map.offset /\ topic'[1][q] = topic[1][q]
    <3>1. q \in 1 .. state.map.offset
      BY <1>1, OffsetFacts, Shorter
    <3>2. q \in 1 .. Len(topic[1])
      BY <3>1, OffsetFacts, Shorter
    <3> QED
      BY <3>1, <3>2, OffsetFacts DEF Grown
  <2> QED
    BY <2>1, ItemsGrow DEF Delivered, Mapped
<1>3. JoinedLeft(state)'
  <2> SUFFICES ASSUME NEW q \in 1 .. state'.join.left, topic'[1][q].time = 0
               PROVE  topic'[1][q] \in Items(3)'
    BY DEF JoinedLeft
  <2>1. q \in 1 .. state.join.left /\ topic'[1][q] = topic[1][q]
    <3>1. q \in 1 .. state.join.left
      BY <1>1, OffsetFacts, Shorter
    <3>2. q \in 1 .. Len(topic[1])
      BY <3>1, OffsetFacts, Shorter
    <3> QED
      BY <3>1, <3>2, OffsetFacts DEF Grown
  <2> QED
    BY <2>1, ItemsGrow DEF Delivered, JoinedLeft
<1>4. JoinedRight(state)'
  <2> SUFFICES ASSUME NEW q \in 1 .. state'.join.right, topic'[2][q].time = 0
               PROVE  topic'[2][q] \in Items(3)'
    BY DEF JoinedRight
  <2>1. q \in 1 .. state.join.right /\ topic'[2][q] = topic[2][q]
    <3>1. q \in 1 .. state.join.right
      BY <1>1, OffsetFacts, Shorter
    <3>2. q \in 1 .. Len(topic[2])
      BY <3>1, OffsetFacts, Shorter
    <3> QED
      BY <3>1, <3>2, OffsetFacts DEF Grown
  <2> QED
    BY <2>1, ItemsGrow DEF Delivered, JoinedRight
<1>5. Sunk(state)'
  <2> SUFFICES ASSUME NEW q \in 1 .. state'.sink.offset, topic'[sinkTopic'][q].time = 0
               PROVE  topic'[sinkTopic'][q] \in handled'
    BY DEF Sunk
  <2>1. q \in 1 .. state.sink.offset /\ topic'[sinkTopic'][q] = topic[sinkTopic][q]
    <3>1. q \in 1 .. state.sink.offset
      BY <1>1, OffsetFacts, Shorter
    <3>2. q \in 1 .. Len(topic[sinkTopic])
      BY <3>1, OffsetFacts, Shorter
    <3> QED
      BY <3>1, <3>2, OffsetFacts DEF Grown
  <2> QED
    BY <2>1 DEF Delivered, Sunk, Grown
<1> QED
  BY <1>2, <1>3, <1>4, <1>5 DEF Delivered

\* Acknowledging the offset of what was handed on.
LEMMA DeliveredAcked ==
    ASSUME Typed, Typed', Delivered, Handed, pc = "ackOffset",
           UNCHANGED <<topic, sinkTopic, handled>>,
           AckOffset \/ JoinAck
    PROVE  Delivered'
<1>1. Items(2)' = Items(2) /\ Items(3)' = Items(3)
  BY DEF Items
<1>2. state \in State /\ state.map \in Position /\ state.sink \in Position
      /\ state.join \in JoinPosition
  BY DEF Typed, TypeOK, State
<1>3. CASE AckOffset /\ turn = "map"
  <2>1. state' = [state EXCEPT !.map = [state.map EXCEPT !.offset = state.map.offset + 1]]
    BY <1>2, <1>3 DEF AckOffset, State, Position
  <2>2. state'.map.offset = state.map.offset + 1 /\ state'.join = state.join
        /\ state'.sink = state.sink
    BY <1>2, <2>1 DEF State, Position
  <2>3. Pulled = topic[1][state.map.offset + 1]
    BY <1>3 DEF Pulled, Source, Offset
  <2>4. Mapped(state)'
    <3> SUFFICES ASSUME NEW q \in 1 .. state.map.offset + 1, topic[1][q].time = 0
                 PROVE  Rec(topic[1][q].id, "map") \in Items(2)
      BY <1>1, <2>2 DEF Mapped
    <3>1. q \in 1 .. state.map.offset \/ q = state.map.offset + 1
      BY OffsetFacts, OneMore
    <3>2. CASE q \in 1 .. state.map.offset
      BY <3>2 DEF Mapped, Delivered
    <3>3. CASE q = state.map.offset + 1
      BY <1>3, <2>3, <3>3 DEF Handed
    <3> QED
      BY <3>1, <3>2, <3>3
  <2> QED
    BY <1>1, <2>2, <2>4 DEF Delivered, JoinedLeft, JoinedRight, Sunk
<1>4. CASE AckOffset /\ turn = "sink"
  <2>1. state' = [state EXCEPT !.sink = [state.sink EXCEPT !.offset = state.sink.offset + 1]]
    BY <1>2, <1>4 DEF AckOffset, State, Position
  <2>2. state'.sink.offset = state.sink.offset + 1 /\ state'.join = state.join
        /\ state'.map = state.map
    BY <1>2, <2>1 DEF State, Position
  <2>3. Pulled = topic[sinkTopic][state.sink.offset + 1]
    BY <1>4 DEF Pulled, Source, Offset
  <2>4. Sunk(state)'
    <3> SUFFICES ASSUME NEW q \in 1 .. state.sink.offset + 1, topic[sinkTopic][q].time = 0
                 PROVE  topic[sinkTopic][q] \in handled
      BY <2>2 DEF Sunk
    <3>1. q \in 1 .. state.sink.offset \/ q = state.sink.offset + 1
      BY OffsetFacts, OneMore
    <3>2. CASE q \in 1 .. state.sink.offset
      BY <3>2 DEF Sunk, Delivered
    <3>3. CASE q = state.sink.offset + 1
      BY <1>4, <2>3, <3>3 DEF Handed
    <3> QED
      BY <3>1, <3>2, <3>3
  <2> QED
    BY <1>1, <2>2, <2>4 DEF Delivered, JoinedLeft, JoinedRight, Mapped
<1>5. CASE JoinAck
  <2>1. /\ turn = "join" /\ state'.map = state.map /\ state'.sink = state.sink
        /\ state'.join.left = IF state.join.leftNext THEN state.join.left + 1 ELSE state.join.left
        /\ state'.join.right = IF state.join.leftNext THEN state.join.right ELSE state.join.right + 1
    BY <1>2, <1>5 DEF JoinAck, State, JoinPosition
  <2>2. Mapped(state)' /\ Sunk(state)'
    BY <1>1, <2>1 DEF Delivered, Mapped, Sunk
  <2>3. CASE state.join.leftNext
    <3>1. Pulled = topic[1][state.join.left + 1]
      BY <2>1, <2>3 DEF Pulled, Source, Offset
    <3>2. JoinedLeft(state)'
      <4> SUFFICES ASSUME NEW q \in 1 .. state.join.left + 1, topic[1][q].time = 0
                   PROVE  topic[1][q] \in Items(3)
        BY <1>1, <2>1, <2>3 DEF JoinedLeft
      <4>1. q \in 1 .. state.join.left \/ q = state.join.left + 1
        BY OffsetFacts, OneMore
      <4>2. CASE q \in 1 .. state.join.left
        BY <4>2 DEF JoinedLeft, Delivered
      <4>3. CASE q = state.join.left + 1
        BY <2>1, <3>1, <4>3 DEF Handed
      <4> QED
        BY <4>1, <4>2, <4>3
    <3>3. JoinedRight(state)'
      BY <1>1, <2>1, <2>3 DEF JoinedRight, Delivered
    <3> QED
      BY <2>2, <3>2, <3>3 DEF Delivered
  <2>4. CASE ~state.join.leftNext
    <3>1. Pulled = topic[2][state.join.right + 1]
      BY <2>1, <2>4 DEF Pulled, Source, Offset
    <3>2. JoinedRight(state)'
      <4> SUFFICES ASSUME NEW q \in 1 .. state.join.right + 1, topic[2][q].time = 0
                   PROVE  topic[2][q] \in Items(3)
        BY <1>1, <2>1, <2>4 DEF JoinedRight
      <4>1. q \in 1 .. state.join.right \/ q = state.join.right + 1
        BY OffsetFacts, OneMore
      <4>2. CASE q \in 1 .. state.join.right
        BY <4>2 DEF JoinedRight, Delivered
      <4>3. CASE q = state.join.right + 1
        BY <2>1, <3>1, <4>3 DEF Handed
      <4> QED
        BY <4>1, <4>2, <4>3
    <3>3. JoinedLeft(state)'
      BY <1>1, <2>1, <2>4 DEF JoinedLeft, Delivered
    <3> QED
      BY <2>2, <3>2, <3>3 DEF Delivered
  <2> QED
    BY <2>3, <2>4
<1> QED
  BY <1>3, <1>4, <1>5 DEF AckOffset

\* The steps that leave the offsets of all stages as they are.
LEMMA OffsetsStay ==
    ASSUME Typed, [Next]_vars, ~Crash, ~AckOffset, ~JoinAck
    PROVE  /\ state'.map.offset = state.map.offset
           /\ state'.join.left = state.join.left /\ state'.join.right = state.join.right
           /\ state'.join.leftNext = state.join.leftNext
           /\ state'.sink.offset = state.sink.offset
<1>1. state \in State /\ state.map \in Position /\ state.sink \in Position
      /\ state.join \in JoinPosition
  BY DEF Typed, TypeOK, State
<1>2. CASE state' = state
  BY <1>2
<1>3. CASE AckWatermark
  BY <1>1, <1>3 DEF AckWatermark, State, Position
<1>4. CASE \E w : state' = [state EXCEPT !.join.watermark = w]
  BY <1>1, <1>4 DEF State, JoinPosition
<1>5. CASE SinkWatermark
  BY <1>1, <1>5 DEF SinkWatermark, State, Position
<1>6. CASE Load \/ LoadFails \/ LoadIsDone \/ Return \/ CallFails \/ Snapshot
  BY <1>2, <1>6 DEF Load, LoadFails, LoadIsDone, Return, CallFails, Snapshot
<1>7. CASE MapRecord \/ MapWatermark \/ JoinRecord \/ SinkRecord \/ UNCHANGED vars
  BY <1>2, <1>7 DEF MapRecord, MapWatermark, JoinRecord, SinkRecord, vars
<1>8. CASE JoinWatermark
  BY <1>2, <1>4, <1>8 DEF JoinWatermark
<1> QED
  BY <1>3, <1>5, <1>6, <1>7, <1>8 DEF Next

LEMMA DeliveredStep ==
    ASSUME Typed, Typed', Grown, Delivered, Handed, [Next]_vars
    PROVE  Delivered'
<1>1. CASE Crash
  <2>1. state' = [state EXCEPT ![turn] = saved[turn]] /\ turn \in Pullers
    BY <1>1 DEF Crash
  <2>2. state \in State /\ saved \in State
    BY DEF Typed, TypeOK
  <2>3. /\ state'.map = state.map \/ state'.map = saved.map
        /\ state'.join = state.join \/ state'.join = saved.join
        /\ state'.sink = state.sink \/ state'.sink = saved.sink
    BY <2>1, <2>2 DEF State, Pullers
  <2>4. /\ saved.map.offset <= state.map.offset /\ saved.sink.offset <= state.sink.offset
        /\ saved.join.left <= state.join.left /\ saved.join.right <= state.join.right
    BY DEF Typed, TypeOK, SavedBehind
  <2> QED
    BY <2>3, <2>4, OffsetFacts, DeliveredKept
<1>2. CASE AckOffset \/ JoinAck
  <2>1. pc = "ackOffset" /\ UNCHANGED <<topic, sinkTopic, handled>>
    BY <1>2 DEF AckOffset, JoinAck
  <2> QED
    BY <1>2, <2>1, DeliveredAcked
<1>3. CASE ~Crash /\ ~AckOffset /\ ~JoinAck
  BY <1>3, OffsetsStay, OffsetFacts, DeliveredKept
<1> QED
  BY <1>1, <1>2, <1>3

\* What a stage pulled is pushed, or handled, before its offset is acknowledged.
LEMMA HandedStep ==
    ASSUME Typed, Typed', Grown, Handed, [Next]_vars
    PROVE  Handed'
<1>1. topic \in [1 .. 3 -> Seq(Item)]
  BY DEF Typed, TypeOK
<1>2. CASE pc' # "ackOffset"
  BY <1>2 DEF Handed
<1>3. CASE Load \/ LoadFails \/ LoadIsDone \/ Return \/ CallFails \/ Crash \/ AckOffset \/ JoinAck
  <2>1. pc' = "pull"
    BY <1>3 DEF Load, LoadFails, LoadIsDone, Return, CallFails, Crash, AckOffset, JoinAck,
                Call, Fault
  <2> QED
    BY <1>2, <2>1
<1>4. ASSUME turn' = turn, turn \in Pullers, sinkTopic' = sinkTopic,
             topic'[1] = topic[1], turn # "map" => topic'[2] = topic[2],
             turn = "sink" => topic' = topic,
             ~Crash, ~AckOffset, ~JoinAck
      PROVE  Pulled' = Pulled
  <2>1. CASE turn = "map"
    BY <1>4, <2>1, OffsetsStay DEF Pulled, Source, Offset
  <2>2. CASE turn = "join"
    BY <1>4, <2>2, OffsetsStay DEF Pulled, Source, Offset
  <2>3. CASE turn = "sink"
    BY <1>4, <2>3, OffsetsStay DEF Pulled, Source, Offset
  <2> QED
    BY <1>4, <2>1, <2>2, <2>3 DEF Pullers
<1>5. ASSUME NEW k \in 1 .. 3, NEW x \in Item, Push(k, x)
      PROVE  x \in Items(k)'
  <2>1. topic'[k] = Append(topic[k], x) /\ topic[k] \in Seq(Item)
    BY <1>1, <1>5 DEF Push
  <2>2. Len(topic'[k]) = Len(topic[k]) + 1 /\ topic'[k][Len(topic[k]) + 1] = x
        /\ Len(topic[k]) \in Nat
    BY <2>1
  <2> QED
    BY <2>2 DEF Items
<1>6. ASSUME Pulled' = Pulled, Pulled.time # 0
      PROVE  Handed'
  BY <1>6 DEF Handed
<1>7. CASE Snapshot
  <2>1. UNCHANGED <<topic, state, sinkTopic, turn, pc, handled>>
    BY <1>7 DEF Snapshot
  <2> QED
    BY <2>1 DEF Handed, Pulled, Source, Offset, Items
<1>8. CASE UNCHANGED vars
  <2>1. UNCHANGED <<topic, state, sinkTopic, turn, pc, handled>>
    BY <1>8 DEF vars
  <2> QED
    BY <2>1 DEF Handed, Pulled, Source, Offset, Items
<1>9. CASE MapRecord
  <2>1. /\ CanPull("map") /\ turn = "map" /\ Pulled.time = 0 /\ Push(2, Rec(Pulled.id, "map"))
        /\ turn' = turn /\ sinkTopic' = sinkTopic /\ state' = state
    BY <1>9 DEF MapRecord, CanPull
  <2>2. topic'[1] = topic[1]
    BY <1>1, <2>1 DEF Push
  <2>3. Pulled' = Pulled
    BY <2>1, <2>2 DEF Pulled, Source, Offset
  <2>4. Rec(Pulled.id, "map") \in Item
    BY <2>1, SourceFacts, ItemFacts, RecIsItem DEF CanPull, Typed, Pullers
  <2> QED
    BY <1>5, <2>1, <2>3, <2>4 DEF Handed
<1>10. CASE MapWatermark
  <2>1. /\ turn = "map" /\ Pulled.time # 0 /\ turn' = turn /\ state' = state
        /\ topic' = topic \/ Push(2, Mark(Pulled.time))
    BY <1>10 DEF MapWatermark, CanPull
  <2>2. topic'[1] = topic[1]
    BY <1>1, <2>1 DEF Push
  <2>3. Pulled' = Pulled
    BY <2>1, <2>2 DEF Pulled, Source, Offset
  <2> QED
    BY <1>6, <2>1, <2>3
<1>11. CASE AckWatermark
  <2>1. turn = "map" /\ pc = "ackWatermark" /\ UNCHANGED <<topic, turn, sinkTopic>>
        /\ ~Crash /\ ~AckOffset /\ ~JoinAck
    BY <1>11 DEF AckWatermark, AckOffset, JoinAck, Crash, Fault, Call
  <2>2. Pulled' = Pulled
    BY <1>4, <2>1 DEF Pullers
  <2> QED
    BY <1>6, <2>1, <2>2 DEF Typed, Control
<1>12. CASE JoinRecord
  <2>1. /\ CanPull("join") /\ turn = "join" /\ Pulled.time = 0 /\ Push(3, Pulled)
        /\ turn' = turn /\ sinkTopic' = sinkTopic /\ state' = state
    BY <1>12 DEF JoinRecord, CanPull
  <2>2. topic'[1] = topic[1] /\ topic'[2] = topic[2]
    BY <1>1, <2>1 DEF Push
  <2>3. Pulled' = Pulled
    BY <2>1, <2>2 DEF Pulled, Source, Offset
  <2>4. Pulled \in Item
    BY <2>1, SourceFacts DEF CanPull, Typed, Pullers
  <2> QED
    BY <1>5, <2>1, <2>3, <2>4 DEF Handed
<1>13. CASE JoinWatermark
  <2>1. /\ turn = "join" /\ Pulled.time # 0 /\ turn' = turn /\ sinkTopic' = sinkTopic
        /\ topic' = topic \/ \E x : Push(3, x)
        /\ pc = "pull" /\ pc' = "ackOffset"
    BY <1>13 DEF JoinWatermark, CanPull
  <2>2. topic'[1] = topic[1] /\ topic'[2] = topic[2]
    BY <1>1, <2>1 DEF Push
  <2>3. ~Crash /\ ~AckOffset /\ ~JoinAck
    BY <2>1 DEF Crash, AckOffset, JoinAck, Fault, Call
  <2>4. Pulled' = Pulled
    BY <1>4, <2>1, <2>2, <2>3 DEF Pullers
  <2> QED
    BY <1>6, <2>1, <2>4
<1>14. CASE SinkRecord \/ SinkWatermark
  <2>1. /\ turn = "sink" /\ UNCHANGED <<topic, turn, sinkTopic>>
        /\ pc = "pull" /\ pc' = "ackOffset"
        /\ Pulled.time = 0 => Pulled \in handled'
    BY <1>14 DEF SinkRecord, SinkWatermark, CanPull
  <2>2. ~Crash /\ ~AckOffset /\ ~JoinAck
    BY <2>1 DEF Crash, AckOffset, JoinAck, Fault, Call
  <2>3. Pulled' = Pulled
    BY <1>4, <2>1, <2>2 DEF Pullers
  <2> QED
    BY <2>1, <2>3 DEF Handed
<1> QED
  BY <1>3, <1>7, <1>8, <1>9, <1>10, <1>11, <1>12, <1>13, <1>14 DEF Next

-----------------------------------------------------------------------------
(* What was promised *)

\* A promise that was kept stays kept.
LEMMA PromisesStay ==
    ASSUME Typed, Typed', Grown, NEW vias, NEW t
    PROVE  /\ Promised(Items(3), vias, t) => Promised(Items(3)', vias, t)
           /\ Promised(handled, vias, t) => Promised(handled', vias, t)
<1>1. Items(3) \subseteq Items(3)'
  BY ItemsGrow
<1>2. handled \subseteq handled'
  BY DEF Grown
<1> QED
  BY <1>1, <1>2 DEF Promised

\* Nothing is due when nothing was consumed.
LEMMA NothingDue ==
    ASSUME NEW items, NEW vias
    PROVE  Promised(items, vias, 0)
BY DueFacts DEF Promised

\* A step after which every watermark is one that was known before it.
LEMMA KeptFromBefore ==
    ASSUME Typed, Typed', Grown, Kept,
           state'.join.watermark \in {state.join.watermark, saved.join.watermark},
           state'.sink.watermark \in {state.sink.watermark, saved.sink.watermark},
           saved'.join.watermark \in {state.join.watermark, saved.join.watermark, 0},
           saved'.sink.watermark \in {state.sink.watermark, saved.sink.watermark, 0},
           \/ seen' = seen
           \/ seen'.left = state'.join.watermark /\ seen'.right = state'.join.watermark
    PROVE  Kept'
<1> DEFINE both == {"load", "map"}
<1>1. /\ Promised(Items(3), both, state.join.watermark)
      /\ Promised(Items(3), both, saved.join.watermark)
      /\ Promised(Items(3), both, 0)
  BY NothingDue DEF Kept, KeptBy
<1>2. /\ Promised(handled, Ways(sinkTopic), state.sink.watermark)
      /\ Promised(handled, Ways(sinkTopic), saved.sink.watermark)
      /\ Promised(handled, Ways(sinkTopic), 0)
  BY NothingDue DEF Kept, KeptBy
<1>3. /\ Promised(Items(3), both, state'.join.watermark)
      /\ Promised(Items(3), both, saved'.join.watermark)
  BY <1>1
<1>4. /\ Promised(handled, Ways(sinkTopic), state'.sink.watermark)
      /\ Promised(handled, Ways(sinkTopic), saved'.sink.watermark)
  BY <1>2
<1>5. /\ Promised(Items(3)', both, state'.join.watermark)
      /\ Promised(Items(3)', both, saved'.join.watermark)
  BY <1>3, PromisesStay
<1>6. /\ Promised(handled', Ways(sinkTopic'), state'.sink.watermark)
      /\ Promised(handled', Ways(sinkTopic'), saved'.sink.watermark)
  <2>1. sinkTopic' = sinkTopic
    BY DEF Grown
  <2> QED
    BY <1>4, <2>1, PromisesStay
<1>7. KeptBy(state)' /\ KeptBy(saved)'
  BY <1>5, <1>6 DEF KeptBy, Promised, Ways
<1>8. /\ Promised(Items(3)', {"load"}, seen'.left)
      /\ Promised(Items(3)', {"map"}, seen'.right)
  <2>1. CASE seen' = seen
    BY <2>1, PromisesStay DEF Kept
  <2>2. CASE seen'.left = state'.join.watermark /\ seen'.right = state'.join.watermark
    BY <1>5, <2>2 DEF Promised
  <2> QED
    BY <2>1, <2>2
<1> QED
  BY <1>7, <1>8 DEF Kept, Promised

\* The watermark of a join that has reached both sides.
LEMMA KeptAtJoin ==
    ASSUME Typed, Typed', Grown, TopicsSound, Delivered, Kept, JoinWatermark
    PROVE  Kept'
<1> DEFINE low == Lower(seen'.left, seen'.right)
<1>1. /\ turn = "join" /\ Offset < Len(Source) /\ Pulled.time # 0
      /\ seen' = IF state.join.leftNext THEN [seen EXCEPT !.left = Pulled.time]
                 ELSE [seen EXCEPT !.right = Pulled.time]
      /\ saved' = saved
      /\ \/ state' = state
         \/ state' = [state EXCEPT !.join.watermark = low]
  BY DEF JoinWatermark, CanPull
<1>2. /\ state \in State /\ state.join \in JoinPosition
      /\ seen \in [left : 0 .. EndOfStream, right : 0 .. EndOfStream]
      /\ seen' \in [left : 0 .. EndOfStream, right : 0 .. EndOfStream]
  BY DEF Typed, TypeOK, State
<1>3. /\ Promised(Items(3), {"load"}, seen'.left)
      /\ Promised(Items(3), {"map"}, seen'.right)
  <2>1. /\ Promised(Items(3), {"load"}, seen.left)
        /\ Promised(Items(3), {"map"}, seen.right)
    BY DEF Kept
  <2>2. Promised(Items(3), {IF state.join.leftNext THEN "load" ELSE "map"}, Pulled.time)
    BY <1>1, JoinSees DEF Delivered
  <2>3. CASE state.join.leftNext
    <3>1. seen'.left = Pulled.time /\ seen'.right = seen.right
      BY <1>1, <1>2, <2>3
    <3>2. {IF state.join.leftNext THEN "load" ELSE "map"} = {"load"}
      BY <2>3
    <3> QED
      BY <2>1, <2>2, <3>1, <3>2
  <2>4. CASE ~state.join.leftNext
    <3>1. seen'.left = seen.left /\ seen'.right = Pulled.time
      BY <1>1, <1>2, <2>4
    <3>2. {IF state.join.leftNext THEN "load" ELSE "map"} = {"map"}
      BY <2>4
    <3> QED
      BY <2>1, <2>2, <3>1, <3>2
  <2> QED
    BY <2>3, <2>4
<1>4. Promised(Items(3), {"load", "map"}, low)
  <2>1. low \in Nat /\ low <= seen'.left /\ low <= seen'.right
        /\ seen'.left \in Nat /\ seen'.right \in Nat
    BY <1>2, InputFacts DEF Lower
  <2>2. Due(low) \subseteq Due(seen'.left) /\ Due(low) \subseteq Due(seen'.right)
    BY <2>1, DueFacts
  <2> QED
    BY <1>3, <2>2 DEF Promised
<1>5. state'.join.watermark \in {state.join.watermark, low} /\ state'.sink = state.sink
  BY <1>1, <1>2 DEF State, JoinPosition
<1>6. Promised(Items(3), {"load", "map"}, state'.join.watermark)
  BY <1>4, <1>5 DEF Kept, KeptBy
<1>7. sinkTopic' = sinkTopic
  BY DEF Grown
<1>8. KeptBy(state)' /\ KeptBy(saved)'
  <2>1. /\ Promised(Items(3)', {"load", "map"}, state'.join.watermark)
        /\ Promised(Items(3)', {"load", "map"}, saved'.join.watermark)
    BY <1>1, <1>6, PromisesStay DEF Kept, KeptBy
  <2>2. /\ Promised(handled', Ways(sinkTopic'), state'.sink.watermark)
        /\ Promised(handled', Ways(sinkTopic'), saved'.sink.watermark)
    BY <1>1, <1>5, <1>7, PromisesStay DEF Kept, KeptBy
  <2> QED
    BY <2>1, <2>2 DEF KeptBy, Promised, Ways
<1>9. /\ Promised(Items(3)', {"load"}, seen'.left)
      /\ Promised(Items(3)', {"map"}, seen'.right)
  BY <1>3, PromisesStay
<1> QED
  BY <1>8, <1>9 DEF Kept, Promised

\* The watermark that the sink has seen.
LEMMA KeptAtSink ==
    ASSUME Typed, Typed', Grown, TopicsSound, Delivered, Kept, SinkWatermark
    PROVE  Kept'
<1>1. /\ turn = "sink" /\ Offset < Len(Source) /\ Pulled.time # 0
      /\ state' = [state EXCEPT !.sink.watermark = Pulled.time]
      /\ UNCHANGED <<saved, seen, handled, topic, sinkTopic>>
  BY DEF SinkWatermark, CanPull
<1>2. state \in State /\ state.sink \in Position
  BY DEF Typed, TypeOK, State
<1>3. state'.sink.watermark = Pulled.time /\ state'.join = state.join
  BY <1>1, <1>2 DEF State, Position
<1>4. Promised(handled, Ways(sinkTopic), Pulled.time)
  BY <1>1, SinkSees DEF Delivered
<1>5. Items(3)' = Items(3)
  BY <1>1 DEF Items
<1>6. KeptBy(state)' /\ KeptBy(saved)'
  BY <1>1, <1>3, <1>4, <1>5 DEF Kept, KeptBy, Promised, Ways
<1> QED
  BY <1>1, <1>5, <1>6 DEF Kept, Promised

LEMMA KeptStep ==
    ASSUME Typed, Typed', Grown, TopicsSound, Delivered, Kept, [Next]_vars
    PROVE  Kept'
<1>1. /\ state \in State /\ saved \in State
      /\ state.map \in Position /\ state.sink \in Position /\ state.join \in JoinPosition
  BY DEF Typed, TypeOK, State
<1>2. CASE JoinWatermark
  BY <1>2, KeptAtJoin
<1>3. CASE SinkWatermark
  BY <1>3, KeptAtSink
<1>4. /\ NothingConsumed.join.watermark = 0 /\ NothingConsumed.sink.watermark = 0
  BY DEF NothingConsumed
<1>5. ASSUME NEW s, Call(s)
      PROVE  seen'.left = state'.join.watermark /\ seen'.right = state'.join.watermark
  BY <1>5 DEF Call
<1>6. ASSUME Fault
      PROVE  /\ saved' = saved \/ saved' = NothingConsumed
             /\ seen'.left = state'.join.watermark /\ seen'.right = state'.join.watermark
  BY <1>5, <1>6 DEF Fault
<1>7. CASE Load \/ LoadIsDone \/ Return
  <2>1. UNCHANGED <<state, saved>>
    BY <1>7 DEF Load, LoadIsDone, Return
  <2>2. seen'.left = state'.join.watermark /\ seen'.right = state'.join.watermark
    BY <1>5, <1>7 DEF Load, LoadIsDone, Return
  <2> QED
    BY <2>1, <2>2, KeptFromBefore
<1>8. CASE LoadFails \/ CallFails
  <2>1. state' = state /\ Fault
    BY <1>8 DEF LoadFails, CallFails
  <2> QED
    BY <1>4, <1>6, <2>1, KeptFromBefore
<1>9. CASE Crash
  <2>1. state' = [state EXCEPT ![turn] = saved[turn]] /\ turn \in Pullers /\ Fault
    BY <1>9 DEF Crash
  <2>2. /\ state'.join = state.join \/ state'.join = saved.join
        /\ state'.sink = state.sink \/ state'.sink = saved.sink
    BY <1>1, <2>1 DEF State, Pullers
  <2> QED
    BY <1>4, <1>6, <2>1, <2>2, KeptFromBefore
<1>10. CASE Snapshot
  <2>1. saved' = [saved EXCEPT ![turn] = state[turn]] /\ turn \in Pullers
        /\ state' = state /\ seen' = seen
    BY <1>10 DEF Snapshot
  <2>2. /\ saved'.join = state.join \/ saved'.join = saved.join
        /\ saved'.sink = state.sink \/ saved'.sink = saved.sink
    BY <1>1, <2>1 DEF State, Pullers
  <2> QED
    BY <2>1, <2>2, KeptFromBefore
<1>11. CASE AckWatermark \/ AckOffset \/ JoinAck
  <2>1. saved' = saved /\ seen' = seen
    BY <1>11 DEF AckWatermark, AckOffset, JoinAck
  <2>2. /\ state'.join.watermark = state.join.watermark
        /\ state'.sink.watermark = state.sink.watermark
    <3>1. CASE AckWatermark
      BY <1>1, <3>1 DEF AckWatermark, State, Position
    <3>2. CASE AckOffset /\ turn = "map"
      BY <1>1, <3>2 DEF AckOffset, State, Position
    <3>3. CASE AckOffset /\ turn = "sink"
      <4>1. state' = [state EXCEPT !.sink = [state.sink EXCEPT !.offset = @ + 1]]
        BY <1>1, <3>3 DEF AckOffset, State, Position
      <4> QED
        BY <1>1, <4>1 DEF State, Position
    <3>4. CASE JoinAck
      <4>1. /\ state'.sink = state.sink
            /\ state'.join = [state.join EXCEPT
                                 !.left = IF state.join.leftNext THEN @ + 1 ELSE @,
                                 !.right = IF state.join.leftNext THEN @ ELSE @ + 1,
                                 !.leftNext = ~@]
        BY <1>1, <3>4 DEF JoinAck, State
      <4> QED
        BY <1>1, <4>1 DEF JoinPosition
    <3> QED
      BY <1>11, <3>1, <3>2, <3>3, <3>4 DEF AckOffset
  <2> QED
    BY <2>1, <2>2, KeptFromBefore
<1>12. CASE MapRecord \/ MapWatermark \/ JoinRecord \/ SinkRecord \/ UNCHANGED vars
  <2>1. UNCHANGED <<state, saved, seen>>
    BY <1>12 DEF MapRecord, MapWatermark, JoinRecord, SinkRecord, vars
  <2> QED
    BY <2>1, KeptFromBefore
<1> QED
  BY <1>2, <1>3, <1>7, <1>8, <1>9, <1>10, <1>11, <1>12 DEF Next

-----------------------------------------------------------------------------
(* The inductive invariant, and what follows from it *)

LEMMA FaithfulInit == Init => Faithful
<1> SUFFICES ASSUME Init PROVE Faithful
  OBVIOUS
<1>1. /\ \A k \in 1 .. 3 : Len(topic[k]) = 0
      /\ state = NothingConsumed /\ saved = NothingConsumed
      /\ seen = [left |-> 0, right |-> 0] /\ pc = "pull"
  BY DEF Init
<1>2. TopicsSound
  BY <1>1 DEF TopicsSound, Sound
<1>3. Delivered
  BY <1>1 DEF Delivered, Mapped, JoinedLeft, JoinedRight, Sunk, NothingConsumed
<1>4. Handed
  BY <1>1 DEF Handed
<1>5. Kept
  BY <1>1, NothingDue DEF Kept, KeptBy, NothingConsumed
<1> QED
  BY <1>2, <1>3, <1>4, <1>5, TypedInit DEF Faithful

LEMMA FaithfulStep == Faithful /\ [Next]_vars => Faithful'
<1> SUFFICES ASSUME Faithful, [Next]_vars PROVE Faithful'
  OBVIOUS
<1>1. Typed /\ TopicsSound /\ Delivered /\ Handed /\ Kept
  BY DEF Faithful
<1>2. Typed'
  BY <1>1, TypedStep
<1>3. Grown /\ TopicsSound'
  BY <1>1, TopicStep
<1>4. Delivered'
  BY <1>1, <1>2, <1>3, DeliveredStep
<1>5. Handed'
  BY <1>1, <1>2, <1>3, HandedStep
<1>6. Kept'
  BY <1>1, <1>2, <1>3, KeptStep
<1> QED
  BY <1>2, <1>3, <1>4, <1>5, <1>6 DEF Faithful

LEMMA FaithfulAlways == Spec => []Faithful
BY FaithfulInit, FaithfulStep, PTL DEF Spec

\* What SoundAt says of an item of a topic.
LEMMA SoundItem ==
    ASSUME Faithful, NEW k \in 1 .. 3, NEW p \in DOMAIN topic[k]
    PROVE  SoundAt(k, topic[k][p], Before(k, p))
<1>1. p \in 1 .. Len(topic[k])
  BY DEF Faithful, Typed, TypeOK
<1> QED
  BY <1>1 DEF Faithful, TopicsSound, Sound, Before

\* Whichever calls fail and whatever snapshots stages go on from, a record is
\* in a topic only after every record of the same way that was loaded before it.
THEOREM SkipNothing == Spec => []RecordsSkipNothing
<1>1. ASSUME Faithful PROVE RecordsSkipNothing
  BY <1>1, SoundItem DEF RecordsSkipNothing, SoundAt
<1> QED
  BY <1>1, FaithfulAlways, PTL

\* A watermark is in a topic only after everything that was loaded before the
\* first watermark of its time, from both sides of a join.
THEOREM PromisesKept == Spec => []WatermarksKeepTheirPromise
<1>1. ASSUME Faithful PROVE WatermarksKeepTheirPromise
  <2> SUFFICES ASSUME NEW k \in 1 .. 3, NEW p \in DOMAIN topic[k], topic[k][p].time # 0,
                      NEW i \in Records, \A j \in 1 .. i : Input[j] < topic[k][p].time,
                      NEW via \in Ways(k)
               PROVE  Rec(i, via) \in Before(k, p)
    BY DEF WatermarksKeepTheirPromise
  <2>1. Promised(Before(k, p), Ways(k), topic[k][p].time)
    BY <1>1, SoundItem DEF SoundAt
  <2> QED
    BY <2>1 DEF Promised, Due
<1> QED
  BY <1>1, FaithfulAlways, PTL

\* When the sink has seen the end of the stream, its function was called with
\* every record, in every way that leads to the topic it reads.
THEOREM EndIsEverything == Spec => []EndMeansEverything
<1>1. ASSUME Faithful PROVE EndMeansEverything
  <2> SUFFICES ASSUME state.sink.watermark = EndOfStream,
                      NEW i \in Records, NEW via \in Ways(sinkTopic)
               PROVE  Rec(i, via) \in handled
    BY DEF EndMeansEverything
  <2>1. Promised(handled, Ways(sinkTopic), EndOfStream)
    BY <1>1 DEF Faithful, Kept, KeptBy
  <2>2. i \in 1 .. Len(Input) /\ Input[i] = 0
    BY InputFacts DEF Records
  <2>3. ASSUME NEW j \in 1 .. i PROVE Input[j] < EndOfStream
    <3>1. j \in 1 .. Len(Input) /\ Input[j] \in 0 .. EndOfStream
      BY <2>2, InputFacts
    <3>2. CASE Input[j] = EndOfStream
      <4>1. j = Len(Input)
        BY <3>1, <3>2, EndAssumption, InputFacts
      <4>2. i = j
        BY <2>2, <4>1, InputFacts
      <4> QED
        BY <2>2, <3>2, <4>2, InputFacts
    <3> QED
      BY <3>1, <3>2, InputFacts
  <2>4. i \in Due(EndOfStream)
    BY <2>3 DEF Due
  <2> QED
    BY <2>1, <2>4 DEF Promised
<1> QED
  BY <1>1, FaithfulAlways, PTL

-----------------------------------------------------------------------------
(* Watermarks that rise *)

Rising(s) ==
    \A p, q \in DOMAIN s :
        p < q /\ s[p].time # 0 /\ s[q].time # 0 => s[p].time < s[q].time
Below(s, t) == \A p \in DOMAIN s : s[p].time <= t

\* No watermark that was pushed is above the one the stage remembers, or is about
\* to remember.
Remembered ==
    /\ Rising(topic[2]) /\ Rising(topic[3])
    /\ pc = "ackWatermark" => Below(topic[2], Pulled.time)
    /\ pc # "ackWatermark" => Below(topic[2], state.map.watermark)
    /\ Below(topic[3], state.join.watermark)

Risen == ~restored => Remembered

LEMMA AppendRises ==
    ASSUME NEW s \in Seq(Item), NEW x \in Item, NEW t \in Nat, Rising(s), Below(s, t)
    PROVE  /\ x.time = 0 => Rising(Append(s, x)) /\ Below(Append(s, x), t)
           /\ t < x.time => Rising(Append(s, x)) /\ Below(Append(s, x), x.time)
<1> DEFINE u == Append(s, x)
<1>1. /\ Len(s) \in Nat /\ DOMAIN u = 1 .. Len(s) + 1 /\ DOMAIN s = 1 .. Len(s)
      /\ u[Len(s) + 1] = x
      /\ \A q \in 1 .. Len(s) : u[q] = s[q]
  OBVIOUS
<1>2. \A q \in 1 .. Len(s) : s[q].time \in Nat /\ s[q].time <= t
  <2>1. \A q \in 1 .. Len(s) : s[q] \in Item
    BY <1>1, ElementOfSeq
  <2>2. \A y \in Item : y.time \in Nat
    BY ItemFacts, InputFacts
  <2>3. \A q \in 1 .. Len(s) : s[q].time <= t
    BY <1>1 DEF Below
  <2> QED
    BY <2>1, <2>2, <2>3
<1>3. x.time \in Nat
  BY ItemFacts, InputFacts
<1> HIDE DEF u
<1>4. ASSUME x.time = 0 \/ t < x.time
      PROVE  Rising(u)
  <2> SUFFICES ASSUME NEW p \in DOMAIN u, NEW q \in DOMAIN u, p < q,
                      u[p].time # 0, u[q].time # 0
               PROVE  u[p].time < u[q].time
    BY DEF Rising
  <2>1. p \in 1 .. Len(s) /\ u[p] = s[p]
    BY <1>1
  <2>2. CASE q \in 1 .. Len(s)
    BY <1>1, <2>1, <2>2 DEF Rising
  <2>3. CASE q = Len(s) + 1
    BY <1>1, <1>2, <1>3, <1>4, <2>1, <2>3
  <2> QED
    BY <1>1, <2>2, <2>3
<1>5. x.time = 0 => Below(u, t)
  BY <1>1, <1>2 DEF Below
<1>6. t < x.time => Below(u, x.time)
  BY <1>1, <1>2, <1>3 DEF Below
<1> QED
  BY <1>4, <1>5, <1>6 DEF u

LEMMA RisenStep ==
    ASSUME Typed, Typed', Risen, [Next]_vars
    PROVE  Risen'
<1> SUFFICES ASSUME ~restored' PROVE Remembered'
  BY DEF Risen
<1>1. ~Crash
  BY DEF Crash
<1>2. Remembered
  <2>1. CASE restored' = restored
    BY <2>1 DEF Risen
  <2>2. restored' = restored
    BY <1>1 DEF Next, Load, LoadFails, LoadIsDone, Return, CallFails, Snapshot, MapRecord,
                MapWatermark, AckWatermark, AckOffset, JoinRecord, JoinWatermark, JoinAck,
                SinkRecord, SinkWatermark, vars
  <2> QED
    BY <2>1, <2>2
<1>3. /\ topic \in [1 .. 3 -> Seq(Item)] /\ state \in State
      /\ state.map \in Position /\ state.join \in JoinPosition /\ state.sink \in Position
      /\ state.map.watermark \in Nat /\ state.join.watermark \in Nat
  <2>1. topic \in [1 .. 3 -> Seq(Item)] /\ state \in State
    BY DEF Typed, TypeOK
  <2>2. state.map \in Position /\ state.join \in JoinPosition /\ state.sink \in Position
    BY <2>1 DEF State
  <2>3. state.map.watermark \in Nat /\ state.join.watermark \in Nat
    BY <2>2, InputFacts DEF Position, JoinPosition
  <2> QED
    BY <2>1, <2>2, <2>3
<1>4. ASSUME topic'[2] = topic[2], topic'[3] = topic[3],
             state'.map.watermark = state.map.watermark,
             state'.join.watermark = state.join.watermark,
             pc # "ackWatermark", pc' # "ackWatermark"
      PROVE  Remembered'
  BY <1>2, <1>4 DEF Remembered, Rising, Below
<1>5. turn = "load" => pc = "pull"
  BY DEF Typed, Control
<1>6. CASE Load \/ LoadFails \/ LoadIsDone \/ Return \/ CallFails
  <2>1. pc = "pull" /\ pc' = "pull" /\ state' = state
    BY <1>5, <1>6 DEF Load, LoadFails, LoadIsDone, Return, CallFails, Fault, Call
  <2>2. topic'[2] = topic[2] /\ topic'[3] = topic[3]
    BY <1>3, <1>6 DEF Load, LoadFails, LoadIsDone, Return, CallFails
  <2> QED
    BY <1>4, <2>1, <2>2
<1>7. CASE Snapshot
  <2>1. UNCHANGED <<topic, state, pc, turn, sinkTopic>>
    BY <1>7 DEF Snapshot
  <2> QED
    BY <1>2, <2>1 DEF Remembered, Rising, Below, Pulled, Source, Offset
<1>8. CASE UNCHANGED vars
  BY <1>2, <1>8 DEF vars, Remembered, Rising, Below, Pulled, Source, Offset
<1>9. CASE AckOffset \/ JoinAck \/ SinkRecord \/ SinkWatermark
  <2>1. topic' = topic /\ pc # "ackWatermark" /\ pc' # "ackWatermark"
    BY <1>9 DEF AckOffset, JoinAck, SinkRecord, SinkWatermark, CanPull
  <2>2. /\ state'.map.watermark = state.map.watermark
        /\ state'.join.watermark = state.join.watermark
    <3>1. CASE AckOffset /\ turn = "map"
      BY <1>3, <3>1 DEF AckOffset, State, Position
    <3>2. CASE AckOffset /\ turn = "sink"
      BY <1>3, <3>2 DEF AckOffset, State
    <3>3. CASE JoinAck
      <4>1. /\ state'.map = state.map
            /\ state'.join = [state.join EXCEPT
                                 !.left = IF state.join.leftNext THEN @ + 1 ELSE @,
                                 !.right = IF state.join.leftNext THEN @ ELSE @ + 1,
                                 !.leftNext = ~@]
        BY <1>3, <3>3 DEF JoinAck, State
      <4> QED
        BY <1>3, <4>1 DEF JoinPosition
    <3>4. CASE SinkRecord
      BY <3>4 DEF SinkRecord
    <3>5. CASE SinkWatermark
      BY <1>3, <3>5 DEF SinkWatermark, State
    <3> QED
      BY <1>9, <3>1, <3>2, <3>3, <3>4, <3>5 DEF AckOffset
  <2> QED
    BY <1>4, <2>1, <2>2
<1>10. CASE MapRecord
  <2>1. /\ pc = "pull" /\ pc' = "ackOffset" /\ state' = state /\ turn = "map"
        /\ Offset < Len(Source) /\ Pulled.time = 0
        /\ topic' = [topic EXCEPT ![2] = Append(topic[2], Rec(Pulled.id, "map"))]
    BY <1>10 DEF MapRecord, CanPull, Push
  <2>2. Rec(Pulled.id, "map") \in Item /\ Rec(Pulled.id, "map").time = 0
    <3>1. Pulled \in Item
      BY <2>1, SourceFacts DEF Typed, Pullers
    <3> QED
      BY <2>1, <3>1, ItemFacts, RecIsItem DEF Rec
  <2>3. Rising(topic[2]) /\ Below(topic[2], state.map.watermark)
    BY <1>2, <2>1 DEF Remembered
  <2>4. topic'[2] = Append(topic[2], Rec(Pulled.id, "map")) /\ topic'[3] = topic[3]
    BY <1>3, <2>1
  <2>5. Rising(topic'[2]) /\ Below(topic'[2], state.map.watermark)
    BY <1>3, <2>2, <2>3, <2>4, AppendRises
  <2> QED
    BY <1>2, <2>1, <2>4, <2>5 DEF Remembered, Rising, Below
<1>11. CASE MapWatermark
  <2>1. /\ pc = "pull" /\ state' = state /\ turn = "map" /\ turn' = turn
        /\ Offset < Len(Source) /\ Pulled.time # 0
        /\ \/ pc' = "ackOffset" /\ topic' = topic
           \/ /\ ~(state.map.watermark >= Pulled.time)
              /\ topic' = [topic EXCEPT ![2] = Append(topic[2], Mark(Pulled.time))]
              /\ pc' = "ackWatermark"
    BY <1>11 DEF MapWatermark, CanPull, Push
  <2>2. CASE pc' = "ackOffset" /\ topic' = topic
    BY <1>4, <2>1, <2>2
  <2>3. CASE /\ ~(state.map.watermark >= Pulled.time)
             /\ topic' = [topic EXCEPT ![2] = Append(topic[2], Mark(Pulled.time))]
             /\ pc' = "ackWatermark"
    <3>1. Pulled \in Item
      BY <2>1, SourceFacts DEF Typed, Pullers
    <3>2. Mark(Pulled.time) \in Item /\ Mark(Pulled.time).time = Pulled.time
          /\ Pulled.time \in Nat
      BY <2>1, <3>1, ItemFacts, MarkIsItem, InputFacts DEF Mark
    <3>3. Rising(topic[2]) /\ Below(topic[2], state.map.watermark)
      BY <1>2, <2>1 DEF Remembered
    <3>4. /\ topic'[2] = Append(topic[2], Mark(Pulled.time)) /\ topic'[3] = topic[3]
          /\ topic'[1] = topic[1]
      BY <1>3, <2>3
    <3>5. state.map.watermark < Pulled.time
      BY <1>3, <2>3, <3>2
    <3>6. Rising(topic'[2]) /\ Below(topic'[2], Pulled.time)
      BY <1>3, <3>2, <3>3, <3>4, <3>5, AppendRises
    <3>7. Pulled' = Pulled
      BY <2>1, <3>4 DEF Pulled, Source, Offset
    <3> QED
      BY <1>2, <2>1, <2>3, <3>4, <3>6, <3>7 DEF Remembered, Rising, Below
  <2> QED
    BY <2>1, <2>2, <2>3
<1>12. CASE AckWatermark
  <2>1. pc = "ackWatermark" /\ pc' = "ackOffset" /\ topic' = topic
        /\ state' = [state EXCEPT !.map.watermark = Pulled.time]
    BY <1>12 DEF AckWatermark
  <2>2. state'.map.watermark = Pulled.time /\ state'.join = state.join
    BY <1>3, <2>1 DEF State, Position
  <2> QED
    BY <1>2, <2>1, <2>2 DEF Remembered, Rising, Below
<1>13. CASE JoinRecord
  <2>1. /\ pc = "pull" /\ pc' = "ackOffset" /\ state' = state /\ turn = "join"
        /\ Offset < Len(Source) /\ Pulled.time = 0
        /\ topic' = [topic EXCEPT ![3] = Append(topic[3], Pulled)]
    BY <1>13 DEF JoinRecord, CanPull, Push
  <2>2. Pulled \in Item
    BY <2>1, SourceFacts DEF Typed, Pullers
  <2>3. Rising(topic[3]) /\ Below(topic[3], state.join.watermark)
    BY <1>2 DEF Remembered
  <2>4. topic'[3] = Append(topic[3], Pulled) /\ topic'[2] = topic[2]
    BY <1>3, <2>1
  <2>5. Rising(topic'[3]) /\ Below(topic'[3], state.join.watermark)
    BY <1>3, <2>1, <2>2, <2>3, <2>4, AppendRises
  <2> QED
    BY <1>2, <2>1, <2>4, <2>5 DEF Remembered, Rising, Below
<1>14. CASE JoinWatermark
  <2> DEFINE low == Lower(seen'.left, seen'.right)
  <2>1. /\ pc = "pull" /\ pc' = "ackOffset" /\ turn = "join"
        /\ \/ topic' = topic /\ state' = state
           \/ /\ ~(state.join.watermark >= low)
              /\ topic' = [topic EXCEPT ![3] = Append(topic[3], Mark(low))]
              /\ state' = [state EXCEPT !.join.watermark = low]
    BY <1>14 DEF JoinWatermark, CanPull, Push
  <2>2. CASE topic' = topic /\ state' = state
    BY <1>4, <2>1, <2>2
  <2>3. CASE /\ ~(state.join.watermark >= low)
             /\ topic' = [topic EXCEPT ![3] = Append(topic[3], Mark(low))]
             /\ state' = [state EXCEPT !.join.watermark = low]
    <3>1. low \in 0 .. EndOfStream
      BY InputFacts DEF Typed, TypeOK, Lower
    <3>2. state.join.watermark < low /\ low \in 1 .. EndOfStream
      BY <1>3, <2>3, <3>1, InputFacts
    <3>3. Mark(low) \in Item /\ Mark(low).time = low
      BY <3>2, MarkIsItem DEF Mark
    <3>4. Rising(topic[3]) /\ Below(topic[3], state.join.watermark)
      BY <1>2 DEF Remembered
    <3>5. topic'[3] = Append(topic[3], Mark(low)) /\ topic'[2] = topic[2]
      BY <1>3, <2>3
    <3>6. Rising(topic'[3]) /\ Below(topic'[3], low)
      BY <1>3, <3>2, <3>3, <3>4, <3>5, AppendRises
    <3>7. state'.join.watermark = low /\ state'.map = state.map
      BY <1>3, <2>3 DEF State, JoinPosition
    <3> HIDE DEF low
    <3> QED
      BY <1>2, <2>1, <3>5, <3>6, <3>7 DEF Remembered, Rising, Below
  <2> QED
    BY <2>1, <2>2, <2>3
<1> QED
  BY <1>1, <1>6, <1>7, <1>8, <1>9, <1>10, <1>11, <1>12, <1>13, <1>14 DEF Next

\* As long as no stage went on from a snapshot, DoMap and DoJoin push every
\* watermark once and in order, also those that a load repeats.
THEOREM Rise == Spec => []WatermarksRise
<1>1. Init => Risen
  BY DEF Init, Risen, Remembered, Rising, Below
<1>2. Typed /\ Typed' /\ Risen /\ [Next]_vars => Risen'
  BY RisenStep
<1>3. Risen => WatermarksRise
  BY DEF Risen, Remembered, Rising, WatermarksRise
<1> QED
  BY <1>1, <1>2, <1>3, TypedAlways, PTL DEF Spec
=============================================================================
