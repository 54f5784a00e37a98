------------------------ MODULE WindowRecoveryProofs ------------------------
(***************************************************************************)
(* A windowed projection loses no record and merges none twice, for every  *)
(* input that is short enough for the comparison of offsets, any windows,  *)
(* any number of attempts, and failures anywhere; and when Recovery        *)
(* returns nil at the end of the stream, everything was pushed.            *)
(*                                                                         *)
(* The argument: whatever a state object has consumed is accounted for in  *)
(* the window store or in the output (NothingIsLost), and neither of them  *)
(* ever takes that back.  So it does not matter which state object an      *)
(* attempt begins with.  A record that is merged continues what its state  *)
(* object has consumed, so windows have no gaps (WindowsSkipNothing), and  *)
(* a record that a window skips is one that it had.                        *)
(***************************************************************************)
EXTENDS WindowRecovery, FiniteSetTheorems, SequenceTheorems, TLAPS

\* The offsets of the input are less than 128 apart.
Short == Len(Input) <= 128

InAttempt == pc \in {"pull", "handle", "pushWatermark", "ackWatermark", "ackOffset"}
Handling == InAttempt /\ pc # "pull"
Marking == pc \in {"pushWatermark", "ackWatermark"}

\* Where an attempt is, in its state object and in the input.
Located ==
    /\ Len(heap) >= 1
    /\ Len(heap) <= MaxAttempts - left + (IF pc = "load" THEN 1 ELSE 2)
    /\ InAttempt => context \in DOMAIN heap /\ (copies => context # StoreCell)
    /\ Handling => item \in DOMAIN Input /\ item = heap[context].offset + 1
    /\ Marking => ~IsRecord(item)

Everywhere(i) == \A w \in ToSet(Input[i].windows) : Accounted(w, i)

\* The item that is about to be acknowledged is safe.
Handled == pc = "ackOffset" => Everywhere(item)

IsPushed(w, i) == \E k \in DOMAIN out : out[k].window = w /\ i \in ToSet(out[k].merged)
AllIsPushed == \A i \in DOMAIN Input : \A w \in ToSet(Input[i].windows) : IsPushed(w, i)

\* Where an attempt may begin.
Safe(state) ==
    /\ \A i \in 1 .. state.offset : Everywhere(i)
    /\ state.watermark = EndOfStream => AllIsPushed

CellsAreSafe == \A cell \in DOMAIN heap : Safe(heap[cell])

EndMeansPushed ==
    /\ Marking /\ Input[item].time = EndOfStream => AllIsPushed
    /\ result = "nil" /\ ~cancelled => AllIsPushed

Inv ==
    /\ TypeOK
    /\ Located
    /\ Handled
    /\ CellsAreSafe
    /\ WindowsSkipNothing
    /\ EndMeansPushed

-----------------------------------------------------------------------------
(* Lemmas about the operators *)

LEMMA WindowFacts ==
    /\ Windows = 1 .. Len(End) /\ Len(End) \in Nat
    /\ IsFiniteSet(Windows)
<1>1. Windows = 1 .. Len(End) /\ Len(End) \in Nat
  BY EndAssumption DEF Windows
<1>2. QED
  BY <1>1, FS_Interval

LEMMA InputFacts == Len(Input) \in Nat /\ DOMAIN Input = 1 .. Len(Input)
BY InputAssumption

LEMMA ItemFacts ==
    ASSUME NEW i \in DOMAIN Input
    PROVE  /\ Input[i].time \in 0 .. EndOfStream
           /\ Input[i].windows \in Seq(Windows)
           /\ ToSet(Input[i].windows) \subseteq Windows
           /\ ~IsRecord(i) => ToSet(Input[i].windows) = {}
<1> DEFINE Item == [time : 0 .. EndOfStream, windows : Seq(Windows)]
<1>1. Input \in Seq(Item)
  BY InputAssumption
<1> HIDE DEF Item
<1>2. Input[i] \in Item
  BY <1>1
<1>3. Input[i].time \in 0 .. EndOfStream /\ Input[i].windows \in Seq(Windows)
  BY <1>2 DEF Item
<1>4. ToSet(Input[i].windows) \subseteq Windows
  BY <1>3 DEF ToSet
<1>5. ~IsRecord(i) => Input[i].windows = <<>>
  BY InputAssumption
<1>6. ToSet(<<>>) = {}
  BY DEF ToSet
<1>7. QED
  BY <1>3, <1>4, <1>5, <1>6

\* Of two offsets less than 128 apart, int8 tells which is the later.
LEMMA Int8Compares ==
    ASSUME NEW n \in Int, n + 128 \in 1 .. 255
    PROVE  Int8(n) > 0 <=> n > 0
<1>1. \A m \in 1 .. 255 : m % 256 = m
  OBVIOUS
<1>2. (n + 128) % 256 = n + 128
  BY <1>1
<1>3. QED
  BY <1>2 DEF Int8

LEMMA WindowOffsetType ==
    ASSUME TypeOK, NEW w \in Windows
    PROVE  /\ windows[w] \in Seq(DOMAIN Input) /\ Len(windows[w]) \in Nat
           /\ WindowOffset(w) \in 0 .. Len(Input)
           /\ windows[w] # <<>> => /\ Len(windows[w]) > 0
                                   /\ WindowOffset(w) = windows[w][Len(windows[w])]
                                   /\ WindowOffset(w) \in DOMAIN Input
<1>1. windows[w] \in Seq(DOMAIN Input) /\ Len(windows[w]) \in Nat
  <2>1. windows[w] \in Seq(1 .. Len(Input))
    BY DEF TypeOK
  <2>2. QED
    BY <2>1, InputFacts
<1>2. CASE windows[w] = <<>>
  BY <1>1, <1>2, InputFacts DEF WindowOffset
<1>3. CASE windows[w] # <<>>
  <2>1. Len(windows[w]) > 0 /\ Len(windows[w]) \in DOMAIN windows[w]
    BY <1>1, <1>3
  <2>2. windows[w][Len(windows[w])] \in DOMAIN Input
    BY <1>1, <2>1
  <2>3. QED
    BY <1>1, <1>3, <2>1, <2>2, InputFacts DEF WindowOffset, Last
<1>4. QED
  BY <1>2, <1>3

\* A record is new for a window if it is behind all that were merged.
LEMMA NewForCompares ==
    ASSUME Short, TypeOK, NEW w \in Windows, NEW i \in DOMAIN Input
    PROVE  NewFor(w, i) <=> i > WindowOffset(w)
<1>1. CASE windows[w] = <<>>
  BY <1>1, InputFacts DEF NewFor, WindowOffset
<1>2. CASE windows[w] # <<>>
  <2>1. WindowOffset(w) \in DOMAIN Input
    BY <1>2, WindowOffsetType
  <2>2. /\ i \in Int /\ WindowOffset(w) \in Int /\ i - WindowOffset(w) \in Int
        /\ i - WindowOffset(w) + 128 \in 1 .. 255
    <3>1. i \in 1 .. Len(Input) /\ WindowOffset(w) \in 1 .. Len(Input)
      BY <2>1, InputFacts
    <3>2. \A n \in Nat : n <= 128 => 1 .. n \subseteq 1 .. 128
      OBVIOUS
    <3>3. i \in 1 .. 128 /\ WindowOffset(w) \in 1 .. 128
      BY <3>1, <3>2, InputFacts DEF Short
    <3>4. \A x, y \in 1 .. 128 : x \in Int /\ y \in Int /\ x - y \in Int
                                 /\ x - y + 128 \in 1 .. 255
      OBVIOUS
    <3>5. QED
      BY <3>3, <3>4
  <2>3. Int8(i - WindowOffset(w)) > 0 <=> i - WindowOffset(w) > 0
    BY <2>2, Int8Compares
  <2>4. QED
    BY <1>2, <2>2, <2>3 DEF NewFor
<1>3. QED
  BY <1>1, <1>2

\* Merging adds a record to some windows that it is new for.
LEMMA MergedFacts ==
    ASSUME TypeOK, NEW i \in DOMAIN Input, NEW n \in 0 .. Len(Input[i].windows)
    PROVE  /\ Merged(i, n) \in [Windows -> Seq(DOMAIN Input)]
           /\ \A w \in Windows :
                 Merged(i, n)[w] =
                     IF w \in {Input[i].windows[k] : k \in 1 .. n} /\ NewFor(w, i)
                     THEN Append(windows[w], i) ELSE windows[w]
<1>1. \A w \in Windows : /\ windows[w] \in Seq(DOMAIN Input)
                         /\ Append(windows[w], i) \in Seq(DOMAIN Input)
  <2>1. \A w \in Windows : windows[w] \in Seq(1 .. Len(Input))
    BY DEF TypeOK
  <2>2. QED
    BY <2>1, InputFacts
<1>2. QED
  BY <1>1 DEF Merged

\* A flush visits every window that is due.
LEMMA AscendingFacts ==
    ASSUME NEW time, NEW due \in Ascending(Due(time))
    PROVE  /\ due \in Seq(Windows)
           /\ Len(due) \in Nat /\ DOMAIN due = 1 .. Len(due)
           /\ \A w \in Due(time) : \E k \in 1 .. Len(due) : due[k] = w
<1>1. Due(time) \subseteq Windows /\ IsFiniteSet(Due(time))
  BY WindowFacts, FS_Subset DEF Due
<1>2. Cardinality(Due(time)) \in Nat
  BY <1>1, FS_CardinalityType
<1>3. /\ due \in [1 .. Cardinality(Due(time)) -> Due(time)]
      /\ \A w \in Due(time) : \E k \in 1 .. Cardinality(Due(time)) : due[k] = w
  BY DEF Ascending, Bijection, Injection, Surjection
<1>4. due \in [1 .. Cardinality(Due(time)) -> Windows]
  BY <1>1, <1>3
<1>5. due \in Seq(Windows) /\ Len(due) = Cardinality(Due(time))
  BY <1>2, <1>4
<1>6. QED
  BY <1>2, <1>3, <1>5

-----------------------------------------------------------------------------
(* What is accounted for stays so *)

Grows ==
    /\ \A w \in Windows, i \in DOMAIN Input : Accounted(w, i) => Accounted(w, i)'
    /\ AllIsPushed => AllIsPushed'

LEMMA DataStays ==
    ASSUME Inv, UNCHANGED <<windows, out>>
    PROVE  Grows /\ WindowsSkipNothing'
<1>1. \A w, i : Accounted(w, i)' <=> Accounted(w, i)
  BY DEF Accounted
<1>2. AllIsPushed' <=> AllIsPushed
  BY DEF AllIsPushed, IsPushed
<1>3. \A w : WindowOffset(w)' = WindowOffset(w)
  BY DEF WindowOffset
<1>4. WindowsSkipNothing'
  BY <1>1, <1>3 DEF Inv, WindowsSkipNothing
<1>5. QED
  BY <1>1, <1>2, <1>4 DEF Grows

LEMMA EverywhereGrows ==
    ASSUME Grows, NEW i \in DOMAIN Input, Everywhere(i)
    PROVE  Everywhere(i)'
<1>1. ToSet(Input[i].windows) \subseteq Windows
  BY ItemFacts
<1>2. QED
  BY <1>1 DEF Grows, Everywhere

LEMMA SafeGrows ==
    ASSUME Grows, NEW s \in State, Safe(s)
    PROVE  Safe(s)'
<1>1. 1 .. s.offset \subseteq DOMAIN Input
  BY InputFacts DEF State
<1>2. \A i \in 1 .. s.offset : Everywhere(i)'
  BY <1>1, EverywhereGrows DEF Safe
<1>3. s.watermark = EndOfStream => AllIsPushed'
  BY DEF Safe, Grows
<1>4. QED
  BY <1>2, <1>3 DEF Safe

LEMMA InitIsSafe == InitState \in State /\ Safe(InitState)
<1>1. InitState.offset = 0 /\ InitState.watermark = 0
  BY DEF InitState
<1>2. EndOfStream \in Nat /\ EndOfStream # 0
  BY InputAssumption
<1>3. InitState \in State
  BY <1>2, InputFacts DEF InitState, State
<1>4. QED
  BY <1>1, <1>2, <1>3 DEF Safe

LEMMA CellsStaySafe ==
    ASSUME Inv, Grows,
           \A cell \in DOMAIN heap' :
              \/ heap'[cell] = InitState
              \/ \E c \in DOMAIN heap : heap'[cell] = heap[c]
    PROVE  CellsAreSafe'
<1>1. \A c \in DOMAIN heap : heap[c] \in State
  BY DEF Inv, TypeOK
<1>2. InitState \in State /\ Safe(InitState)
  BY InitIsSafe
<1>3. ASSUME NEW s \in State, Safe(s)
      PROVE  Safe(s)'
  BY <1>3, SafeGrows
<1>4. ASSUME NEW cell \in DOMAIN heap'
      PROVE  Safe(heap[cell])'
  <2>1. PICK s : s = heap'[cell]
    OBVIOUS
  <2>2. s \in State /\ Safe(s)
    BY <1>1, <1>2, <2>1 DEF Inv, CellsAreSafe
  <2>3. Safe(s)'
    BY <1>3, <2>2
  <2>4. QED
    BY <2>1, <2>3 DEF Safe
<1>5. QED
  BY <1>4 DEF CellsAreSafe

\* The attempt acknowledges.
LEMMA CellsStaySafeBut ==
    ASSUME Inv, Grows, NEW state \in State, Safe(state), DOMAIN heap' = DOMAIN heap,
           heap'[context] = state,
           \A cell \in DOMAIN heap : cell # context => heap'[cell] = heap[cell],
           context' = context
    PROVE  CellsAreSafe'
<1>1. \A c \in DOMAIN heap : heap[c] \in State
  BY DEF Inv, TypeOK
<1>2. ASSUME NEW s \in State, Safe(s)
      PROVE  Safe(s)'
  BY <1>2, SafeGrows
<1>3. ASSUME NEW cell \in DOMAIN heap'
      PROVE  Safe(heap[cell])'
  <2>1. PICK s : s = heap'[cell]
    OBVIOUS
  <2>2. s \in State /\ Safe(s)
    BY <1>1, <2>1 DEF Inv, CellsAreSafe
  <2>3. Safe(s)'
    BY <1>2, <2>2
  <2>4. QED
    BY <2>1, <2>3 DEF Safe
<1>4. QED
  BY <1>3 DEF CellsAreSafe

\* An attempt fails, whatever was pushed or merged before.
LEMMA FailFacts ==
    ASSUME Inv, Fail, InAttempt
    PROVE  /\ left' \in 0 .. MaxAttempts
           /\ pc' \in {"load", "returned"} /\ result' \in {"none", "nil", "error"}
           /\ Len(heap) <= MaxAttempts - left' + (IF pc' = "load" THEN 1 ELSE 2)
           /\ result' = "nil" => result = "nil"
<1>1. /\ left \in 0 .. MaxAttempts /\ MaxAttempts \in Nat
      /\ result \in {"none", "nil", "error"} /\ Len(heap) \in Nat
      /\ Len(heap) <= MaxAttempts - left + 2
  BY OptionsAssumption DEF Inv, TypeOK, Located, InAttempt
<1>2. CASE left = 0
  BY <1>1, <1>2 DEF Fail, Return
<1>3. CASE left # 0
  BY <1>1, <1>3 DEF Fail
<1>4. QED
  BY <1>2, <1>3

LEMMA FailKeepsInv ==
    ASSUME Inv, Grows, WindowsSkipNothing', Fail, InAttempt,
           UNCHANGED <<copies, heap, context, snapshot, holders, cancelled, item>>,
           windows' \in [Windows -> Seq(1 .. Len(Input))], out' \in Seq(Pushed)
    PROVE  Inv'
<1>1. /\ left' \in 0 .. MaxAttempts
      /\ pc' \in {"load", "returned"} /\ result' \in {"none", "nil", "error"}
      /\ Len(heap) <= MaxAttempts - left' + (IF pc' = "load" THEN 1 ELSE 2)
      /\ result' = "nil" => result = "nil"
  BY FailFacts
<1>2. ~ InAttempt' /\ ~ Handling' /\ ~ Marking' /\ pc' # "ackOffset"
  BY <1>1 DEF InAttempt, Handling, Marking
<1>3. TypeOK'
  BY <1>1 DEF Inv, TypeOK
<1>4. Located'
  BY <1>1, <1>2 DEF Inv, Located
<1>5. CellsAreSafe'
  BY CellsStaySafe
<1>6. EndMeansPushed'
  BY <1>1, <1>2 DEF Inv, EndMeansPushed, Grows
<1>7. QED
  BY <1>2, <1>3, <1>4, <1>5, <1>6 DEF Inv, Handled

-----------------------------------------------------------------------------
(* Steps that leave the data alone *)

LEMMA ReturnCancelledKeepsInv ==
    ASSUME Inv, ReturnCancelled
    PROVE  Inv'
<1>1. Grows /\ WindowsSkipNothing'
  BY DataStays DEF ReturnCancelled
<1>2. CellsAreSafe'
  BY <1>1, CellsStaySafe DEF ReturnCancelled
<1>3. TypeOK'
  BY DEF ReturnCancelled, Return, Inv, TypeOK
<1>4. Located'
  <2>1. Len(heap) \in Nat /\ left \in Nat /\ MaxAttempts \in Nat
    BY OptionsAssumption DEF Inv, TypeOK
  <2>2. QED
    BY <2>1 DEF ReturnCancelled, Return, Inv, Located, InAttempt, Handling, Marking
<1>5. Handled' /\ EndMeansPushed'
  BY DEF ReturnCancelled, Return, Handled, EndMeansPushed, Marking
<1>6. QED
  BY <1>1, <1>2, <1>3, <1>4, <1>5 DEF Inv

LEMMA LoadFailsKeepsInv ==
    ASSUME Inv, LoadFails
    PROVE  Inv'
<1>1. Grows /\ WindowsSkipNothing'
  BY DataStays DEF LoadFails
<1>2. CellsAreSafe'
  BY <1>1, CellsStaySafe DEF LoadFails
<1>3. TypeOK'
  BY DEF LoadFails, Return, Inv, TypeOK
<1>4. Located'
  <2>1. Len(heap) \in Nat /\ left \in Nat /\ MaxAttempts \in Nat
    BY OptionsAssumption DEF Inv, TypeOK
  <2>2. QED
    BY <2>1 DEF LoadFails, Return, Inv, Located, InAttempt, Handling, Marking
<1>5. Handled' /\ EndMeansPushed'
  BY DEF LoadFails, Return, Handled, EndMeansPushed, Marking
<1>6. QED
  BY <1>1, <1>2, <1>3, <1>4, <1>5 DEF Inv

LEMMA LoadKeepsInv ==
    ASSUME Inv, Load
    PROVE  Inv'
<1>1. Grows /\ WindowsSkipNothing'
  BY DataStays DEF Load
<1>2. /\ heap \in Seq(State) /\ Len(heap) \in Nat /\ DOMAIN heap = 1 .. Len(heap)
      /\ Len(heap) >= 1 /\ Len(heap) <= MaxAttempts - left + 1
      /\ left \in 0 .. MaxAttempts /\ MaxAttempts \in Nat
      /\ snapshot \in 0 .. Len(heap) /\ holders \subseteq 1 .. Len(heap)
  BY OptionsAssumption DEF Load, Inv, TypeOK, Located
<1>3. /\ heap' \in Seq(State) /\ DOMAIN heap' = 1 .. Len(heap') /\ Len(heap') \in Nat
      /\ Len(heap) <= Len(heap') /\ Len(heap') <= Len(heap) + 1
      /\ context' \in 1 .. Len(heap') /\ (copies => context' # StoreCell)
      /\ \A cell \in DOMAIN heap' :
            \/ heap'[cell] = InitState
            \/ \E c \in DOMAIN heap : heap'[cell] = heap[c]
  <2>1. CASE snapshot # 0 /\ ~copies
    BY <1>2, <2>1 DEF Load
  <2>2. CASE ~(snapshot # 0 /\ ~copies)
    <3> DEFINE state == IF snapshot = 0 THEN InitState ELSE heap[snapshot]
    <3>1. heap' = Append(heap, state) /\ context' = Len(heap')
      BY <2>2 DEF Load
    <3>2. /\ state \in State
          /\ state = InitState \/ \E c \in DOMAIN heap : state = heap[c]
      BY <1>2, InitIsSafe
    <3> HIDE DEF state
    <3>3. /\ heap' \in Seq(State) /\ Len(heap') = Len(heap) + 1
          /\ DOMAIN heap' = 1 .. Len(heap) + 1
          /\ \A cell \in 1 .. Len(heap) : heap'[cell] = heap[cell]
          /\ heap'[Len(heap) + 1] = state
      BY <1>2, <3>1, <3>2
    <3>4. \A cell \in DOMAIN heap' : cell \in DOMAIN heap \/ cell = Len(heap) + 1
      BY <1>2, <3>3
    <3>5. QED
      BY <1>2, <3>1, <3>2, <3>3, <3>4 DEF StoreCell
  <2>3. QED
    BY <2>1, <2>2
<1>4. /\ pc' = "pull" /\ holders' \subseteq 1 .. Len(heap')
      /\ UNCHANGED <<copies, snapshot, cancelled, windows, out, item, left, result>>
  <2>1. holders' = IF AutoSnapshot THEN holders \cup {context'} ELSE holders
    BY DEF Load
  <2>2. 1 .. Len(heap) \subseteq 1 .. Len(heap')
    BY <1>2, <1>3
  <2>3. holders' \subseteq 1 .. Len(heap')
    BY <1>2, <1>3, <2>1, <2>2
  <2>4. QED
    BY <2>3 DEF Load
<1>5. TypeOK'
  BY <1>2, <1>3, <1>4 DEF Inv, TypeOK
<1>6. Located'
  BY <1>2, <1>3, <1>4 DEF Located, InAttempt, Handling, Marking
<1>7. CellsAreSafe'
  BY <1>1, <1>3, CellsStaySafe
<1>8. Handled' /\ EndMeansPushed'
  BY <1>1, <1>4 DEF Inv, Handled, EndMeansPushed, Marking, Grows
<1>9. QED
  BY <1>1, <1>5, <1>6, <1>7, <1>8 DEF Inv

LEMMA SnapshotKeepsInv ==
    ASSUME Inv, NEW h \in holders, Snapshot(h)
    PROVE  Inv'
<1>1. Grows /\ WindowsSkipNothing'
  BY DataStays DEF Snapshot
<1>2. /\ heap \in Seq(State) /\ Len(heap) \in Nat /\ DOMAIN heap = 1 .. Len(heap)
      /\ Len(heap) >= 1 /\ h \in DOMAIN heap /\ StoreCell \in DOMAIN heap
  BY DEF Inv, TypeOK, Located, StoreCell
<1>3. /\ heap' \in Seq(State) /\ Len(heap') = Len(heap) /\ DOMAIN heap' = DOMAIN heap
      /\ snapshot' \in 0 .. Len(heap)
      /\ \A cell \in DOMAIN heap : \/ heap'[cell] = heap[cell]
                                   \/ cell = StoreCell /\ copies /\ heap'[cell] = heap[h]
  <2>1. CASE copies
    <3>1. heap' = [heap EXCEPT ![StoreCell] = heap[h]] /\ snapshot' = StoreCell
      BY <2>1 DEF Snapshot
    <3>2. heap[h] \in State /\ StoreCell \in 0 .. Len(heap)
      BY <1>2
    <3>3. heap' \in Seq(State) /\ Len(heap') = Len(heap) /\ DOMAIN heap' = DOMAIN heap
      BY <1>2, <3>1, <3>2
    <3>4. QED
      BY <1>2, <2>1, <3>1, <3>2, <3>3
  <2>2. CASE ~copies
    BY <1>2, <2>2 DEF Snapshot
  <2>3. QED
    BY <2>1, <2>2
<1>4. UNCHANGED <<copies, context, holders, cancelled, windows, out, item, pc, left, result>>
  BY DEF Snapshot
<1>5. TypeOK'
  BY <1>3, <1>4 DEF Inv, TypeOK
<1>6. Located'
  <2>1. InAttempt => heap'[context] = heap[context]
    BY <1>3 DEF Inv, Located
  <2>2. QED
    BY <1>3, <1>4, <2>1 DEF Inv, Located, InAttempt, Handling, Marking
<1>7. CellsAreSafe'
  BY <1>1, <1>2, <1>3, CellsStaySafe
<1>8. Handled'
  <2>1. Handled /\ (pc = "ackOffset" => item \in DOMAIN Input)
    BY DEF Inv, Located, Handling, InAttempt
  <2>2. QED
    BY <1>1, <1>4, <2>1, EverywhereGrows DEF Handled
<1>9. EndMeansPushed'
  BY <1>1, <1>4 DEF Inv, EndMeansPushed, Marking, Grows
<1>10. QED
  BY <1>1, <1>5, <1>6, <1>7, <1>8, <1>9 DEF Inv

LEMMA SnapshotFailsKeepsInv ==
    ASSUME Inv, NEW h \in holders, SnapshotFails(h) \/ Stop(h)
    PROVE  Inv'
<1>1. /\ UNCHANGED <<copies, heap, context, snapshot, windows, out, item, pc, left, result>>
      /\ holders' = holders \ {h} /\ cancelled' \in BOOLEAN
      /\ cancelled' = cancelled \/ cancelled'
  BY DEF SnapshotFails, Stop, Inv, TypeOK
<1>2. Grows /\ WindowsSkipNothing'
  BY <1>1, DataStays
<1>3. TypeOK'
  BY <1>1 DEF Inv, TypeOK
<1>4. Located'
  BY <1>1 DEF Inv, Located, InAttempt, Handling, Marking
<1>5. CellsAreSafe'
  BY <1>1, <1>2, CellsStaySafe
<1>6. Handled'
  <2>1. Handled /\ (pc = "ackOffset" => item \in DOMAIN Input)
    BY DEF Inv, Located, Handling, InAttempt
  <2>2. QED
    BY <1>1, <1>2, <2>1, EverywhereGrows DEF Handled
<1>7. EndMeansPushed'
  BY <1>1, <1>2 DEF Inv, EndMeansPushed, Marking, Grows
<1>8. QED
  BY <1>2, <1>3, <1>4, <1>5, <1>6, <1>7 DEF Inv

LEMMA FinishKeepsInv ==
    ASSUME Inv, Finish
    PROVE  Inv'
<1>1. /\ pc = "pull" /\ heap[context].watermark = EndOfStream
      /\ pc' = "returned" /\ result' = "nil"
      /\ UNCHANGED <<copies, heap, context, snapshot, holders, cancelled, windows, out, item,
                     left>>
  BY DEF Finish, Return
<1>2. Grows /\ WindowsSkipNothing'
  BY <1>1, DataStays
<1>3. TypeOK'
  BY <1>1 DEF Inv, TypeOK
<1>4. Located'
  BY <1>1 DEF Inv, Located, InAttempt, Handling, Marking
<1>5. CellsAreSafe'
  BY <1>1, <1>2, CellsStaySafe
<1>6. AllIsPushed
  <2>1. context \in DOMAIN heap
    BY <1>1 DEF Inv, Located, InAttempt
  <2>2. QED
    BY <1>1, <2>1 DEF Inv, CellsAreSafe, Safe
<1>7. Handled' /\ EndMeansPushed'
  BY <1>1, <1>2, <1>6 DEF Handled, EndMeansPushed, Marking, Grows
<1>8. QED
  BY <1>2, <1>3, <1>4, <1>5, <1>7 DEF Inv

LEMMA PullInKeepsInv ==
    ASSUME Inv, PullIn
    PROVE  Inv'
<1>1. /\ pc = "pull" /\ pc' = "handle"
      /\ heap[context].offset < Len(Input) /\ item' = heap[context].offset + 1
      /\ UNCHANGED <<copies, heap, context, snapshot, holders, cancelled, windows, out, left,
                     result>>
  BY DEF PullIn
<1>2. Grows /\ WindowsSkipNothing'
  BY <1>1, DataStays
<1>3. context \in DOMAIN heap /\ heap[context].offset \in 0 .. Len(Input)
  <2>1. context \in DOMAIN heap
    BY <1>1 DEF Inv, Located, InAttempt
  <2>2. heap \in Seq(State)
    BY DEF Inv, TypeOK
  <2>3. heap[context] \in State
    BY <2>1, <2>2
  <2>4. QED
    BY <2>1, <2>3 DEF State
<1>4. item' \in 1 .. Len(Input) /\ item' \in 0 .. Len(Input)
  BY <1>1, <1>3, InputFacts
<1>5. TypeOK'
  BY <1>1, <1>4 DEF Inv, TypeOK
<1>6. Located'
  BY <1>1, <1>4, InputFacts DEF Inv, Located, InAttempt, Handling, Marking
<1>7. CellsAreSafe'
  BY <1>1, <1>2, CellsStaySafe
<1>8. Handled' /\ EndMeansPushed'
  BY <1>1, <1>2 DEF Inv, Handled, EndMeansPushed, Marking, Grows
<1>9. QED
  BY <1>2, <1>5, <1>6, <1>7, <1>8 DEF Inv

LEMMA PullFailsKeepsInv ==
    ASSUME Inv, PullFails
    PROVE  Inv'
<1>1. /\ InAttempt /\ Fail
      /\ UNCHANGED <<copies, heap, context, snapshot, holders, cancelled, windows, out, item>>
  BY DEF PullFails, InAttempt
<1>2. Grows /\ WindowsSkipNothing'
  BY <1>1, DataStays
<1>3. windows' \in [Windows -> Seq(1 .. Len(Input))] /\ out' \in Seq(Pushed)
  BY <1>1 DEF Inv, TypeOK
<1>4. QED
  BY <1>1, <1>2, <1>3, FailKeepsInv

-----------------------------------------------------------------------------
(* Records *)

\* What the state object of the attempt has consumed is accounted for.
LEMMA ConsumedIsSafe ==
    ASSUME Inv, Handling
    PROVE  /\ item \in DOMAIN Input /\ item \in Nat
           /\ context \in DOMAIN heap /\ heap[context] \in State
           /\ heap[context].offset = item - 1
           /\ \A i \in 1 .. item - 1 : i \in DOMAIN Input /\ Everywhere(i)
<1>1. /\ item \in 1 .. Len(Input) /\ item = heap[context].offset + 1
      /\ context \in DOMAIN heap /\ heap[context] \in State
  BY InputFacts DEF Inv, TypeOK, Located, Handling
<1>2. heap[context].offset \in Nat
  BY <1>1, InputFacts DEF State
<1>3. heap[context].offset = item - 1
  BY <1>1, <1>2
<1>4. \A i \in 1 .. item - 1 : i \in DOMAIN Input
  BY <1>1, InputFacts
<1>5. Safe(heap[context])
  BY <1>1 DEF Inv, CellsAreSafe
<1>6. \A i \in 1 .. item - 1 : Everywhere(i)
  BY <1>3, <1>5 DEF Safe
<1>7. QED
  BY <1>1, <1>3, <1>4, <1>6, InputFacts

LEMMA AppendFacts ==
    ASSUME NEW S, NEW s \in Seq(S), NEW x \in S
    PROVE  /\ Append(s, x) \in Seq(S) /\ Len(Append(s, x)) = Len(s) + 1
           /\ Append(s, x) # <<>>
           /\ \A k \in 1 .. Len(s) : Append(s, x)[k] = s[k]
           /\ Append(s, x)[Len(s) + 1] = x
           /\ \A i \in ToSet(s) : i \in ToSet(Append(s, x))
           /\ x \in ToSet(Append(s, x))
<1>1. /\ Append(s, x) \in Seq(S) /\ Len(Append(s, x)) = Len(s) + 1
      /\ DOMAIN Append(s, x) = 1 .. Len(s) + 1
      /\ DOMAIN s = 1 .. Len(s) /\ Len(s) \in Nat
      /\ \A k \in 1 .. Len(s) : Append(s, x)[k] = s[k]
      /\ Append(s, x)[Len(s) + 1] = x
  OBVIOUS
<1>2. \A k \in 1 .. Len(s) + 1 : k \in DOMAIN Append(s, x)
  BY <1>1
<1>3. Len(s) + 1 \in 1 .. Len(s) + 1 /\ 1 .. Len(s) \subseteq 1 .. Len(s) + 1
  BY <1>1
<1>4. \A i \in ToSet(s) : i \in ToSet(Append(s, x))
  BY <1>1, <1>2, <1>3 DEF ToSet
<1>5. x \in ToSet(Append(s, x))
  BY <1>1, <1>2, <1>3 DEF ToSet
<1>6. QED
  BY <1>1, <1>4, <1>5

LEMMA MergeRecordKeepsInv ==
    ASSUME Short, Inv, MergeRecord
    PROVE  Inv'
<1> DEFINE ws == Input[item].windows
<1>1. /\ pc = "handle" /\ InAttempt /\ Handling
      /\ UNCHANGED <<copies, heap, context, snapshot, holders, cancelled, out, item>>
  BY DEF MergeRecord, InAttempt, Handling
<1>2. PICK n \in 0 .. Len(ws) :
         /\ windows' = Merged(item, n)
         /\ IF n = Len(ws)
            THEN pc' = "ackOffset" /\ UNCHANGED <<left, result>>
            ELSE Fail
  BY DEF MergeRecord
<1>3. /\ item \in DOMAIN Input /\ item \in Nat
      /\ \A i \in 1 .. item - 1 : i \in DOMAIN Input /\ Everywhere(i)
  BY <1>1, ConsumedIsSafe
<1>4. /\ windows' \in [Windows -> Seq(1 .. Len(Input))]
      /\ \A w \in Windows :
            windows'[w] = IF w \in {ws[k] : k \in 1 .. n} /\ NewFor(w, item)
                          THEN Append(windows[w], item) ELSE windows[w]
  BY <1>2, <1>3, MergedFacts, InputFacts DEF Inv
<1>5. \A w \in Windows : NewFor(w, item) <=> item > WindowOffset(w)
  BY <1>3, NewForCompares DEF Inv
<1>6. \A w \in Windows :
         /\ windows[w] \in Seq(DOMAIN Input) /\ Len(windows[w]) \in Nat
         /\ WindowOffset(w) \in 0 .. Len(Input)
         /\ windows[w] # <<>> => /\ Len(windows[w]) > 0
                                 /\ WindowOffset(w) = windows[w][Len(windows[w])]
  BY WindowOffsetType DEF Inv
<1>7. ASSUME NEW w \in Windows
      PROVE  \/ windows'[w] = windows[w]
             \/ /\ item > WindowOffset(w)
                /\ windows'[w] = Append(windows[w], item)
                /\ windows'[w] \in Seq(DOMAIN Input) /\ Len(windows'[w]) = Len(windows[w]) + 1
                /\ \A k \in 1 .. Len(windows[w]) : windows'[w][k] = windows[w][k]
                /\ windows'[w][Len(windows[w]) + 1] = item
                /\ \A i \in ToSet(windows[w]) : i \in ToSet(windows'[w])
                /\ item \in ToSet(windows'[w])
  <2>1. CASE w \in {ws[k] : k \in 1 .. n} /\ NewFor(w, item)
    <3>1. windows'[w] = Append(windows[w], item) /\ item > WindowOffset(w)
      BY <1>4, <1>5, <2>1
    <3>2. QED
      BY <1>3, <1>6, <3>1, AppendFacts
  <2>2. CASE ~(w \in {ws[k] : k \in 1 .. n} /\ NewFor(w, item))
    BY <1>4, <2>2
  <2>3. QED
    BY <2>1, <2>2
<1>8. Grows
  <2>1. \A w \in Windows, i \in DOMAIN Input : Accounted(w, i) => Accounted(w, i)'
    BY <1>1, <1>7 DEF Accounted
  <2>2. AllIsPushed => AllIsPushed'
    BY <1>1 DEF AllIsPushed, IsPushed
  <2>3. QED
    BY <2>1, <2>2 DEF Grows
<1>9. WindowsSkipNothing'
  <2>1. ASSUME NEW w \in Windows, windows'[w] = windows[w]
        PROVE  /\ \A k \in 1 .. Len(windows'[w]) - 1 : windows'[w][k] < windows'[w][k + 1]
               /\ \A i \in 1 .. WindowOffset(w)' :
                     w \in ToSet(Input[i].windows) => Accounted(w, i)'
    <3>1. WindowOffset(w)' = WindowOffset(w)
      BY <2>1 DEF WindowOffset
    <3>2. 1 .. WindowOffset(w) \subseteq DOMAIN Input
      BY <1>6, InputFacts
    <3>3. QED
      BY <1>8, <2>1, <3>1, <3>2 DEF Inv, WindowsSkipNothing, Grows
  <2>2. ASSUME NEW w \in Windows, windows'[w] # windows[w]
        PROVE  /\ \A k \in 1 .. Len(windows'[w]) - 1 : windows'[w][k] < windows'[w][k + 1]
               /\ \A i \in 1 .. WindowOffset(w)' :
                     w \in ToSet(Input[i].windows) => Accounted(w, i)'
    <3>1. /\ item > WindowOffset(w)
          /\ windows'[w] \in Seq(DOMAIN Input) /\ Len(windows'[w]) = Len(windows[w]) + 1
          /\ \A k \in 1 .. Len(windows[w]) : windows'[w][k] = windows[w][k]
          /\ windows'[w][Len(windows[w]) + 1] = item
          /\ item \in ToSet(windows'[w])
      BY <1>7, <2>2
    <3>2. Len(windows[w]) \in Nat
      BY <1>6
    <3>3. WindowOffset(w)' = item
      <4>1. windows'[w] # <<>>
        BY <3>1, <3>2
      <4>2. QED
        BY <3>1, <4>1 DEF WindowOffset, Last
    <3>4. ASSUME NEW k \in 1 .. Len(windows'[w]) - 1
          PROVE  windows'[w][k] < windows'[w][k + 1]
      <4>1. k \in 1 .. Len(windows[w])
        BY <3>1, <3>2, <3>4
      <4>2. CASE k = Len(windows[w])
        <5>1. windows[w] # <<>>
          BY <3>2, <4>1, <4>2
        <5>2. windows'[w][k] = WindowOffset(w) /\ windows'[w][k + 1] = item
          BY <1>6, <3>1, <4>1, <4>2, <5>1
        <5>3. QED
          BY <1>3, <1>6, <3>1, <5>2
      <4>3. CASE k # Len(windows[w])
        <5>1. k \in 1 .. Len(windows[w]) - 1 /\ k + 1 \in 1 .. Len(windows[w])
          BY <3>2, <4>1, <4>3
        <5>2. windows'[w][k] = windows[w][k] /\ windows'[w][k + 1] = windows[w][k + 1]
          BY <3>1, <4>1, <5>1
        <5>3. windows[w][k] < windows[w][k + 1]
          BY <5>1 DEF Inv, WindowsSkipNothing
        <5>4. QED
          BY <5>2, <5>3
      <4>4. QED
        BY <4>2, <4>3
    <3>5. ASSUME NEW i \in 1 .. item, w \in ToSet(Input[i].windows)
          PROVE  Accounted(w, i)'
      <4>1. CASE i = item
        BY <3>1, <4>1 DEF Accounted
      <4>2. CASE i # item
        <5>1. i \in 1 .. item - 1
          BY <1>3, <4>2
        <5>2. i \in DOMAIN Input /\ Accounted(w, i)
          BY <1>3, <3>5, <5>1 DEF Everywhere
        <5>3. QED
          BY <1>8, <5>2 DEF Grows
      <4>3. QED
        BY <4>1, <4>2
    <3>6. QED
      BY <3>3, <3>4, <3>5
  <2>3. QED
    BY <2>1, <2>2 DEF WindowsSkipNothing
<1>10. out' \in Seq(Pushed)
  BY <1>1 DEF Inv, TypeOK
<1>11. CASE Fail
  BY <1>1, <1>4, <1>8, <1>9, <1>10, <1>11, FailKeepsInv
<1>12. CASE n = Len(ws) /\ pc' = "ackOffset" /\ UNCHANGED <<left, result>>
  <2>1. TypeOK'
    BY <1>1, <1>4, <1>10, <1>12 DEF Inv, TypeOK
  <2>2. Located'
    BY <1>1, <1>12 DEF Inv, Located, InAttempt, Handling, Marking
  <2>3. CellsAreSafe'
    BY <1>1, <1>8, CellsStaySafe
  <2>4. EndMeansPushed'
    BY <1>1, <1>8, <1>12 DEF Inv, EndMeansPushed, Marking, Grows
  <2>5. ASSUME NEW w \in ToSet(ws)
        PROVE  Accounted(w, item)'
    <3>1. w \in Windows
      BY <1>3, ItemFacts
    <3>2. w \in {ws[k] : k \in 1 .. n}
      <4>1. ws \in Seq(Windows)
        BY <1>3, ItemFacts
      <4>2. DOMAIN ws = 1 .. n
        BY <1>12, <4>1
      <4>3. QED
        BY <4>2 DEF ToSet
    <3>3. CASE NewFor(w, item)
      <4>1. windows'[w] = Append(windows[w], item)
        BY <1>4, <3>1, <3>2, <3>3
      <4>2. item \in ToSet(windows'[w])
        BY <1>3, <1>6, <3>1, <4>1, AppendFacts
      <4>3. QED
        BY <1>1, <4>2 DEF Accounted
    <3>4. CASE ~ NewFor(w, item)
      <4>1. item \in 1 .. WindowOffset(w)
        BY <1>3, <1>5, <1>6, <3>1, <3>4, InputFacts
      <4>2. Accounted(w, item)
        BY <3>1, <4>1 DEF Inv, WindowsSkipNothing
      <4>3. PICK i \in DOMAIN Input : i = item
        BY <1>3
      <4>4. Accounted(w, i)'
        BY <1>8, <3>1, <4>2, <4>3 DEF Grows
      <4>5. QED
        BY <1>1, <4>3, <4>4 DEF Accounted
    <3>5. QED
      BY <3>3, <3>4
  <2>6. Handled'
    BY <1>1, <2>5 DEF Handled, Everywhere
  <2>7. QED
    BY <1>9, <2>1, <2>2, <2>3, <2>4, <2>6 DEF Inv
<1>13. QED
  BY <1>2, <1>11, <1>12

-----------------------------------------------------------------------------
(* Watermarks *)

\* The output only grows, and a window is emptied only when it was pushed.
LEMMA OutputStays ==
    ASSUME Inv, DOMAIN out \subseteq DOMAIN out',
           \A k \in DOMAIN out : out'[k] = out[k],
           \A w \in Windows :
              \/ windows'[w] = windows[w]
              \/ /\ windows'[w] = <<>>
                 /\ \E k \in DOMAIN out' :
                       out'[k].window = w /\ out'[k].merged = windows[w]
    PROVE  Grows /\ WindowsSkipNothing'
<1>1. ASSUME NEW w \in Windows, NEW i \in DOMAIN Input, Accounted(w, i)
      PROVE  Accounted(w, i)'
  <2>1. CASE i \in ToSet(windows[w])
    BY <2>1 DEF Accounted
  <2>2. CASE \E k \in DOMAIN out : out[k].window = w /\ i \in ToSet(out[k].merged)
    BY <2>2 DEF Accounted
  <2>3. QED
    BY <1>1, <2>1, <2>2 DEF Accounted
<1>2. AllIsPushed => AllIsPushed'
  <2>1. \A w, i : IsPushed(w, i) => IsPushed(w, i)'
    BY DEF IsPushed
  <2>2. QED
    BY <2>1 DEF AllIsPushed
<1>3. ASSUME NEW w \in Windows
      PROVE  /\ \A k \in 1 .. Len(windows'[w]) - 1 : windows'[w][k] < windows'[w][k + 1]
             /\ \A i \in 1 .. WindowOffset(w)' :
                   w \in ToSet(Input[i].windows) => Accounted(w, i)'
  <2>1. CASE windows'[w] = windows[w]
    <3>1. WindowOffset(w)' = WindowOffset(w)
      BY <2>1 DEF WindowOffset
    <3>2. 1 .. WindowOffset(w) \subseteq DOMAIN Input
      BY WindowOffsetType, InputFacts DEF Inv
    <3>3. QED
      BY <1>1, <2>1, <3>1, <3>2 DEF Inv, WindowsSkipNothing
  <2>2. CASE windows'[w] = <<>>
    <3>1. WindowOffset(w)' = 0 /\ Len(windows'[w]) = 0
      BY <2>2 DEF WindowOffset
    <3>2. 1 .. 0 = {} /\ 1 .. 0 - 1 = {}
      OBVIOUS
    <3>3. QED
      BY <3>1, <3>2
  <2>3. QED
    BY <2>1, <2>2
<1>4. QED
  BY <1>1, <1>2, <1>3 DEF Grows, WindowsSkipNothing

LEMMA ConcatFacts ==
    ASSUME NEW S, NEW s \in Seq(S), NEW t \in Seq(S)
    PROVE  /\ s \o t \in Seq(S)
           /\ DOMAIN s \subseteq DOMAIN (s \o t)
           /\ \A k \in DOMAIN s : (s \o t)[k] = s[k]
           /\ \A k \in 1 .. Len(t) :
                 Len(s) + k \in DOMAIN (s \o t) /\ (s \o t)[Len(s) + k] = t[k]
<1>1. /\ DOMAIN s = 1 .. Len(s) /\ Len(s) \in Nat /\ Len(t) \in Nat
      /\ DOMAIN (s \o t) = 1 .. Len(s) + Len(t)
  BY ConcatProperties
<1>2. \A k \in DOMAIN s : (s \o t)[k] = s[k]
  BY <1>1, ConcatProperties
<1>3. ASSUME NEW k \in 1 .. Len(t)
      PROVE  Len(s) + k \in DOMAIN (s \o t) /\ (s \o t)[Len(s) + k] = t[k]
  <2>1. Len(s) + k \in 1 .. Len(s) + Len(t) /\ Len(s) + k > Len(s)
    BY <1>1
  <2>2. Len(s) + k - Len(s) = k
    BY <1>1
  <2>3. QED
    BY <1>1, <2>1, <2>2, ConcatProperties
<1>4. QED
  BY <1>1, <1>2, <1>3, ConcatProperties

LEMMA FlushKeepsInv ==
    ASSUME Inv, Flush
    PROVE  Inv'
<1> DEFINE time == Input[item].time
<1>1. /\ pc = "handle" /\ InAttempt /\ Handling /\ ~IsRecord(item)
      /\ UNCHANGED <<copies, heap, context, snapshot, holders, cancelled, item>>
  BY DEF Flush, InAttempt, Handling
<1>due. PICK due \in Ascending(Due(time)) :
       \E n \in 0 .. Len(due) :
          /\ out' = out \o Results(due, n)
          /\ IF n = Len(due)
             THEN /\ Delete(Due(time))
                  /\ pc' = "pushWatermark" /\ UNCHANGED <<left, result>>
             ELSE Fail /\ UNCHANGED windows
  BY DEF Flush
<1>2. PICK n \in 0 .. Len(due) :
         /\ out' = out \o Results(due, n)
         /\ IF n = Len(due)
            THEN /\ Delete(Due(time))
                 /\ pc' = "pushWatermark" /\ UNCHANGED <<left, result>>
            ELSE Fail /\ UNCHANGED windows
  BY <1>due
<1>3. /\ item \in DOMAIN Input /\ item \in Nat /\ item \in 1 .. Len(Input)
      /\ \A i \in 1 .. item - 1 : i \in DOMAIN Input /\ Everywhere(i)
  BY <1>1, ConsumedIsSafe, InputFacts
<1>4. /\ due \in Seq(Windows) /\ Len(due) \in Nat /\ DOMAIN due = 1 .. Len(due)
      /\ \A w \in Due(time) : \E k \in 1 .. Len(due) : due[k] = w
  BY AscendingFacts
<1>5. windows \in [Windows -> Seq(1 .. Len(Input))] /\ out \in Seq(Pushed)
  BY DEF Inv, TypeOK
<1>6. /\ Results(due, n) \in Seq(Pushed) /\ Len(Results(due, n)) = n
      /\ \A k \in 1 .. n : /\ Results(due, n)[k].window = due[k]
                           /\ Results(due, n)[k].merged = windows[due[k]]
  <2>1. \A k \in 1 .. n : due[k] \in Windows
    <3>1. n \in Nat /\ 1 .. n \subseteq 1 .. Len(due)
      BY <1>4
    <3>2. QED
      BY <1>4, <3>1
  <2>2. \A k \in 1 .. n :
           [window |-> due[k], merged |-> windows[due[k]], at |-> item] \in Pushed
    BY <1>3, <1>5, <2>1 DEF Pushed
  <2>3. Results(due, n) \in [1 .. n -> Pushed] /\ n \in Nat
    <3>1. n \in Nat
      BY <1>4
    <3>2. QED
      BY <2>2, <3>1 DEF Results
  <2>4. Results(due, n) \in Seq(Pushed) /\ Len(Results(due, n)) = n
    BY <2>3
  <2>5. QED
    BY <2>4 DEF Results
<1>7. /\ out' \in Seq(Pushed) /\ DOMAIN out \subseteq DOMAIN out'
      /\ \A k \in DOMAIN out : out'[k] = out[k]
      /\ \A k \in 1 .. n : Len(out) + k \in DOMAIN out'
                           /\ out'[Len(out) + k].window = due[k]
                           /\ out'[Len(out) + k].merged = windows[due[k]]
  <2> DEFINE results == Results(due, n)
  <2>1. /\ results \in Seq(Pushed) /\ Len(results) = n /\ out' = out \o results
        /\ \A k \in 1 .. n : /\ results[k].window = due[k]
                             /\ results[k].merged = windows[due[k]]
    BY <1>2, <1>6
  <2> HIDE DEF results
  <2>2. /\ out' \in Seq(Pushed) /\ DOMAIN out \subseteq DOMAIN out'
        /\ \A k \in DOMAIN out : out'[k] = out[k]
        /\ \A k \in 1 .. n : Len(out) + k \in DOMAIN out'
                             /\ out'[Len(out) + k] = results[k]
    BY <1>5, <2>1, ConcatFacts
  <2>3. QED
    BY <2>1, <2>2
<1>8. CASE n = Len(due) /\ Delete(Due(time)) /\ pc' = "pushWatermark"
           /\ UNCHANGED <<left, result>>
  <2>1. \A w \in Windows : windows'[w] = IF w \in Due(time) THEN <<>> ELSE windows[w]
    BY <1>8 DEF Delete
  <2>2. windows' \in [Windows -> Seq(1 .. Len(Input))]
    <3> DEFINE Kept == Seq(1 .. Len(Input))
    <3>1. <<>> \in Kept
      OBVIOUS
    <3> HIDE DEF Kept
    <3>2. windows \in [Windows -> Kept]
      BY <1>5 DEF Kept
    <3>3. windows' \in [Windows -> Kept]
      BY <1>8, <3>1, <3>2 DEF Delete
    <3>4. QED
      BY <3>3 DEF Kept
  <2>3. ASSUME NEW w \in Due(time)
        PROVE  \E k \in DOMAIN out' : out'[k].window = w /\ out'[k].merged = windows[w]
    <3>1. PICK k \in 1 .. n : due[k] = w
      BY <1>4, <1>8
    <3>2. QED
      BY <1>7, <3>1
  <2>4. Grows /\ WindowsSkipNothing'
    BY <1>7, <2>1, <2>3, OutputStays
  <2>5. TypeOK'
    BY <1>1, <1>7, <1>8, <2>2 DEF Inv, TypeOK
  <2>6. Located'
    BY <1>1, <1>8 DEF Inv, Located, InAttempt, Handling, Marking, IsRecord
  <2>7. CellsAreSafe'
    BY <1>1, <2>4, CellsStaySafe
  <2>8. ASSUME time = EndOfStream
        PROVE  AllIsPushed'
    <3>1. item = Len(Input)
      BY <1>3, <2>8, InputAssumption
    <3>2. ASSUME NEW i \in DOMAIN Input, NEW w \in ToSet(Input[i].windows)
          PROVE  IsPushed(w, i)'
      <4>1. w \in Windows /\ i # item
        BY <1>1, <3>2, ItemFacts
      <4>2. i \in 1 .. item - 1
        BY <3>1, <4>1, InputFacts
      <4>3. Accounted(w, i)
        BY <1>3, <4>2 DEF Everywhere
      <4>4. Accounted(w, i)'
        BY <2>4, <4>1, <4>3 DEF Grows
      <4>5. i \notin ToSet(windows'[w])
        <5>1. End[w] <= time
          BY <2>8, <4>1, EndAssumption
        <5>2. windows[w] # <<>> => w \in Due(time)
          BY <4>1, <5>1 DEF Due
        <5>3. windows'[w] = <<>>
          BY <2>1, <4>1, <5>2
        <5>4. QED
          BY <5>3 DEF ToSet
      <4>6. QED
        BY <4>4, <4>5 DEF Accounted, IsPushed
    <3>3. QED
      BY <3>2 DEF AllIsPushed
  <2>9. EndMeansPushed'
    BY <1>1, <1>8, <2>4, <2>8 DEF Inv, EndMeansPushed, Grows
  <2>10. QED
    BY <1>8, <2>4, <2>5, <2>6, <2>7, <2>9 DEF Inv, Handled
<1>9. CASE Fail /\ UNCHANGED windows
  <2>1. Grows /\ WindowsSkipNothing'
    BY <1>7, <1>9, OutputStays
  <2>2. QED
    BY <1>1, <1>5, <1>7, <1>9, <2>1, FailKeepsInv
<1>10. QED
  BY <1>2, <1>8, <1>9

LEMMA PushWatermarkKeepsInv ==
    ASSUME Inv, PushWatermark
    PROVE  Inv'
<1> DEFINE mark == [window |-> 0, merged |-> <<>>, at |-> item]
<1>1. /\ pc = "pushWatermark" /\ InAttempt /\ Handling /\ Marking
      /\ UNCHANGED <<copies, heap, context, snapshot, holders, cancelled, windows, item>>
      /\ \/ out' = Append(out, mark) /\ pc' = "ackWatermark" /\ UNCHANGED <<left, result>>
         \/ Fail /\ UNCHANGED out
  BY DEF PushWatermark, InAttempt, Handling, Marking
<1>2. out \in Seq(Pushed) /\ windows' \in [Windows -> Seq(1 .. Len(Input))]
  BY <1>1 DEF Inv, TypeOK
<1>3. CASE out' = Append(out, mark) /\ pc' = "ackWatermark" /\ UNCHANGED <<left, result>>
  <2>1. item \in 1 .. Len(Input)
    BY <1>1, ConsumedIsSafe, InputFacts
  <2>2. mark \in Pushed
    BY <2>1 DEF Pushed
  <2> HIDE DEF mark
  <2>3. /\ out' \in Seq(Pushed) /\ DOMAIN out \subseteq DOMAIN out'
        /\ \A k \in DOMAIN out : out'[k] = out[k]
    BY <1>2, <1>3, <2>2
  <2>4. Grows /\ WindowsSkipNothing'
    BY <1>1, <2>3, OutputStays
  <2>5. TypeOK'
    BY <1>1, <1>3, <2>3 DEF Inv, TypeOK
  <2>6. Located'
    BY <1>1, <1>3 DEF Inv, Located, InAttempt, Handling, Marking, IsRecord
  <2>7. CellsAreSafe'
    BY <1>1, <2>4, CellsStaySafe
  <2>8. EndMeansPushed'
    BY <1>1, <1>3, <2>4 DEF Inv, EndMeansPushed, Marking, Grows
  <2>9. QED
    BY <1>3, <2>4, <2>5, <2>6, <2>7, <2>8 DEF Inv, Handled
<1>4. CASE Fail /\ UNCHANGED out
  <2>1. Grows /\ WindowsSkipNothing'
    BY <1>1, <1>4, DataStays
  <2>2. QED
    BY <1>1, <1>2, <1>4, <2>1, FailKeepsInv
<1>5. QED
  BY <1>1, <1>3, <1>4

-----------------------------------------------------------------------------
(* Acknowledgements *)

LEMMA AckWatermarkKeepsInv ==
    ASSUME Inv, AckWatermark
    PROVE  Inv'
<1>1. /\ pc = "ackWatermark" /\ InAttempt /\ Handling /\ Marking /\ ~IsRecord(item)
      /\ heap' = [heap EXCEPT ![context].watermark = Input[item].time]
      /\ pc' = "ackOffset"
      /\ UNCHANGED <<copies, context, snapshot, holders, cancelled, windows, out, item, left,
                     result>>
  BY DEF AckWatermark, InAttempt, Handling, Marking, Inv, Located
<1>2. Grows /\ WindowsSkipNothing'
  BY <1>1, DataStays
<1>3. item \in DOMAIN Input /\ context \in DOMAIN heap /\ heap[context] \in State
  BY <1>1, ConsumedIsSafe
<1>4. PICK state : state = [heap[context] EXCEPT !.watermark = Input[item].time]
  OBVIOUS
<1>5. /\ state \in State /\ state.offset = heap[context].offset
      /\ state.watermark = Input[item].time
  <2>1. Input[item].time \in 0 .. EndOfStream
    BY <1>3, ItemFacts
  <2>2. QED
    BY <1>3, <1>4, <2>1 DEF State
<1>6. heap \in Seq(State)
  BY DEF Inv, TypeOK
<1>7. /\ heap' \in Seq(State) /\ Len(heap') = Len(heap) /\ DOMAIN heap' = DOMAIN heap
      /\ heap'[context] = state
      /\ \A cell \in DOMAIN heap : cell # context => heap'[cell] = heap[cell]
  <2>1. heap' = [heap EXCEPT ![context] = state]
    BY <1>1, <1>3, <1>4
  <2>2. QED
    BY <1>3, <1>5, <1>6, <2>1
<1>8. TypeOK'
  BY <1>1, <1>7 DEF Inv, TypeOK
<1>9. Located'
  BY <1>1, <1>3, <1>5, <1>7 DEF Inv, Located, InAttempt, Handling, Marking
<1>10. Safe(state)
  <2>1. Safe(heap[context])
    BY <1>3 DEF Inv, CellsAreSafe
  <2>2. Input[item].time = EndOfStream => AllIsPushed
    BY <1>1 DEF Inv, EndMeansPushed
  <2>3. QED
    BY <1>5, <2>1, <2>2 DEF Safe
<1>11. CellsAreSafe'
  BY <1>1, <1>2, <1>5, <1>7, <1>10, CellsStaySafeBut
<1>12. Handled'
  <2>1. ToSet(Input[item].windows) = {}
    BY <1>1, <1>3, ItemFacts
  <2>2. QED
    BY <1>1, <2>1 DEF Handled, Everywhere
<1>13. EndMeansPushed'
  BY <1>1, <1>2 DEF Inv, EndMeansPushed, Marking, Grows
<1>14. QED
  BY <1>2, <1>8, <1>9, <1>11, <1>12, <1>13 DEF Inv

LEMMA AckOffsetKeepsInv ==
    ASSUME Inv, AckOffset
    PROVE  Inv'
<1>1. /\ pc = "ackOffset" /\ InAttempt /\ Handling
      /\ heap' = [heap EXCEPT ![context].offset = item]
      /\ pc' = "pull"
      /\ UNCHANGED <<copies, context, snapshot, holders, cancelled, windows, out, item, left,
                     result>>
  BY DEF AckOffset, InAttempt, Handling
<1>2. Grows /\ WindowsSkipNothing'
  BY <1>1, DataStays
<1>3. /\ item \in 1 .. Len(Input) /\ context \in DOMAIN heap /\ heap[context] \in State
      /\ \A i \in 1 .. item - 1 : Everywhere(i)
  BY <1>1, ConsumedIsSafe, InputFacts
<1>4. PICK state : state = [heap[context] EXCEPT !.offset = item]
  OBVIOUS
<1>5. /\ state \in State /\ state.offset = item
      /\ state.watermark = heap[context].watermark
  <2>1. item \in 0 .. Len(Input)
    BY <1>3, InputFacts
  <2>2. QED
    BY <1>3, <1>4, <2>1 DEF State
<1>6. heap \in Seq(State)
  BY DEF Inv, TypeOK
<1>7. /\ heap' \in Seq(State) /\ Len(heap') = Len(heap) /\ DOMAIN heap' = DOMAIN heap
      /\ heap'[context] = state
      /\ \A cell \in DOMAIN heap : cell # context => heap'[cell] = heap[cell]
  <2>1. heap' = [heap EXCEPT ![context] = state]
    BY <1>1, <1>3, <1>4
  <2>2. QED
    BY <1>3, <1>5, <1>6, <2>1
<1>8. TypeOK'
  BY <1>1, <1>7 DEF Inv, TypeOK
<1>9. Located'
  BY <1>1, <1>3, <1>7 DEF Inv, Located, InAttempt, Handling, Marking
<1>10. Safe(state)
  <2>1. Safe(heap[context])
    BY <1>3 DEF Inv, CellsAreSafe
  <2>2. Everywhere(item)
    BY <1>1 DEF Inv, Handled
  <2>3. \A i \in 1 .. item : i = item \/ i \in 1 .. item - 1
    BY <1>3, InputFacts
  <2>4. QED
    BY <1>3, <1>5, <2>1, <2>2, <2>3 DEF Safe
<1>11. CellsAreSafe'
  BY <1>1, <1>2, <1>5, <1>7, <1>10, CellsStaySafeBut
<1>12. Handled' /\ EndMeansPushed'
  BY <1>1, <1>2 DEF Inv, Handled, EndMeansPushed, Marking, Grows
<1>13. QED
  BY <1>2, <1>8, <1>9, <1>11, <1>12 DEF Inv

-----------------------------------------------------------------------------
(* The invariant *)

LEMMA InitInv == Init => Inv
<1> SUFFICES ASSUME Init
             PROVE  Inv
  OBVIOUS
<1>1. heap = <<InitState>> /\ Len(heap) = 1 /\ DOMAIN heap = {1} /\ heap[1] = InitState
  BY DEF Init
<1>2. InitState \in State /\ Safe(InitState) /\ heap \in Seq(State)
  BY <1>1, InitIsSafe
<1>3. MaxAttempts \in Nat /\ Len(Input) \in Nat /\ copies \in Copying
  BY OptionsAssumption, InputFacts DEF Init
<1>4. TypeOK
  <2>1. windows \in [Windows -> Seq(1 .. Len(Input))] /\ out \in Seq(Pushed)
    BY DEF Init
  <2>2. /\ Len(heap) <= MaxAttempts + 2 /\ context \in 0 .. Len(heap)
        /\ snapshot \in 0 .. Len(heap) /\ item \in 0 .. Len(Input)
        /\ left \in 0 .. MaxAttempts
    BY <1>1, <1>3 DEF Init
  <2>3. QED
    BY <1>2, <1>3, <2>1, <2>2 DEF Init, TypeOK
<1>5. Located /\ Handled /\ EndMeansPushed
  BY <1>1, <1>3 DEF Init, Located, Handled, EndMeansPushed, InAttempt, Handling, Marking
<1>6. CellsAreSafe
  BY <1>1, <1>2 DEF CellsAreSafe
<1>7. WindowsSkipNothing
  <2>1. \A w \in Windows : windows[w] = <<>> /\ WindowOffset(w) = 0
    BY DEF Init, WindowOffset
  <2>2. 1 .. 0 = {} /\ 1 .. Len(<<>>) - 1 = {}
    OBVIOUS
  <2>3. QED
    BY <2>1, <2>2 DEF WindowsSkipNothing
<1>8. QED
  BY <1>4, <1>5, <1>6, <1>7 DEF Inv

LEMMA StutterKeepsInv ==
    ASSUME Inv, UNCHANGED vars
    PROVE  Inv'
<1>1. UNCHANGED <<copies, heap, context, snapshot, holders, cancelled, windows, out, item,
                  pc, left, result>>
  BY DEF vars
<1>2. Grows /\ WindowsSkipNothing'
  BY <1>1, DataStays
<1>3. CellsAreSafe'
  BY <1>1, <1>2, CellsStaySafe
<1>4. TypeOK' /\ Located'
  BY <1>1 DEF Inv, TypeOK, Located, InAttempt, Handling, Marking
<1>5. Handled'
  <2>1. Handled /\ (pc = "ackOffset" => item \in DOMAIN Input)
    BY DEF Inv, Located, Handling, InAttempt
  <2>2. QED
    BY <1>1, <1>2, <2>1, EverywhereGrows DEF Handled
<1>6. EndMeansPushed'
  BY <1>1, <1>2 DEF Inv, EndMeansPushed, Marking, Grows
<1>7. QED
  BY <1>2, <1>3, <1>4, <1>5, <1>6 DEF Inv

LEMMA NextInv ==
    ASSUME Short
    PROVE  Inv /\ [Next]_vars => Inv'
<1> SUFFICES ASSUME Inv, [Next]_vars
             PROVE  Inv'
  OBVIOUS
<1>1. CASE Attempt
  BY <1>1, ReturnCancelledKeepsInv, LoadFailsKeepsInv, LoadKeepsInv, FinishKeepsInv,
     PullInKeepsInv, MergeRecordKeepsInv, FlushKeepsInv, PushWatermarkKeepsInv,
     AckWatermarkKeepsInv, AckOffsetKeepsInv DEF Attempt
<1>2. CASE PullFails
  BY <1>2, PullFailsKeepsInv
<1>3. CASE \E h \in holders : Snapshot(h) \/ SnapshotFails(h) \/ Stop(h)
  BY <1>3, SnapshotKeepsInv, SnapshotFailsKeepsInv
<1>4. CASE UNCHANGED vars
  BY <1>4, StutterKeepsInv
<1>5. QED
  BY <1>1, <1>2, <1>3, <1>4 DEF Next

LEMMA InvHolds ==
    ASSUME Short
    PROVE  Spec => []Inv
BY InitInv, NextInv, PTL DEF Spec

-----------------------------------------------------------------------------
(* Theorems *)

\* The state keeps its types; in particular an attempt makes at most one state
\* object, and there are at most MaxAttempts + 1 attempts.
THEOREM TypeCorrect ==
    ASSUME Short
    PROVE  Spec => []TypeOK
<1>1. Inv => TypeOK
  BY DEF Inv
<1>2. QED
  BY <1>1, InvHolds, PTL

\* Windows are merged in the order of the offsets, nothing twice, and what a
\* window skips when records are pulled again was in it before.
THEOREM MergesSkipNothing ==
    ASSUME Short
    PROVE  Spec => []WindowsSkipNothing
<1>1. Inv => WindowsSkipNothing
  BY DEF Inv
<1>2. QED
  BY <1>1, InvHolds, PTL

\* What a state object has acknowledged is in the windows or in the output,
\* wherever an attempt begins and whatever failed before.
THEOREM AcknowledgedIsKept ==
    ASSUME Short
    PROVE  Spec => []NothingIsLost
<1>1. Inv => NothingIsLost
  BY DEF Inv, CellsAreSafe, Safe, Everywhere, NothingIsLost
<1>2. QED
  BY <1>1, InvHolds, PTL

\* When Recovery returns nil at the end of the stream, all records have been
\* pushed in all of their windows.
THEOREM AllIsPushedAtTheEnd ==
    ASSUME Short
    PROVE  Spec => []EverythingIsPushed
<1>1. Inv => EverythingIsPushed
  BY InputFacts DEF Inv, EndMeansPushed, AllIsPushed, IsPushed, EverythingIsPushed
<1>2. QED
  BY <1>1, InvHolds, PTL
=============================================================================
