--------------------------- MODULE WorkflowProofs ---------------------------
(***************************************************************************)
(* A run of a workflow is safe for any flows, values and callbacks.        *)
(*                                                                         *)
(* The argument: the IDs of a flow are distinct and the same whenever it   *)
(* is looked up, so that a recorded result is a result of one place of the *)
(* flow.  Between commands every awaited call has its result recorded, but *)
(* for the one call the run waits for; a command that executes the flow    *)
(* again has that result too.  An execution changes no result and stops at *)
(* the first awaited call, which is at a place without a result and so was *)
(* not called before.                                                      *)
(***************************************************************************)
EXTENDS Workflow, FiniteSetTheorems, SequenceTheorems, TLAPS

-----------------------------------------------------------------------------
(* Flows and step IDs *)

LEMMA FlowShape ==
    ASSUME NEW body \in Flows
    PROVE  /\ Len(body) \in Nat
           /\ DOMAIN body = 1 .. Len(body)
<1>1. body \in Seq(Range(body))
  BY FlowsAssumption DEF WellFormed
<1>2. QED
  BY <1>1

LEMMA ExprShape ==
    ASSUME NEW body \in Flows, NEW p \in DOMAIN body
    PROVE  /\ p \in 1 .. Len(body) /\ Len(body) \in Nat
           /\ body[p].op \in {"end", "assign", "apply", "choose"}
           /\ LastOf(body, p) \in p .. Len(body)
           /\ body[p].op = "assign" =>
                 body[p].val \in Nat \ {0} /\ LastOf(body, p) = p + body[p].val
           /\ body[p].op = "choose" =>
                 /\ body[p].yes \in Nat /\ body[p].no \in Nat
                 /\ LastOf(body, p) = p + body[p].yes + body[p].no
           /\ body[p].op = "apply" => body[p].await \in Nat \cup {NoAwait}
           /\ \A q \in p + 1 .. LastOf(body, p) : LastOf(body, q) <= LastOf(body, p)
<1>1. DOMAIN body = 1 .. Len(body) /\ Len(body) \in Nat
  BY FlowShape
<1>2. WellFormed(body)
  BY FlowsAssumption
<1>3. CASE body[p].op = "assign"
  BY <1>1, <1>2, <1>3 DEF WellFormed, LastOf, Extent
<1>4. CASE body[p].op = "choose"
  BY <1>1, <1>2, <1>4 DEF WellFormed, LastOf, Extent
<1>5. CASE body[p].op \notin {"assign", "choose"}
  BY <1>1, <1>2, <1>5 DEF WellFormed, LastOf, Extent
<1>6. QED
  BY <1>3, <1>4, <1>5

\* What a step is called before a number is added has no number, and is not
\* empty.
LEMMA OwnIsNamed ==
    ASSUME NEW body \in Flows, NEW p \in DOMAIN body
    PROVE  /\ Own(body, Given(body), p) = Named(Own(body, Given(body), p).name)
           /\ Own(body, Given(body), p) # NoStep
<1>1. body[p].id = Named(body[p].id.name)
  BY FlowsAssumption
<1>2. Given(body)[p] = body[p].id
  BY DEF Given
<1>3. CASE body[p].id = NoStep
  <2>1. DefaultName(body[p]) # <<>>
    BY DEF DefaultName
  <2>2. QED
    BY <1>2, <1>3, <2>1 DEF Own, Named, NoStep
<1>4. CASE body[p].id # NoStep
  BY <1>1, <1>2, <1>4 DEF Own, Named
<1>5. QED
  BY <1>3, <1>4

\* The steps before p that are called the same.
Same(body, ids, p) == {q \in 1 .. p - 1 : Own(body, ids, q) = Own(body, ids, p)}

LEMMA SameIsFinite ==
    ASSUME NEW body, NEW ids, NEW p \in Nat
    PROVE  IsFiniteSet(Same(body, ids, p)) /\ Cardinality(Same(body, ids, p)) \in Nat
<1>1. IsFiniteSet(1 .. p - 1)
  BY FS_Interval
<1>2. QED
  BY <1>1, FS_Subset, FS_CardinalityType DEF Same

LEMMA StepIdNumbers ==
    ASSUME NEW body \in Flows, NEW p \in DOMAIN body
    PROVE  LET own == Own(body, Given(body), p)
               taken == Cardinality(Same(body, Given(body), p))
           IN  /\ StepId(body, Given(body), p).name = own.name
               /\ StepId(body, Given(body), p).numbers =
                     IF taken = 0 THEN <<>> ELSE <<taken>>
               /\ StepId(body, Given(body), p) # NoStep
<1> DEFINE own == Own(body, Given(body), p)
           taken == Cardinality(Same(body, Given(body), p))
<1>1. own = [name |-> own.name, numbers |-> <<>>] /\ own # NoStep
  BY OwnIsNamed DEF Named
<1>2. StepId(body, Given(body), p) =
         IF taken = 0 THEN own ELSE [own EXCEPT !.numbers = Append(@, taken)]
  BY DEF StepId, Same
<1> HIDE DEF own, taken
<1>3. [own EXCEPT !.numbers = Append(@, taken)] = [name |-> own.name, numbers |-> <<taken>>]
  BY <1>1
<1>4. <<taken>> # <<>>
  OBVIOUS
<1>5. CASE taken = 0
  BY <1>1, <1>2, <1>5 DEF own, taken
<1>6. CASE taken # 0
  <2>1. StepId(body, Given(body), p) = [name |-> own.name, numbers |-> <<taken>>]
    BY <1>2, <1>3, <1>6
  <2>2. StepId(body, Given(body), p) # NoStep
    BY <1>4, <2>1 DEF NoStep
  <2>3. QED
    BY <1>6, <2>1, <2>2 DEF own, taken
<1>7. QED
  BY <1>5, <1>6

LEMMA OnceIsDistinct ==
    ASSUME NEW body \in Flows, NEW p \in DOMAIN body, NEW q \in DOMAIN body,
           Once[body][p] = Once[body][q]
    PROVE  p = q
<1> DEFINE ids == Given(body)
<1>1. DOMAIN body = 1 .. Len(body) /\ Len(body) \in Nat
  BY FlowShape
<1>2. StepId(body, ids, p) = StepId(body, ids, q)
  BY DEF Once, InitStepID
<1>3. ASSUME NEW a \in DOMAIN body, NEW b \in DOMAIN body, a < b,
             StepId(body, ids, a) = StepId(body, ids, b)
      PROVE  FALSE
  <2>0. /\ StepId(body, ids, a).name = Own(body, ids, a).name
        /\ StepId(body, ids, b).name = Own(body, ids, b).name
        /\ StepId(body, ids, a).numbers = IF Cardinality(Same(body, ids, a)) = 0 THEN <<>>
                                          ELSE <<Cardinality(Same(body, ids, a))>>
        /\ StepId(body, ids, b).numbers = IF Cardinality(Same(body, ids, b)) = 0 THEN <<>>
                                          ELSE <<Cardinality(Same(body, ids, b))>>
    BY StepIdNumbers
  <2>1. Own(body, ids, a) = Own(body, ids, b)
    <3>1. /\ Own(body, ids, a) = Named(Own(body, ids, a).name)
          /\ Own(body, ids, b) = Named(Own(body, ids, b).name)
      BY OwnIsNamed
    <3>2. Own(body, ids, a).name = Own(body, ids, b).name
      BY <1>3, <2>0
    <3>3. QED
      BY <3>1, <3>2
  <2>2. IsFiniteSet(Same(body, ids, a)) /\ IsFiniteSet(Same(body, ids, b))
    BY <1>1, SameIsFinite
  <2>3. Same(body, ids, a) \cup {a} \subseteq Same(body, ids, b)
    BY <1>1, <1>3, <2>1 DEF Same
  <2>4. a \notin Same(body, ids, a)
    BY <1>1 DEF Same
  <2>5. Cardinality(Same(body, ids, a) \cup {a}) = Cardinality(Same(body, ids, a)) + 1
    BY <2>2, <2>4, FS_AddElement
  <2>6. Cardinality(Same(body, ids, a) \cup {a}) <= Cardinality(Same(body, ids, b))
    BY <2>2, <2>3, FS_Subset
  <2>7. Cardinality(Same(body, ids, a)) \in Nat /\ Cardinality(Same(body, ids, b)) \in Nat
    BY <1>1, SameIsFinite
  <2>8. Cardinality(Same(body, ids, a)) # Cardinality(Same(body, ids, b))
    BY <2>5, <2>6, <2>7
  <2>9. StepId(body, ids, a).numbers # StepId(body, ids, b).numbers
    BY <2>0, <2>7, <2>8
  <2>10. QED
    BY <1>3, <2>9
<1>4. QED
  BY <1>1, <1>2, <1>3

\* IDs that are given again are the same.
LEMMA TwiceIsOnce ==
    ASSUME NEW body \in Flows
    PROVE  Twice[body] = Once[body]
<1>1. DOMAIN body = 1 .. Len(body) /\ Len(body) \in Nat
  BY FlowShape
<1>2. Once[body] = [p \in DOMAIN body |-> StepId(body, Given(body), p)]
  BY DEF Once, InitStepID
<1>3. ASSUME NEW p \in DOMAIN body
      PROVE  Own(body, Once[body], p) = Once[body][p]
  BY <1>2, StepIdNumbers DEF Own
<1>4. ASSUME NEW p \in DOMAIN body
      PROVE  StepId(body, Once[body], p) = Once[body][p]
  <2>1. {q \in 1 .. p - 1 : Own(body, Once[body], q) = Own(body, Once[body], p)} = {}
    BY <1>1, <1>3, OnceIsDistinct
  <2>2. QED
    BY <1>3, <2>1, FS_EmptySet DEF StepId
<1>5. Twice[body] = [p \in DOMAIN body |-> StepId(body, Once[body], p)]
  BY DEF Twice, InitStepID
<1>6. QED
  BY <1>2, <1>4, <1>5

-----------------------------------------------------------------------------
(* The inductive invariant *)

Partial(D, R) == UNION {[E -> R] : E \in SUBSET D}

BaseStates ==
    [body : Flows, step : Steps \cup {NoStep},
     vars : {f \in Partial(Vars, Results) : Arg \in DOMAIN f},
     results : Partial(Steps, Values), option : Options \cup {"none"}]

Commands ==
    [name : {"Run", "TryRecover"}]
        \cup [name : {"Callback"}, id : Callbacks, value : Values]

Frames == [place : Nat, base : BaseStates, last : Nat]

Executions ==
    [command : Commands, steps : {Once[body] : body \in Flows}, at : Nat \ {0},
     pending : Seq(Frames), base : BaseStates, result : Results \cup {"nothing"}]

CallRecords == [at : Places, step : Steps, id : Nat, ok : BOOLEAN]
AnswerRecords == [id : Callbacks, value : Values]

TypeInv ==
    /\ state.kind \in {"nil", "Scheduled", "ScheduleStopped", "Await", "Error", "Done"}
    /\ state.kind # "nil" => state.base \in BaseStates
    /\ state.kind = "Await" => state.deadline \in Nat /\ state.callback \in Nat \ {0}
    /\ state.kind = "Error" => state.retried \in 0 .. MaxRetries
    /\ execution = Idle \/ execution \in Executions
    /\ calls \in Seq(CallRecords)
    /\ answers \in Seq(AnswerRecords)
    /\ now \in 0 .. MaxTime

Running == execution # Idle

\* What has been entered and not left is around the next expression, and
\* belongs to the same run; until there is a result there were assignments.
PlacesInv ==
    Running =>
    /\ execution.steps = Once[Body]
    /\ execution.at \in 1 .. Len(Body) + 1
    /\ \A i \in DOMAIN execution.pending :
          LET frame == execution.pending[i]
          IN  /\ frame.place \in 1 .. execution.at - 1
              /\ frame.last \in 1 .. LastOf(Body, frame.place)
              /\ Body[frame.place].op \in {"assign", "choose"}
              /\ Body[frame.place].op = "assign" => frame.last = LastOf(Body, frame.place)
              /\ frame.base.body = Body
              /\ frame.base.results = execution.base.results
    /\ \A i, j \in DOMAIN execution.pending :
          i < j => execution.pending[i].place < execution.pending[j].place
    /\ execution.result \notin Results =>
          \A q \in 1 .. execution.at - 1 : Body[q].op = "assign"

\* A call is of a place of the run's flow, and its ID is its number.
RunBody == IF Running THEN Body ELSE state.base.body
CallsInv ==
    /\ Len(calls) <= MaxCalls
    /\ \A i \in DOMAIN calls :
          /\ calls[i].id \in {NoCallback, i}
          /\ state.kind = "nil" => Running
          /\ calls[i].at \in DOMAIN RunBody
          /\ calls[i].step = Once[RunBody][calls[i].at]

\* An execution has the results of the state its command was given in, and
\* the one that the command brings.
CommandInv ==
    Running =>
    LET command == execution.command
    IN  /\ state.kind # "nil" => Body = state.base.body
        /\ command.name = "Run" =>
              /\ state.kind \in {"nil", "Scheduled"}
              /\ DOMAIN execution.base.results = {}
        /\ command.name = "Callback" =>
              /\ state.kind = "Await"
              /\ command.id = state.callback
              /\ execution.base.results = With(state.base.results, state.base.step, command.value)
        /\ command.name = "TryRecover" =>
              /\ state.kind = "Error"
              /\ state.retried < MaxRetries
              /\ state.code \in Recoverable
              /\ execution.base.results = state.base.results

\* Nothing was called and answered before the first execution.
FreshInv ==
    state.kind \in {"nil", "Scheduled", "ScheduleStopped"} =>
       /\ answers = <<>>
       /\ state.kind # "nil" => DOMAIN state.base.results = {}
       /\ ~Running => calls = <<>>

\* The results are the answers to calls.
AnswersInv ==
    state.kind # "nil" =>
    /\ \A n \in DOMAIN answers :
          LET i == answers[n].id
          IN  /\ i \in DOMAIN calls
              /\ calls[i].id = i
              /\ calls[i].step \in DOMAIN state.base.results
              /\ state.base.results[calls[i].step] = answers[n].value
    /\ \A s \in DOMAIN state.base.results :
          \E n \in DOMAIN answers : calls[answers[n].id].step = s

\* Every awaited call was answered, but for the one the run waits for, which
\* is the last one.
AllAnswered(results) ==
    \A i \in DOMAIN calls : Awaited(calls[i]) => calls[i].step \in DOMAIN results

WaitInv ==
    /\ Running => AllAnswered(execution.base.results)
    /\ ~Running /\ state.kind # "nil" /\ state.kind # "Await" /\ ~TimedOut =>
          AllAnswered(state.base.results)
    /\ state.kind = "Await" =>
          /\ state.callback \in DOMAIN calls
          /\ calls[state.callback].id = state.callback
          /\ Awaited(calls[state.callback])
          /\ calls[state.callback].step = state.base.step
          /\ state.base.step \notin DOMAIN state.base.results
          /\ \A i \in DOMAIN calls : Awaited(calls[i]) =>
                /\ i <= state.callback
                /\ i = state.callback \/ calls[i].step \in DOMAIN state.base.results

Inv ==
    /\ TypeInv
    /\ PlacesInv
    /\ CallsInv
    /\ CommandInv
    /\ FreshInv
    /\ AnswersInv
    /\ WaitInv
    /\ AwaitedCallStartsOnce

-----------------------------------------------------------------------------
(* Types *)

LEMMA PartialFunctions ==
    ASSUME NEW D, NEW R, NEW f
    PROVE  f \in Partial(D, R) <=> DOMAIN f \subseteq D /\ f \in [DOMAIN f -> R]
  BY DEF Partial

LEMMA WithPartial ==
    ASSUME NEW D, NEW R, NEW f \in Partial(D, R), NEW x \in D, NEW v \in R
    PROVE  With(f, x, v) \in Partial(D, R)
<1>1. DOMAIN f \subseteq D /\ f \in [DOMAIN f -> R]
  BY PartialFunctions
<1>2. With(f, x, v) \in [DOMAIN f \cup {x} -> R]
  BY <1>1 DEF With
<1>3. QED
  BY <1>1, <1>2 DEF Partial

LEMMA FirstBaseState ==
    ASSUME NEW body \in Flows, NEW input \in Values, NEW option \in Options \cup {"none"}
    PROVE  /\ BaseState(body, input, option) \in BaseStates
           /\ BaseState(body, input, option).body = body
           /\ DOMAIN BaseState(body, input, option).results = {}
<1> DEFINE first == [x \in {Arg} |-> input]
<1>1. first \in [{Arg} -> Results] /\ {Arg} \subseteq Vars
  BY DEF Results, Vars
<1>2. first \in Partial(Vars, Results) /\ Arg \in DOMAIN first
  BY <1>1 DEF Partial
<1>3. <<>> \in [{} -> Values] /\ DOMAIN <<>> = {}
  OBVIOUS
<1>4. <<>> \in Partial(Steps, Values)
  BY <1>3 DEF Partial
<1>5. QED
  BY <1>2, <1>3, <1>4 DEF BaseState, BaseStates

LEMMA BaseStatesAreOK == ASSUME NEW base \in BaseStates PROVE BaseStateOK(base)
<1>1. base.vars \in Partial(Vars, Results) /\ base.results \in Partial(Steps, Values)
  BY DEF BaseStates
<1>2. IsPartial(base.vars, Vars, Results) /\ IsPartial(base.results, Steps, Values)
  BY <1>1, PartialFunctions DEF IsPartial
<1>3. QED
  BY <1>2 DEF BaseStates, BaseStateOK

LEMMA ExecutionsRun == ASSUME NEW e \in Executions PROVE e # Idle
<1>1. e.command.name # "none"
  BY DEF Executions, Commands
<1>2. QED
  BY <1>1 DEF Idle

LEMMA StepsOfFlows ==
    ASSUME NEW body \in Flows, NEW p \in DOMAIN body
    PROVE  Once[body][p] \in Steps /\ p \in Places
<1>1. p \in DOMAIN Once[body]
  BY DEF Once, InitStepID
<1>2. QED
  BY <1>1 DEF Steps, Places, Range

-----------------------------------------------------------------------------
(* Where an execution is *)

\* A BaseState of the run that is executed.
SameRun(base) ==
    /\ base \in BaseStates
    /\ base.body = Body
    /\ base.results = execution.base.results

LEMMA RunningShape ==
    ASSUME TypeInv, PlacesInv, Running
    PROVE  /\ execution \in Executions
           /\ Body \in Flows /\ Len(Body) \in Nat /\ DOMAIN Body = 1 .. Len(Body)
           /\ execution.steps = Once[Body]
           /\ execution.at \in 1 .. Len(Body) + 1
           /\ execution.pending \in Seq(Frames)
           /\ SameRun(execution.base)
<1>1. execution \in Executions
  BY DEF TypeInv, Running
<1>2. Body \in Flows
  BY <1>1 DEF Executions, BaseStates, Body
<1>3. QED
  BY <1>1, <1>2, FlowShape DEF PlacesInv, Executions, SameRun, Body

LEMMA InnermostShape ==
    ASSUME TypeInv, PlacesInv, Running, execution.pending # <<>>
    PROVE  /\ Len(execution.pending) \in DOMAIN execution.pending
           /\ Innermost = execution.pending[Len(execution.pending)]
           /\ Innermost.place \in DOMAIN Body
           /\ Innermost.place < execution.at
           /\ Innermost.last \in 1 .. LastOf(Body, Innermost.place)
           /\ Body[Innermost.place].op = "assign" =>
                 Innermost.last = LastOf(Body, Innermost.place)
           /\ LastOf(Body, Innermost.place) \in DOMAIN Body
           /\ SameRun(Innermost.base)
           /\ Front(execution.pending) \in Seq(Frames)
           /\ \A i \in DOMAIN Front(execution.pending) :
                 /\ i \in DOMAIN execution.pending
                 /\ Front(execution.pending)[i] = execution.pending[i]
<1> DEFINE pending == execution.pending
<1>1. pending \in Seq(Frames) /\ Len(pending) \in DOMAIN pending
  BY RunningShape
<1>2. Innermost = pending[Len(pending)] /\ Innermost \in Frames
  BY <1>1 DEF Innermost, Last
<1>3. /\ Front(pending) \in Seq(Frames)
      /\ \A i \in DOMAIN Front(pending) : i \in DOMAIN pending /\ Front(pending)[i] = pending[i]
  BY <1>1 DEF Front
<1>4. /\ Innermost.place \in 1 .. execution.at - 1
      /\ Innermost.last \in 1 .. LastOf(Body, Innermost.place)
      /\ Body[Innermost.place].op = "assign" => Innermost.last = LastOf(Body, Innermost.place)
      /\ Innermost.base.body = Body
      /\ Innermost.base.results = execution.base.results
  BY <1>1, <1>2 DEF PlacesInv
<1>5. Innermost.place \in DOMAIN Body /\ Innermost.place < execution.at
  BY <1>4, RunningShape
<1>6. LastOf(Body, Innermost.place) \in DOMAIN Body
  BY <1>5, RunningShape, ExprShape
<1>7. SameRun(Innermost.base)
  BY <1>2, <1>4 DEF SameRun, Frames
<1>8. QED
  BY <1>1, <1>2, <1>3, <1>4, <1>5, <1>6, <1>7

LEMMA InsideShape ==
    ASSUME TypeInv, PlacesInv, Inside
    PROVE  /\ Running
           /\ execution.at \in DOMAIN Body
           /\ execution.pending # <<>> =>
                 execution.at <= LastOf(Body, Innermost.place)
           /\ Id = Once[Body][execution.at] /\ Id \in Steps /\ execution.at \in Places
           /\ SameRun(Here) /\ Here.step = Id /\ Here.vars = execution.base.vars
<1>1. Running
  BY DEF Inside, Running
<1>2. execution.at \in DOMAIN Body
  <2>1. CASE execution.pending = <<>>
    BY <1>1, <2>1, RunningShape DEF Inside
  <2>2. CASE execution.pending # <<>>
    BY <1>1, <2>2, RunningShape, InnermostShape DEF Inside
  <2>3. QED
    BY <2>1, <2>2
<1>3. execution.pending # <<>> => execution.at <= LastOf(Body, Innermost.place)
  BY <1>1, RunningShape, InnermostShape DEF Inside
<1>4. Id = Once[Body][execution.at] /\ Id \in Steps /\ execution.at \in Places
  BY <1>1, <1>2, RunningShape, StepsOfFlows DEF Id
<1>5. SameRun(Here) /\ Here.step = Id /\ Here.vars = execution.base.vars
  BY <1>1, <1>4, RunningShape DEF Here, SameRun, BaseStates
<1>6. QED
  BY <1>1, <1>2, <1>3, <1>4, <1>5

LEMMA LeavingShape ==
    ASSUME TypeInv, PlacesInv, NEW op, Leaving(op)
    PROVE  /\ Running /\ execution.pending # <<>>
           /\ Innermost.last < execution.at
           /\ Body[Innermost.place].op = op
<1>1. Running /\ execution.pending # <<>> /\ ~Inside /\ Body[Innermost.place].op = op
  BY DEF Leaving, Running
<1>2. Innermost.last \in Nat /\ execution.at \in Nat
  BY <1>1, RunningShape, InnermostShape
<1>3. QED
  BY <1>1, <1>2 DEF Inside, Running

-----------------------------------------------------------------------------
(* Calls *)

\* The calls there were are there.
CallsStay ==
    /\ calls' \in Seq(CallRecords)
    /\ \A i \in DOMAIN calls : i \in DOMAIN calls' /\ calls'[i] = calls[i]

\* No call was made that the run would have to wait for.
NoneAwaited == \A i \in DOMAIN calls' : Awaited(calls'[i]) => i \in DOMAIN calls

QuietCalls ==
    \/ UNCHANGED calls
    \/ Entering("apply") /\ \E ok \in BOOLEAN : Call(ok) /\ (ok => CallbackID = NoCallback)

LEMMA CallShape ==
    ASSUME TypeInv, PlacesInv, CallsInv, Entering("apply"), NEW ok \in BOOLEAN, Call(ok)
    PROVE  LET c == [at |-> execution.at, step |-> Id, id |-> CallbackID, ok |-> ok]
               n == Len(calls) + 1
           IN  /\ Len(calls) \in Nat /\ n <= MaxCalls /\ DOMAIN calls' = 1 .. n
               /\ calls'[n] = c /\ c \in CallRecords
               /\ CallbackID \in {NoCallback, n}
               /\ CallbackID = NoCallback <=> Expr.await = NoAwait
               /\ CallsStay
<1> DEFINE c == [at |-> execution.at, step |-> Id, id |-> CallbackID, ok |-> ok]
<1>1. Inside
  BY DEF Entering
<1>2. calls \in Seq(CallRecords) /\ Len(calls) \in Nat
  BY DEF TypeInv
<1>3. CallbackID \in {NoCallback, Len(calls) + 1} /\ CallbackID \in Nat
      /\ (CallbackID = NoCallback <=> Expr.await = NoAwait)
  BY <1>2 DEF CallbackID, NoCallback
<1>4. c \in CallRecords
  BY <1>1, <1>3, InsideShape DEF CallRecords
<1>5. calls' = Append(calls, c) /\ Len(calls) < MaxCalls /\ MaxCalls \in Nat
  BY BoundsAssumption DEF Call
<1>6. calls' \in Seq(CallRecords) /\ Len(calls') = Len(calls) + 1
      /\ DOMAIN calls' = 1 .. Len(calls) + 1
      /\ calls'[Len(calls) + 1] = c
      /\ \A i \in DOMAIN calls : i \in DOMAIN calls' /\ calls'[i] = calls[i]
  BY <1>2, <1>4, <1>5
<1>7. QED
  BY <1>2, <1>3, <1>4, <1>5, <1>6 DEF CallsStay

LEMMA QuietCallsShape ==
    ASSUME TypeInv, PlacesInv, CallsInv, QuietCalls
    PROVE  CallsStay /\ NoneAwaited
<1>1. CASE UNCHANGED calls
  BY <1>1 DEF CallsStay, NoneAwaited, TypeInv
<1>2. CASE Entering("apply") /\ \E ok \in BOOLEAN : Call(ok) /\ (ok => CallbackID = NoCallback)
  <2>1. PICK ok \in BOOLEAN : Call(ok) /\ (ok => CallbackID = NoCallback)
    BY <1>2
  <2>2. CallsStay /\ DOMAIN calls' = 1 .. Len(calls) + 1 /\ Len(calls) \in Nat
        /\ calls'[Len(calls) + 1] =
              [at |-> execution.at, step |-> Id, id |-> CallbackID, ok |-> ok]
    BY <1>2, <2>1, CallShape
  <2>3. ~Awaited(calls'[Len(calls) + 1])
    BY <2>1, <2>2 DEF Awaited
  <2>4. DOMAIN calls = 1 .. Len(calls)
    BY DEF TypeInv
  <2>5. QED
    BY <2>2, <2>3, <2>4 DEF NoneAwaited
<1>3. QED
  BY <1>1, <1>2 DEF QuietCalls

\* The calls are those of the run's flow, with a new one or without.
LEMMA CallsKept ==
    ASSUME TypeInv, PlacesInv, CallsInv, Running, RunBody' = Body,
           state'.kind = "nil" => Running',
           UNCHANGED calls \/ (Entering("apply") /\ \E ok \in BOOLEAN : Call(ok))
    PROVE  CallsInv'
<1>1. RunBody = Body
  BY DEF RunBody
<1>2. CASE UNCHANGED calls
  BY <1>1, <1>2 DEF CallsInv
<1>3. CASE Entering("apply") /\ \E ok \in BOOLEAN : Call(ok)
  <2>1. PICK ok \in BOOLEAN : Call(ok)
    BY <1>3
  <2> DEFINE n == Len(calls) + 1
  <2>2. /\ CallsStay /\ DOMAIN calls' = 1 .. n /\ Len(calls) \in Nat /\ n <= MaxCalls
        /\ calls'[n] = [at |-> execution.at, step |-> Id, id |-> CallbackID, ok |-> ok]
        /\ CallbackID \in {NoCallback, n}
    BY <1>3, <2>1, CallShape
  <2>3. execution.at \in DOMAIN Body /\ Id = Once[Body][execution.at]
    BY <1>3, InsideShape DEF Entering
  <2>4. DOMAIN calls = 1 .. Len(calls) /\ Len(calls') = n
    BY <2>2 DEF TypeInv, CallsStay
  <2>5. ASSUME NEW i \in DOMAIN calls'
        PROVE  /\ calls'[i].id \in {NoCallback, i}
               /\ calls'[i].at \in DOMAIN Body
               /\ calls'[i].step = Once[Body][calls'[i].at]
    <3>1. CASE i = n
      BY <2>2, <2>3, <3>1
    <3>2. CASE i # n
      <4>1. i \in DOMAIN calls
        BY <2>2, <2>4, <3>2
      <4>2. QED
        BY <1>1, <2>2, <4>1 DEF CallsInv, CallsStay
    <3>3. QED
      BY <3>1, <3>2
  <2>6. QED
    BY <2>2, <2>4, <2>5 DEF CallsInv
<1>4. QED
  BY <1>2, <1>3

\* Calls that are not awaited add nothing to what is awaited.
LEMMA AwaitedKept ==
    ASSUME TypeInv, CallsStay, NoneAwaited
    PROVE  /\ AwaitedCallStartsOnce => AwaitedCallStartsOnce'
           /\ \A i \in DOMAIN calls' : Awaited(calls'[i]) =>
                 i \in DOMAIN calls /\ calls'[i] = calls[i] /\ Awaited(calls[i])
           /\ \A i \in DOMAIN calls : i \in DOMAIN calls' /\ calls'[i] = calls[i]
  BY DEF CallsStay, NoneAwaited, AwaitedCallStartsOnce

\* The execution goes on.
Goes ==
    /\ execution' \in Executions
    /\ execution'.command = execution.command
    /\ SameRun(execution'.base)
    /\ UNCHANGED <<state, answers, now>>

LEMMA GoesKeeps ==
    ASSUME Inv, Running, Goes, QuietCalls
    PROVE  /\ TypeInv' /\ CallsInv' /\ CommandInv' /\ FreshInv' /\ AnswersInv'
           /\ WaitInv' /\ AwaitedCallStartsOnce'
<1> USE DEF Inv
<1>1. Running' /\ Body' = Body /\ RunBody' = Body
      /\ execution'.base.results = execution.base.results
  BY ExecutionsRun DEF Goes, Running, SameRun, Body, RunBody
<1>2. CallsStay /\ NoneAwaited
  BY QuietCallsShape
<1>3. /\ AwaitedCallStartsOnce'
      /\ \A i \in DOMAIN calls' : Awaited(calls'[i]) =>
            i \in DOMAIN calls /\ calls'[i] = calls[i] /\ Awaited(calls[i])
      /\ \A i \in DOMAIN calls : i \in DOMAIN calls' /\ calls'[i] = calls[i]
  BY <1>2, AwaitedKept
<1>4. CallsInv'
  BY <1>1, CallsKept DEF QuietCalls
<1>5. TypeInv'
  BY <1>2 DEF TypeInv, Goes, CallsStay
<1>6. CommandInv'
  BY <1>1 DEF CommandInv, Goes
<1>7. FreshInv'
  BY <1>1 DEF FreshInv, Goes
<1>8. AnswersInv'
  BY <1>3 DEF AnswersInv, Goes
<1>9. WaitInv'
  <2>1. AllAnswered(execution.base.results)
    BY DEF WaitInv
  <2>2. AllAnswered(execution.base.results)'
    BY <1>1, <1>3, <2>1 DEF AllAnswered
  <2>3. state'.kind = "Await" => state'.callback = state.callback /\ state'.base = state.base
    BY DEF Goes
  <2>4. QED
    BY <1>1, <1>3, <2>2, <2>3 DEF WaitInv, Goes
<1>10. QED
  BY <1>3, <1>4, <1>5, <1>6, <1>7, <1>8, <1>9

-----------------------------------------------------------------------------
(* The end of a command *)

\* What the command returns: a State of the run that was executed.
Stop(status) ==
    /\ SameRun(status.base)
    /\ \/ status = Done(status.base)
       \/ /\ status = Error(status.code, status.reason, status.base)
          /\ status.code # "callback-timeout"

\* A counted error differs from the error in its counter.
LEMMA CountedShape ==
    ASSUME TypeInv, CommandInv, Running, NEW status, Stop(status), Return(status)
    PROVE  /\ state'.kind = status.kind /\ state'.base = status.base
           /\ status.kind \in {"Done", "Error"}
           /\ status.kind = "Error" =>
                 /\ state'.code = status.code
                 /\ state'.retried \in 0 .. MaxRetries
                 /\ execution.command.name # "TryRecover" => state'.retried = 0
                 /\ execution.command.name = "TryRecover" =>
                       state'.retried \in {0, state.retried + 1}
<1>1. CASE status = Done(status.base)
  BY <1>1 DEF Return, Counted, Done
<1>2. CASE status = Error(status.code, status.reason, status.base)
  <2>1. status.kind = "Error" /\ status.retried = 0
    BY <1>2 DEF Error
  <2>2. CASE execution.command.name = "TryRecover"
    <3>1. state.kind = "Error" /\ state.retried < MaxRetries
      BY <2>2 DEF CommandInv
    <3>2. state.retried \in Nat /\ state.retried + 1 \in 0 .. MaxRetries
      BY <3>1, MaxRetriesAssumption DEF TypeInv
    <3>3. CASE state' = status
      BY <2>1, <2>2, <3>3, MaxRetriesAssumption
    <3>4. CASE state' = [status EXCEPT !.retried = state.retried + 1]
      BY <1>2, <2>1, <2>2, <3>2, <3>4 DEF Error
    <3>5. QED
      BY <2>2, <3>3, <3>4 DEF Return, Counted
  <2>3. CASE execution.command.name # "TryRecover"
    BY <2>1, <2>3, MaxRetriesAssumption DEF Return
  <2>4. QED
    BY <2>2, <2>3
<1>3. QED
  BY <1>1, <1>2 DEF Stop

\* The answers after a command are those of the results it was executed with.
LEMMA ReturnedAnswers ==
    ASSUME Inv, Running, NEW status, Return(status), CallsStay,
           state'.kind # "nil", state'.base.results = execution.base.results
    PROVE  AnswersInv' /\ answers' \in Seq(AnswerRecords)
<1> USE DEF Inv
<1> DEFINE command == execution.command
<1>1. command \in Commands
  BY RunningShape DEF Executions
<1>2. \A i \in DOMAIN calls : i \in DOMAIN calls' /\ calls'[i] = calls[i]
  BY DEF CallsStay
<1>3. CASE command.name = "Run"
  <2>1. answers = <<>> /\ answers' = answers /\ DOMAIN execution.base.results = {}
    BY <1>3 DEF Return, CommandInv, FreshInv
  <2>2. QED
    BY <2>1 DEF AnswersInv, TypeInv
<1>4. CASE command.name = "TryRecover"
  <2>1. answers' = answers /\ execution.base.results = state.base.results
        /\ state.kind = "Error"
    BY <1>4 DEF Return, CommandInv
  <2>2. QED
    BY <1>2, <2>1 DEF AnswersInv, TypeInv
<1>5. CASE command.name = "Callback"
  <2> DEFINE answer == [id |-> command.id, value |-> command.value]
             n == Len(answers) + 1
             results == state.base.results
             step == state.base.step
  <2>1. /\ state.kind = "Await" /\ command.id = state.callback
        /\ execution.base.results = With(results, step, command.value)
        /\ answers' = Append(answers, answer)
    BY <1>5 DEF Return, CommandInv
  <2>2. answer \in AnswerRecords
    BY <1>1, <1>5 DEF Commands, AnswerRecords
  <2>3. /\ answers \in Seq(AnswerRecords) /\ Len(answers) \in Nat
        /\ DOMAIN answers = 1 .. Len(answers)
    BY DEF TypeInv
  <2>4. /\ answers' \in Seq(AnswerRecords) /\ DOMAIN answers' = 1 .. n
        /\ answers'[n] = answer
        /\ \A k \in DOMAIN answers : k \in DOMAIN answers' /\ answers'[k] = answers[k]
    BY <2>1, <2>2, <2>3
  <2>5. /\ state.callback \in DOMAIN calls
        /\ calls[state.callback].id = state.callback
        /\ calls[state.callback].step = step
        /\ step \notin DOMAIN results
    BY <2>1 DEF WaitInv
  <2>6. /\ DOMAIN execution.base.results = DOMAIN results \cup {step}
        /\ execution.base.results[step] = command.value
        /\ \A s \in DOMAIN results : execution.base.results[s] = results[s]
    BY <2>1, <2>5 DEF With
  <2>7. ASSUME NEW k \in DOMAIN answers'
        PROVE  LET i == answers'[k].id
               IN  /\ i \in DOMAIN calls'
                   /\ calls'[i].id = i
                   /\ calls'[i].step \in DOMAIN execution.base.results
                   /\ execution.base.results[calls'[i].step] = answers'[k].value
    <3>1. CASE k = n
      BY <1>2, <2>1, <2>4, <2>5, <2>6, <3>1
    <3>2. CASE k # n
      <4>1. k \in DOMAIN answers /\ answers'[k] = answers[k]
        BY <2>3, <2>4, <3>2
      <4>2. /\ answers[k].id \in DOMAIN calls
            /\ calls[answers[k].id].id = answers[k].id
            /\ calls[answers[k].id].step \in DOMAIN results
            /\ results[calls[answers[k].id].step] = answers[k].value
        BY <2>1, <4>1 DEF AnswersInv
      <4>3. QED
        BY <1>2, <2>6, <4>1, <4>2
    <3>3. QED
      BY <3>1, <3>2
  <2>8. ASSUME NEW s \in DOMAIN execution.base.results
        PROVE  \E k \in DOMAIN answers' : calls'[answers'[k].id].step = s
    <3>1. CASE s = step
      <4>1. n \in DOMAIN answers' /\ answers'[n].id = state.callback
        BY <2>1, <2>3, <2>4
      <4>2. QED
        BY <1>2, <2>5, <3>1, <4>1
    <3>2. CASE s # step
      <4>1. PICK k \in DOMAIN answers : calls[answers[k].id].step = s
        BY <2>1, <2>6, <3>2 DEF AnswersInv
      <4>2. answers[k].id \in DOMAIN calls
        BY <2>1 DEF AnswersInv
      <4>3. QED
        BY <1>2, <2>4, <4>1, <4>2
    <3>3. QED
      BY <3>1, <3>2
  <2>9. QED
    BY <2>4, <2>7, <2>8 DEF AnswersInv
<1>6. QED
  BY <1>1, <1>3, <1>4, <1>5 DEF Commands

\* A command ends with a problem or at the end of the flow.
LEMMA ReturnKeeps ==
    ASSUME Inv, Running, NEW status, Stop(status), Return(status), QuietCalls, UNCHANGED now
    PROVE  Inv'
<1> USE DEF Inv
<1>1. /\ state'.kind = status.kind /\ state'.base = status.base
      /\ status.kind \in {"Done", "Error"}
      /\ status.kind = "Error" => state'.code = status.code /\ state'.retried \in 0 .. MaxRetries
  BY CountedShape
<1>2. execution' = Idle /\ ~Running'
  BY DEF Return, Running
<1>3. /\ state'.base \in BaseStates /\ state'.base.body = Body
      /\ state'.base.results = execution.base.results
  BY <1>1 DEF Stop, SameRun
<1>4. RunBody' = Body
  BY <1>2, <1>3 DEF RunBody
<1>5. ~TimedOut'
  <2>1. status.kind = "Error" => status.code # "callback-timeout"
    BY DEF Stop, Done
  <2>2. QED
    BY <1>1, <2>1 DEF TimedOut
<1>6. CallsStay /\ NoneAwaited
  BY QuietCallsShape
<1>7. /\ AwaitedCallStartsOnce'
      /\ \A i \in DOMAIN calls' : Awaited(calls'[i]) =>
            i \in DOMAIN calls /\ calls'[i] = calls[i] /\ Awaited(calls[i])
  BY <1>6, AwaitedKept
<1>8. CallsInv'
  BY <1>1, <1>4, CallsKept DEF QuietCalls
<1>9. AnswersInv' /\ answers' \in Seq(AnswerRecords)
  BY <1>1, <1>3, <1>6, ReturnedAnswers
<1>10. TypeInv'
  BY <1>1, <1>2, <1>3, <1>6, <1>9 DEF TypeInv, CallsStay
<1>11. PlacesInv' /\ CommandInv'
  BY <1>2 DEF PlacesInv, CommandInv
<1>12. FreshInv'
  BY <1>1 DEF FreshInv
<1>13. WaitInv'
  <2>1. AllAnswered(execution.base.results)
    BY DEF WaitInv
  <2>2. AllAnswered(state.base.results)'
    BY <1>3, <1>7, <2>1 DEF AllAnswered
  <2>3. QED
    BY <1>1, <1>2, <2>2 DEF WaitInv
<1>14. QED
  BY <1>7, <1>8, <1>9, <1>10, <1>11, <1>12, <1>13

\* What a command that ends with an awaited call leaves.
AwaitCall ==
    /\ Entering("apply")
    /\ Expr.await # NoAwait
    /\ Id \notin DOMAIN execution.base.results
    /\ Call(TRUE)
    /\ Return(Await(CallbackID, now + Expr.await, Here))
    /\ UNCHANGED now

LEMMA AwaitShape ==
    ASSUME Inv, AwaitCall
    PROVE  LET n == Len(calls) + 1
           IN  /\ state'.kind = "Await" /\ state'.callback = n /\ n \in Nat \ {0}
               /\ n \in Callbacks
               /\ state'.deadline \in Nat /\ state'.base = Here
               /\ CallsStay /\ DOMAIN calls = 1 .. Len(calls) /\ DOMAIN calls' = 1 .. n
               /\ calls'[n] = [at |-> execution.at, step |-> Id, id |-> n, ok |-> TRUE]
               /\ execution' = Idle
<1> USE DEF Inv
<1>1. Entering("apply") /\ Inside /\ Call(TRUE)
      /\ Return(Await(CallbackID, now + Expr.await, Here))
  BY DEF AwaitCall, Entering
<1>2. execution.at \in DOMAIN Body /\ Body \in Flows /\ Expr = Body[execution.at]
      /\ Expr.op = "apply"
  BY <1>1, InsideShape, RunningShape DEF Entering, Expr
<1>3. Expr.await \in Nat
  BY <1>2, ExprShape DEF AwaitCall
<1>4. now \in Nat
  BY BoundsAssumption DEF TypeInv
<1>5. now + Expr.await \in Nat
  BY <1>3, <1>4
<1> DEFINE n == Len(calls) + 1
<1>6. /\ Len(calls) \in Nat /\ n <= MaxCalls /\ DOMAIN calls' = 1 .. n /\ CallsStay
      /\ calls'[n] = [at |-> execution.at, step |-> Id, id |-> CallbackID, ok |-> TRUE]
      /\ CallbackID = n
  BY <1>1, CallShape DEF AwaitCall
<1>7. MaxCalls \in Nat /\ 1 .. MaxCalls \subseteq Callbacks
  BY BoundsAssumption
<1>8. state' = Await(n, now + Expr.await, Here)
  <2>1. Counted(Await(n, now + Expr.await, Here), state) = Await(n, now + Expr.await, Here)
    BY DEF Counted, Await
  <2>2. QED
    BY <1>1, <1>6, <2>1 DEF Return
<1>9. execution' = Idle
  BY <1>1 DEF Return
<1>10. DOMAIN calls = 1 .. Len(calls)
  BY DEF TypeInv
<1>11. QED
  BY <1>5, <1>6, <1>7, <1>8, <1>9, <1>10 DEF Await

\* A command ends with an awaited call: at a place without a result, so that
\* none was made there before.
LEMMA AwaitKeeps == ASSUME Inv, AwaitCall PROVE Inv'
<1> USE DEF Inv
<1> DEFINE n == Len(calls) + 1
<1>1. /\ state'.kind = "Await" /\ state'.callback = n /\ n \in Nat \ {0}
      /\ state'.deadline \in Nat /\ state'.base = Here
      /\ CallsStay /\ DOMAIN calls = 1 .. Len(calls) /\ DOMAIN calls' = 1 .. n
      /\ calls'[n] = [at |-> execution.at, step |-> Id, id |-> n, ok |-> TRUE]
      /\ execution' = Idle
  BY AwaitShape
<1>2. /\ Running /\ ~Running' /\ SameRun(Here) /\ Here.step = Id
      /\ Id = Once[Body][execution.at]
  BY <1>1, InsideShape DEF AwaitCall, Entering, Running
<1>3. Return(Await(CallbackID, now + Expr.await, Here)) /\ Id \notin DOMAIN execution.base.results
      /\ UNCHANGED now
  BY DEF AwaitCall
<1>4. /\ state'.base \in BaseStates /\ state'.base.body = Body
      /\ state'.base.results = execution.base.results /\ RunBody' = Body
  BY <1>1, <1>2 DEF SameRun, RunBody
<1>5. CallsInv'
  BY <1>1, <1>2, <1>4, CallsKept DEF AwaitCall
<1>6. AnswersInv' /\ answers' \in Seq(AnswerRecords)
  BY <1>1, <1>2, <1>3, <1>4, ReturnedAnswers
<1>7. TypeInv'
  BY <1>1, <1>3, <1>4, <1>6 DEF TypeInv, CallsStay
<1>8. PlacesInv' /\ CommandInv' /\ FreshInv'
  BY <1>1, <1>2 DEF PlacesInv, CommandInv, FreshInv
<1>9. ASSUME NEW i \in DOMAIN calls', i # n
      PROVE  i \in DOMAIN calls /\ calls'[i] = calls[i] /\ i < n
  BY <1>1, <1>9 DEF CallsStay
<1>10. ASSUME NEW i \in DOMAIN calls', i # n, Awaited(calls'[i])
       PROVE  /\ calls'[i].step \in DOMAIN execution.base.results
              /\ calls'[i].at # execution.at
  <2>1. i \in DOMAIN calls /\ Awaited(calls[i]) /\ calls'[i] = calls[i]
    BY <1>9, <1>10
  <2>2. calls[i].step \in DOMAIN execution.base.results
    BY <1>2, <2>1 DEF WaitInv, AllAnswered
  <2>3. calls[i].step = Once[Body][calls[i].at]
    BY <1>2, <2>1 DEF CallsInv, RunBody
  <2>4. QED
    BY <1>2, <1>3, <2>1, <2>2, <2>3
<1>11. WaitInv'
  <2>1. /\ n \in DOMAIN calls' /\ calls'[n].id = n /\ Awaited(calls'[n])
        /\ calls'[n].step = Id /\ state'.base.step = Id
    BY <1>1, <1>2 DEF Awaited, NoCallback
  <2>2. Id \notin DOMAIN state'.base.results
    BY <1>3, <1>4
  <2>3. \A i \in DOMAIN calls' : Awaited(calls'[i]) =>
           i <= n /\ (i = n \/ calls'[i].step \in DOMAIN state'.base.results)
    BY <1>1, <1>4, <1>10
  <2>4. QED
    BY <1>1, <1>2, <2>1, <2>2, <2>3 DEF WaitInv
<1>12. AwaitedCallStartsOnce'
  <2> SUFFICES ASSUME NEW i \in DOMAIN calls', NEW j \in DOMAIN calls',
                      Awaited(calls'[i]), Awaited(calls'[j]), calls'[i].at = calls'[j].at
               PROVE  i = j
    BY DEF AwaitedCallStartsOnce
  <2>1. CASE i = n
    BY <1>1, <1>10, <2>1
  <2>2. CASE j = n
    BY <1>1, <1>10, <2>2
  <2>3. CASE i # n /\ j # n
    BY <1>9, <2>3 DEF AwaitedCallStartsOnce
  <2>4. QED
    BY <2>1, <2>2, <2>3
<1>13. QED
  BY <1>5, <1>6, <1>7, <1>8, <1>11, <1>12

-----------------------------------------------------------------------------
(* The start of a command *)

\* What an execution begins with.
Begins(command, base) ==
    /\ command \in Commands /\ base \in BaseStates
    /\ state.kind # "nil" => base.body = state.base.body
    /\ command.name = "Run" =>
          state.kind \in {"nil", "Scheduled"} /\ DOMAIN base.results = {}
    /\ command.name = "Callback" =>
          /\ state.kind = "Await" /\ command.id = state.callback
          /\ base.results = With(state.base.results, state.base.step, command.value)
    /\ command.name = "TryRecover" =>
          /\ state.kind = "Error" /\ state.retried < MaxRetries
          /\ state.code \in Recoverable /\ base.results = state.base.results

LEMMA ExecuteKeeps ==
    ASSUME Inv, NEW command, NEW base, Begins(command, base), Execute(command, base)
    PROVE  Inv'
<1> USE DEF Inv
<1>1. base.body \in Flows
  BY DEF Begins, BaseStates
<1>2. GetFlow(base.body) = {Once[base.body]}
  BY <1>1, TwiceIsOnce DEF GetFlow
<1>3. execution' = [command |-> command, steps |-> Once[base.body], at |-> 1,
                    pending |-> <<>>, base |-> base, result |-> "nothing"]
  BY <1>2 DEF Execute
<1>4. execution = Idle /\ ~Running /\ UNCHANGED <<state, calls, answers, now>>
  BY DEF Execute, Running
<1>5. execution' \in Executions
  BY <1>1, <1>3 DEF Executions, Begins
<1>6. Running' /\ Body' = base.body /\ RunBody' = base.body
  BY <1>3, <1>5, ExecutionsRun DEF Running, Body, RunBody
<1>7. TypeInv'
  BY <1>4, <1>5 DEF TypeInv
<1>8. PlacesInv'
  <2>1. Len(base.body) \in Nat
    BY <1>1, FlowShape
  <2>2. QED
    BY <1>3, <1>6, <2>1 DEF PlacesInv
<1>9. CallsInv'
  BY <1>4, <1>6 DEF CallsInv, RunBody, Begins
<1>10. CommandInv'
  BY <1>3, <1>4, <1>6 DEF CommandInv, Begins
<1>11. FreshInv' /\ AnswersInv' /\ AwaitedCallStartsOnce'
  BY <1>4, <1>6 DEF FreshInv, AnswersInv, AwaitedCallStartsOnce
<1>12. AllAnswered(base.results)
  <2>1. CASE command.name = "Run"
    BY <1>4, <2>1 DEF Begins, FreshInv, WaitInv, AllAnswered
  <2>2. CASE command.name = "Callback"
    BY <2>2 DEF Begins, WaitInv, AllAnswered, With
  <2>3. CASE command.name = "TryRecover"
    BY <1>4, <2>3 DEF Begins, WaitInv, TimedOut, Recoverable, AllAnswered
  <2>4. QED
    BY <2>1, <2>2, <2>3 DEF Begins, Commands
<1>13. WaitInv'
  BY <1>3, <1>4, <1>6, <1>12 DEF WaitInv, AllAnswered, TimedOut
<1>14. QED
  BY <1>7, <1>8, <1>9, <1>10, <1>11, <1>13

-----------------------------------------------------------------------------
(* The steps of an execution *)

\* The expressions that stop an execution, or give a result to go on with.
LEMMA StopsAt ==
    ASSUME Inv, NEW base, SameRun(base)
    PROVE  /\ Stop(Done(base))
           /\ \A code, reason : code # "callback-timeout" => Stop(Error(code, reason, base))
  BY DEF Stop, Done, Error

LEMMA EndKeeps == ASSUME Inv, End PROVE Inv'
<1>1. Running /\ SameRun(Here) /\ UNCHANGED <<calls, now>>
  BY InsideShape DEF Inv, End, Entering
<1>2. PICK status : Stop(status) /\ Return(status)
  BY <1>1, StopsAt DEF End
<1>3. QED
  BY <1>1, <1>2, ReturnKeeps DEF QuietCalls

LEMMA FlowEndsKeeps == ASSUME Inv, FlowEnds PROVE Inv'
<1>1. Running /\ UNCHANGED <<calls, now>> /\ Return(Done(execution.base))
  BY DEF FlowEnds, Running
<1>2. Stop(Done(execution.base))
  BY <1>1, RunningShape, StopsAt DEF Inv
<1>3. QED
  BY <1>1, <1>2, ReturnKeeps DEF QuietCalls

\* What is pending after an expression was entered.
LEMMA Entered ==
    ASSUME Inv, Inside, NEW op \in {"assign", "choose"}, Expr.op = op,
           NEW last \in 1 .. LastOf(Body, execution.at),
           op = "assign" => last = LastOf(Body, execution.at)
    PROVE  LET frame == [place |-> execution.at, base |-> Here, last |-> last]
               pending == Append(execution.pending, frame)
           IN  /\ pending \in Seq(Frames)
               /\ \A i \in DOMAIN pending :
                     /\ pending[i].place \in 1 .. execution.at
                     /\ pending[i].last \in 1 .. LastOf(Body, pending[i].place)
                     /\ Body[pending[i].place].op \in {"assign", "choose"}
                     /\ Body[pending[i].place].op = "assign" =>
                           pending[i].last = LastOf(Body, pending[i].place)
                     /\ pending[i].base.body = Body
                     /\ pending[i].base.results = execution.base.results
               /\ \A i, j \in DOMAIN pending : i < j => pending[i].place < pending[j].place
<1> DEFINE frame == [place |-> execution.at, base |-> Here, last |-> last]
           pending == Append(execution.pending, frame)
           n == Len(execution.pending) + 1
<1>1. /\ Running /\ execution.pending \in Seq(Frames) /\ SameRun(Here)
      /\ execution.at \in 1 .. Len(Body) + 1 /\ Len(Body) \in Nat
      /\ execution.at \in DOMAIN Body /\ Body \in Flows
  BY InsideShape, RunningShape DEF Inv
<1>2. frame \in Frames
  <2>1. LastOf(Body, execution.at) \in Nat
    BY <1>1, ExprShape
  <2>2. QED
    BY <1>1, <2>1 DEF Frames, SameRun
<1>3. /\ pending \in Seq(Frames) /\ DOMAIN pending = 1 .. n /\ pending[n] = frame
      /\ DOMAIN execution.pending = 1 .. n - 1 /\ n \in Nat
      /\ \A i \in 1 .. n - 1 : pending[i] = execution.pending[i]
  BY <1>1, <1>2
<1> HIDE DEF pending, n
<1>4. ASSUME NEW i \in 1 .. n - 1
      PROVE  /\ pending[i].place \in 1 .. execution.at - 1
             /\ pending[i].last \in 1 .. LastOf(Body, pending[i].place)
             /\ Body[pending[i].place].op \in {"assign", "choose"}
             /\ Body[pending[i].place].op = "assign" =>
                   pending[i].last = LastOf(Body, pending[i].place)
             /\ pending[i].base.body = Body
             /\ pending[i].base.results = execution.base.results
             /\ \A j \in 1 .. n - 1 : i < j => pending[i].place < pending[j].place
  BY <1>1, <1>3 DEF Inv, PlacesInv
<1>5. /\ pending[n].place \in 1 .. execution.at /\ pending[n].place = execution.at
      /\ pending[n].last \in 1 .. LastOf(Body, pending[n].place)
      /\ Body[pending[n].place].op \in {"assign", "choose"}
      /\ Body[pending[n].place].op = "assign" =>
            pending[n].last = LastOf(Body, pending[n].place)
      /\ pending[n].base.body = Body
      /\ pending[n].base.results = execution.base.results
  BY <1>1, <1>3 DEF SameRun, Expr
<1>6. ASSUME NEW i \in DOMAIN pending PROVE i \in 1 .. n - 1 \/ i = n
  BY <1>3
<1>7. ASSUME NEW i \in DOMAIN pending, NEW j \in DOMAIN pending, i < j
      PROVE  pending[i].place < pending[j].place
  <2>1. i \in 1 .. n - 1
    BY <1>3, <1>7
  <2>2. CASE j \in 1 .. n - 1
    BY <1>4, <1>7, <2>1, <2>2
  <2>3. CASE j = n
    BY <1>1, <1>4, <1>5, <2>1, <2>3
  <2>4. QED
    BY <1>6, <2>2, <2>3
<1>8. \A i \in DOMAIN pending :
         /\ pending[i].place \in 1 .. execution.at
         /\ pending[i].last \in 1 .. LastOf(Body, pending[i].place)
         /\ Body[pending[i].place].op \in {"assign", "choose"}
         /\ Body[pending[i].place].op = "assign" =>
               pending[i].last = LastOf(Body, pending[i].place)
         /\ pending[i].base.body = Body
         /\ pending[i].base.results = execution.base.results
  BY <1>1, <1>4, <1>5, <1>6
<1>9. QED
  BY <1>3, <1>7, <1>8 DEF pending

LEMMA AssignKeeps == ASSUME Inv, Assign PROVE Inv'
<1> USE DEF Inv
<1>1. /\ Inside /\ Running /\ Expr.op = "assign" /\ Expr = Body[execution.at]
      /\ execution.at \in DOMAIN Body /\ Body \in Flows /\ SameRun(execution.base)
      /\ execution \in Executions
      /\ UNCHANGED <<state, calls, answers, now>>
  BY InsideShape, RunningShape DEF Assign, Entering, Expr
<1> DEFINE frame == [place |-> execution.at, base |-> Here,
                     last |-> execution.at + Expr.val]
           pending == Append(execution.pending, frame)
<1>2. execution' = [execution EXCEPT !.at = @ + 1, !.pending = pending]
  BY DEF Assign
<1>3. /\ execution.at + Expr.val = LastOf(Body, execution.at)
      /\ LastOf(Body, execution.at) \in 1 .. LastOf(Body, execution.at)
      /\ execution.at \in Nat \ {0} /\ execution.at + 1 \in 1 .. Len(Body) + 1
  BY <1>1, ExprShape
<1>4. /\ pending \in Seq(Frames)
      /\ \A i \in DOMAIN pending :
            /\ pending[i].place \in 1 .. execution.at
            /\ pending[i].last \in 1 .. LastOf(Body, pending[i].place)
            /\ Body[pending[i].place].op \in {"assign", "choose"}
            /\ Body[pending[i].place].op = "assign" =>
                  pending[i].last = LastOf(Body, pending[i].place)
            /\ pending[i].base.body = Body
            /\ pending[i].base.results = execution.base.results
      /\ \A i, j \in DOMAIN pending : i < j => pending[i].place < pending[j].place
  BY <1>1, <1>3, Entered
<1> HIDE DEF pending
<1>5. execution' \in Executions /\ execution'.base = execution.base
      /\ execution'.command = execution.command /\ execution'.steps = execution.steps
      /\ execution'.pending = pending /\ execution'.at = execution.at + 1
      /\ execution'.result = execution.result
  <2>1. pending \in Seq(Frames) /\ execution \in Executions /\ execution.at + 1 \in Nat \ {0}
    BY <1>1, <1>3, <1>4
  <2>2. QED
    BY ONLY <1>2, <2>1 DEF Executions
<1>6. Goes
  BY <1>1, <1>5 DEF Goes
<1>7. PlacesInv'
  <2>1. Body' = Body
    BY <1>5 DEF Body
  <2>2. execution.result \notin Results =>
           \A q \in 1 .. execution.at : Body[q].op = "assign"
    BY <1>1, <1>3 DEF PlacesInv
  <2>3. execution.steps = Once[Body]
    BY <1>1 DEF PlacesInv
  <2>4. execution.at + 1 - 1 = execution.at
    BY <1>3
  <2>5. QED
    BY <1>3, <1>4, <1>5, <2>1, <2>2, <2>3, <2>4 DEF PlacesInv
<1>8. QED
  BY <1>1, <1>6, <1>7, GoesKeeps DEF QuietCalls

\* What was pending around an expression that is left.
LEMMA Left ==
    ASSUME Inv, Running, execution.pending # <<>>
    PROVE  LET pending == Front(execution.pending)
           IN  /\ pending \in Seq(Frames)
               /\ \A i \in DOMAIN pending :
                     /\ pending[i].place \in 1 .. execution.at - 1
                     /\ pending[i].place < Innermost.place
                     /\ pending[i].last \in 1 .. LastOf(Body, pending[i].place)
                     /\ Body[pending[i].place].op \in {"assign", "choose"}
                     /\ Body[pending[i].place].op = "assign" =>
                           pending[i].last = LastOf(Body, pending[i].place)
                     /\ pending[i].base.body = Body
                     /\ pending[i].base.results = execution.base.results
               /\ \A i, j \in DOMAIN pending : i < j => pending[i].place < pending[j].place
<1> USE DEF Inv
<1> DEFINE pending == Front(execution.pending)
           n == Len(execution.pending)
<1>1. /\ pending \in Seq(Frames)
      /\ \A i \in DOMAIN pending :
            i \in DOMAIN execution.pending /\ pending[i] = execution.pending[i]
      /\ n \in DOMAIN execution.pending /\ Innermost = execution.pending[n]
  BY InnermostShape
<1>2. \A i \in DOMAIN pending : i \in 1 .. n - 1 /\ n \in Nat
  BY RunningShape DEF Front
<1> HIDE DEF pending, n
<1>3. ASSUME NEW i \in DOMAIN pending
      PROVE  pending[i].place < Innermost.place
  BY <1>1, <1>2 DEF PlacesInv
<1>4. \A i, j \in DOMAIN pending : i < j => pending[i].place < pending[j].place
  BY <1>1 DEF PlacesInv
<1>5. \A i \in DOMAIN pending :
         /\ pending[i].place \in 1 .. execution.at - 1
         /\ pending[i].last \in 1 .. LastOf(Body, pending[i].place)
         /\ Body[pending[i].place].op \in {"assign", "choose"}
         /\ Body[pending[i].place].op = "assign" =>
               pending[i].last = LastOf(Body, pending[i].place)
         /\ pending[i].base.body = Body
         /\ pending[i].base.results = execution.base.results
  BY <1>1 DEF PlacesInv
<1>6. QED
  BY <1>1, <1>3, <1>4, <1>5 DEF pending

\* An assignment is left with a result.
LEMMA AssignedHasResult ==
    ASSUME Inv, Leaving("assign")
    PROVE  execution.result \in Results
<1> USE DEF Inv
<1> DEFINE p == Innermost.place
           q == Innermost.last
<1>1. /\ Running /\ execution.pending # <<>> /\ q < execution.at /\ Body[p].op = "assign"
      /\ p \in DOMAIN Body /\ q = LastOf(Body, p) /\ Body \in Flows
      /\ execution.at \in Nat /\ q \in DOMAIN Body
  BY LeavingShape, InnermostShape, RunningShape
<1>2. Body[p].val \in Nat \ {0} /\ q = p + Body[p].val /\ p \in Nat
      /\ \A r \in p + 1 .. q : LastOf(Body, r) <= q
  BY <1>1, ExprShape
<1>3. q \in p + 1 .. q /\ q \in Nat
  BY <1>2
<1>4. LastOf(Body, q) <= q
  BY <1>2, <1>3
<1> SUFFICES ASSUME execution.result \notin Results PROVE FALSE
  OBVIOUS
<1>5. q \in 1 .. execution.at - 1
  BY <1>1, <1>2
<1>6. Body[q].op = "assign"
  BY <1>1, <1>5 DEF PlacesInv
<1>7. Body[q].val \in Nat \ {0} /\ LastOf(Body, q) = q + Body[q].val
  BY <1>1, <1>6, ExprShape
<1>8. QED
  BY <1>3, <1>4, <1>7

LEMMA AssignedKeeps == ASSUME Inv, Assigned PROVE Inv'
<1> USE DEF Inv
<1> DEFINE var == Body[Innermost.place].var
           base == Innermost.base
           bound == [base EXCEPT !.vars = With(@, var, execution.result)]
           pending == Front(execution.pending)
<1>1. /\ Running /\ execution.pending # <<>> /\ Innermost.last < execution.at
      /\ Body[Innermost.place].op = "assign" /\ UNCHANGED <<calls, now>>
      /\ Innermost.place \in DOMAIN Body /\ Body \in Flows /\ SameRun(base)
      /\ execution.result \in Results /\ execution \in Executions
  BY LeavingShape, InnermostShape, RunningShape, AssignedHasResult DEF Assigned
<1>2. CASE var \in DOMAIN base.vars
  <2>1. Return(Error("assign-variable", var, base))
    BY <1>2 DEF Assigned
  <2>2. Stop(Error("assign-variable", var, base))
    BY <1>1, StopsAt
  <2>3. QED
    BY <1>1, <2>1, <2>2, ReturnKeeps DEF QuietCalls
<1>3. CASE var \notin DOMAIN base.vars
  <2>1. execution' = [execution EXCEPT !.pending = pending, !.base = bound]
        /\ UNCHANGED <<state, answers>>
    BY <1>3 DEF Assigned
  <2>2. SameRun(bound)
    <3>1. base \in BaseStates
      BY <1>1 DEF SameRun
    <3>2. base.vars \in Partial(Vars, Results) /\ Arg \in DOMAIN base.vars
      BY <3>1 DEF BaseStates
    <3>3. var \in Vars
      BY <1>1 DEF Vars
    <3>4. /\ With(base.vars, var, execution.result) \in Partial(Vars, Results)
          /\ Arg \in DOMAIN With(base.vars, var, execution.result)
      BY <1>1, <3>2, <3>3, WithPartial DEF With
    <3>5. bound \in BaseStates /\ bound.body = base.body /\ bound.results = base.results
      BY <3>1, <3>4 DEF BaseStates
    <3>6. QED
      BY <1>1, <3>5 DEF SameRun
  <2>3. /\ pending \in Seq(Frames)
        /\ \A i \in DOMAIN pending :
              /\ pending[i].place \in 1 .. execution.at - 1
              /\ pending[i].last \in 1 .. LastOf(Body, pending[i].place)
              /\ Body[pending[i].place].op \in {"assign", "choose"}
              /\ Body[pending[i].place].op = "assign" =>
                    pending[i].last = LastOf(Body, pending[i].place)
              /\ pending[i].base.body = Body
              /\ pending[i].base.results = execution.base.results
        /\ \A i, j \in DOMAIN pending : i < j => pending[i].place < pending[j].place
    BY <1>1, Left
  <2> HIDE DEF pending, bound
  <2>4. execution' \in Executions /\ execution'.base = bound
        /\ execution'.command = execution.command /\ execution'.steps = execution.steps
        /\ execution'.pending = pending /\ execution'.at = execution.at
        /\ execution'.result = execution.result
    <3>1. pending \in Seq(Frames) /\ execution \in Executions /\ bound \in BaseStates
      BY <1>1, <2>2, <2>3 DEF SameRun
    <3>2. QED
      BY ONLY <2>1, <3>1 DEF Executions
  <2>5. Goes
    BY <1>1, <2>1, <2>2, <2>4 DEF Goes
  <2>6. PlacesInv'
    <3>1. Body' = Body /\ bound.results = execution.base.results
      BY <2>2, <2>4 DEF Body, SameRun
    <3>2. execution.steps = Once[Body] /\ execution.at \in 1 .. Len(Body) + 1
      BY <1>1 DEF PlacesInv
    <3>3. QED
      BY <1>1, <2>3, <2>4, <3>1, <3>2 DEF PlacesInv
  <2>7. QED
    BY <1>1, <2>5, <2>6, GoesKeeps DEF QuietCalls
<1>4. QED
  BY <1>2, <1>3

LEMMA ChooseKeeps == ASSUME Inv, Choose PROVE Inv'
<1> USE DEF Inv
<1> DEFINE isTrue == execution.base.vars[Expr.reads] = Expr.equals
           from == execution.at + (IF isTrue THEN 0 ELSE Expr.yes)
           last == from + (IF isTrue THEN Expr.yes ELSE Expr.no)
           frame == [place |-> execution.at, base |-> Here, last |-> last]
           pending == Append(execution.pending, frame)
           result == IF isTrue THEN "true" ELSE "false"
<1>1. /\ Inside /\ Running /\ Expr.op = "choose" /\ Expr = Body[execution.at]
      /\ execution.at \in DOMAIN Body /\ Body \in Flows /\ SameRun(Here)
      /\ execution \in Executions /\ UNCHANGED <<calls, now>>
  BY InsideShape, RunningShape DEF Choose, Entering, Expr
<1>2. CASE \E code, reason : /\ code # "callback-timeout"
                             /\ Return(Error(code, reason, Here))
  BY <1>1, <1>2, StopsAt, ReturnKeeps DEF QuietCalls
<1>3. CASE ~\E code, reason : /\ code # "callback-timeout"
                              /\ Return(Error(code, reason, Here))
  <2>1. /\ execution' = [execution EXCEPT !.at = from + 1, !.base = Here,
                            !.result = result, !.pending = pending]
        /\ UNCHANGED <<state, answers>> /\ Expr.yes # 0
    BY <1>3 DEF Choose
  <2>2. /\ Expr.yes \in Nat \ {0} /\ Expr.no \in Nat /\ execution.at \in Nat \ {0}
        /\ LastOf(Body, execution.at) = execution.at + Expr.yes + Expr.no
        /\ LastOf(Body, execution.at) \in execution.at .. Len(Body) /\ Len(Body) \in Nat
    BY <1>1, <2>1, ExprShape
  <2>3. /\ last \in 1 .. LastOf(Body, execution.at)
        /\ from \in Nat /\ from + 1 \in 1 .. Len(Body) + 1 /\ from >= execution.at
    <3>1. CASE isTrue
      BY <2>2, <3>1
    <3>2. CASE ~isTrue
      BY <2>2, <3>2
    <3>3. QED
      BY <3>1, <3>2
  <2>4. /\ pending \in Seq(Frames)
        /\ \A i \in DOMAIN pending :
              /\ pending[i].place \in 1 .. execution.at
              /\ pending[i].last \in 1 .. LastOf(Body, pending[i].place)
              /\ Body[pending[i].place].op \in {"assign", "choose"}
              /\ Body[pending[i].place].op = "assign" =>
                    pending[i].last = LastOf(Body, pending[i].place)
              /\ pending[i].base.body = Body
              /\ pending[i].base.results = execution.base.results
        /\ \A i, j \in DOMAIN pending : i < j => pending[i].place < pending[j].place
    BY <1>1, <2>3, Entered
  <2>5. result \in Results
    BY DEF Results
  <2> HIDE DEF pending, from, result
  <2>6. execution' \in Executions /\ execution'.base = Here
        /\ execution'.command = execution.command /\ execution'.steps = execution.steps
        /\ execution'.pending = pending /\ execution'.at = from + 1
        /\ execution'.result = result
    <3>1. pending \in Seq(Frames) /\ execution \in Executions /\ Here \in BaseStates
          /\ from + 1 \in Nat \ {0}
      BY <1>1, <2>3, <2>4 DEF SameRun
    <3>2. QED
      BY ONLY <2>1, <2>5, <3>1 DEF Executions
  <2>7. Goes
    BY <1>1, <2>1, <2>6 DEF Goes
  <2>8. PlacesInv'
    <3>1. Body' = Body /\ Here.results = execution.base.results
      BY <1>1, <2>6 DEF Body, SameRun
    <3>2. execution.steps = Once[Body]
      BY <1>1 DEF PlacesInv
    <3>3. \A p \in 1 .. execution.at : p \in 1 .. from + 1 - 1
      BY <2>2, <2>3
    <3>4. QED
      BY <2>3, <2>4, <2>5, <2>6, <3>1, <3>2, <3>3 DEF PlacesInv
  <2>9. QED
    BY <1>1, <2>7, <2>8, GoesKeeps DEF QuietCalls
<1>4. QED
  BY <1>2, <1>3

LEMMA ChosenKeeps == ASSUME Inv, Chosen PROVE Inv'
<1> USE DEF Inv
<1> DEFINE pending == Front(execution.pending)
           next == LastOf(Body, Innermost.place) + 1
<1>1. /\ Running /\ execution.pending # <<>> /\ Innermost.last < execution.at
      /\ Body[Innermost.place].op = "choose"
      /\ UNCHANGED <<state, calls, answers, now>>
      /\ Innermost.place \in DOMAIN Body /\ Innermost.place < execution.at
      /\ Body \in Flows /\ SameRun(execution.base) /\ execution \in Executions
  BY LeavingShape, InnermostShape, RunningShape DEF Chosen
<1>2. /\ next \in 1 .. Len(Body) + 1 /\ Innermost.place < next
      /\ Innermost.place \in Nat \ {0} /\ next \in Nat \ {0}
  BY <1>1, ExprShape
<1>3. execution' = [execution EXCEPT !.pending = pending, !.at = next]
  BY DEF Chosen
<1>4. /\ pending \in Seq(Frames)
      /\ \A i \in DOMAIN pending :
            /\ pending[i].place \in 1 .. execution.at - 1
            /\ pending[i].place < Innermost.place
            /\ pending[i].last \in 1 .. LastOf(Body, pending[i].place)
            /\ Body[pending[i].place].op \in {"assign", "choose"}
            /\ Body[pending[i].place].op = "assign" =>
                  pending[i].last = LastOf(Body, pending[i].place)
            /\ pending[i].base.body = Body
            /\ pending[i].base.results = execution.base.results
      /\ \A i, j \in DOMAIN pending : i < j => pending[i].place < pending[j].place
  BY <1>1, Left
<1> HIDE DEF pending, next
<1>5. execution' \in Executions /\ execution'.base = execution.base
      /\ execution'.command = execution.command /\ execution'.steps = execution.steps
      /\ execution'.pending = pending /\ execution'.at = next
      /\ execution'.result = execution.result
  <2>1. pending \in Seq(Frames) /\ execution \in Executions /\ next \in Nat \ {0}
    BY <1>1, <1>2, <1>4
  <2>2. QED
    BY ONLY <1>3, <2>1 DEF Executions
<1>6. Goes
  BY <1>1, <1>5 DEF Goes
<1>7. PlacesInv'
  <2>1. Body' = Body
    BY <1>5 DEF Body
  <2>2. execution.steps = Once[Body] /\ execution.at \in 1 .. Len(Body) + 1
        /\ Len(Body) \in Nat
    BY <1>1, RunningShape
  <2>3. execution.result \in Results
    <3>1. Innermost.place \in 1 .. execution.at - 1
      BY <1>1, <1>2, <2>2
    <3>2. QED
      BY <1>1, <3>1 DEF PlacesInv
  <2>4. ASSUME NEW i \in DOMAIN pending
        PROVE  pending[i].place \in 1 .. next - 1
    BY <1>2, <1>4
  <2>5. QED
    BY <1>2, <1>4, <1>5, <2>1, <2>2, <2>3, <2>4 DEF PlacesInv
<1>8. QED
  BY <1>1, <1>6, <1>7, GoesKeeps DEF QuietCalls

LEMMA NextOperationKeeps ==
    ASSUME Inv, Entering("apply"), NEW v \in Values, NextOperation(v, Here), QuietCalls,
           UNCHANGED now
    PROVE  Inv'
<1> USE DEF Inv
<1>1. /\ Inside /\ Running /\ execution.at \in DOMAIN Body /\ SameRun(Here)
      /\ execution \in Executions /\ Len(Body) \in Nat /\ DOMAIN Body = 1 .. Len(Body)
  BY InsideShape, RunningShape DEF Entering
<1>2. execution' = [execution EXCEPT !.at = @ + 1, !.base = Here, !.result = v]
      /\ UNCHANGED <<state, answers>>
  BY DEF NextOperation
<1>3. execution' \in Executions /\ execution'.base = Here
      /\ execution'.command = execution.command /\ execution'.steps = execution.steps
      /\ execution'.pending = execution.pending /\ execution'.at = execution.at + 1
      /\ execution'.result = v /\ v \in Results
  <2>1. execution \in Executions /\ Here \in BaseStates /\ execution.at + 1 \in Nat \ {0}
        /\ v \in Results
    BY <1>1 DEF SameRun, Results
  <2>2. QED
    BY ONLY <1>2, <2>1 DEF Executions
<1>4. Goes
  BY <1>1, <1>2, <1>3 DEF Goes
<1>5. PlacesInv'
  <2>1. Body' = Body /\ Here.results = execution.base.results
    BY <1>1, <1>3 DEF Body, SameRun
  <2>2. \A p \in 1 .. execution.at - 1 : p \in 1 .. execution.at + 1 - 1
    BY <1>1
  <2>3. execution.at + 1 \in 1 .. Len(Body) + 1
    BY <1>1
  <2>4. QED
    BY <1>1, <1>3, <2>1, <2>2, <2>3 DEF PlacesInv
<1>6. QED
  BY <1>1, <1>4, <1>5, GoesKeeps

LEMMA ApplyKeeps == ASSUME Inv, Apply PROVE Inv'
<1> USE DEF Inv
<1>1. Entering("apply") /\ Inside /\ Running /\ SameRun(Here) /\ UNCHANGED now
      /\ SameRun(execution.base)
  BY InsideShape, RunningShape DEF Apply, Entering
<1>2. CASE \E code, reason : code # "callback-timeout" /\ Return(Error(code, reason, Here))
                             /\ (UNCHANGED calls \/ Call(FALSE))
  BY <1>1, <1>2, StopsAt, ReturnKeeps DEF QuietCalls
<1>3. CASE \E v \in Values : NextOperation(v, Here)
                             /\ (UNCHANGED calls \/ (Call(TRUE) /\ Expr.await = NoAwait))
  <2>1. Expr.await = NoAwait => CallbackID = NoCallback
    BY DEF CallbackID
  <2>2. QED
    BY <1>1, <1>3, <2>1, NextOperationKeeps DEF QuietCalls
<1>4. CASE AwaitCall
  BY <1>4, AwaitKeeps
<1>5. CASE Id \in DOMAIN execution.base.results
  <2>1. execution.base.results[Id] \in Values
    <3>1. execution.base.results \in Partial(Steps, Values)
      BY <1>1 DEF SameRun, BaseStates
    <3>2. QED
      BY <1>5, <3>1, PartialFunctions
  <2>2. QED
    BY <1>3, <1>5, <2>1 DEF Apply
<1>6. CASE Id \notin DOMAIN execution.base.results
  <2>1. CallFunction
    BY <1>6 DEF Apply
  <2>2. CASE ~(Expr.reads \subseteq DOMAIN execution.base.vars)
    BY <1>2, <2>1, <2>2 DEF CallFunction
  <2>3. CASE Return(Error("missing-function", Expr.fn, Here)) /\ UNCHANGED calls
    BY <1>2, <2>3
  <2>4. CASE Call(FALSE) /\ Return(Error("function-execution", Expr.fn, Here))
    BY <1>2, <2>4
  <2>5. CASE Call(TRUE) /\ Expr.await # NoAwait
             /\ Return(Await(CallbackID, now + Expr.await, Here))
    BY <1>1, <1>4, <1>6, <2>5 DEF AwaitCall
  <2>6. CASE Call(TRUE) /\ Expr.await = NoAwait /\ \E v \in Values : NextOperation(v, Here)
    BY <1>3, <2>6
  <2>7. QED
    BY <2>1, <2>2, <2>3, <2>4, <2>5, <2>6 DEF CallFunction
<1>7. QED
  BY <1>5, <1>6

-----------------------------------------------------------------------------
(* The commands *)

LEMMA RunNewKeeps ==
    ASSUME Inv, NEW body \in Flows, NEW input \in Values, RunNew(body, input)
    PROVE  Inv'
<1>1. Begins([name |-> "Run"], BaseState(body, input, "none"))
  BY FirstBaseState DEF RunNew, Begins, Commands
<1>2. QED
  BY <1>1, ExecuteKeeps DEF RunNew

LEMMA RunScheduledKeeps == ASSUME Inv, RunScheduled PROVE Inv'
<1>1. Begins([name |-> "Run"], state.base)
  BY DEF RunScheduled, Begins, Commands, Inv, TypeInv, FreshInv
<1>2. QED
  BY <1>1, ExecuteKeeps DEF RunScheduled

LEMMA CallbackKeeps ==
    ASSUME Inv, NEW id \in Callbacks, NEW v \in Values, Callback(id, v)
    PROVE  Inv'
<1> USE DEF Inv
<1> DEFINE command == [name |-> "Callback", id |-> id, value |-> v]
           base == Answered(state.base, v)
<1>1. /\ state.kind = "Await" /\ state.callback = id /\ state.base \in BaseStates
      /\ state.callback \in DOMAIN calls /\ calls[state.callback].step = state.base.step
      /\ Execute(command, base)
  BY DEF Callback, TypeInv, WaitInv
<1>2. state.base.step \in Steps
  <2>1. calls[state.callback] \in CallRecords
    BY <1>1 DEF TypeInv
  <2>2. QED
    BY <1>1, <2>1 DEF CallRecords
<1>3. With(state.base.results, state.base.step, v) \in Partial(Steps, Values)
  BY <1>1, <1>2, WithPartial DEF BaseStates
<1>4. /\ base \in BaseStates /\ base.body = state.base.body
      /\ base.results = With(state.base.results, state.base.step, v)
  BY <1>1, <1>3 DEF Answered, BaseStates
<1>5. command \in Commands /\ command.id = id /\ command.value = v /\ command.name = "Callback"
  BY DEF Commands
<1> HIDE DEF command, base
<1>6. Begins(command, base)
  BY <1>1, <1>4, <1>5 DEF Begins
<1>7. QED
  BY <1>1, <1>6, ExecuteKeeps

LEMMA TryRecoverKeeps == ASSUME Inv, TryRecover PROVE Inv'
<1>1. Begins([name |-> "TryRecover"], state.base)
  BY DEF TryRecover, Begins, Commands, Inv, TypeInv
<1>2. QED
  BY <1>1, ExecuteKeeps DEF TryRecover

\* A run that waits for its time.
LEMMA ScheduleKeeps ==
    ASSUME Inv, execution = Idle, UNCHANGED <<execution, calls, answers, now>>,
           state.kind \in {"nil", "Scheduled", "ScheduleStopped"},
           state'.kind \in {"Scheduled", "ScheduleStopped"},
           state'.base \in BaseStates, DOMAIN state'.base.results = {}
    PROVE  Inv'
<1> USE DEF Inv
<1>1. calls = <<>> /\ calls' = <<>> /\ answers = <<>> /\ ~Running /\ ~Running'
  BY DEF FreshInv, Running
<1>2. TypeInv'
  BY DEF TypeInv
<1>3. PlacesInv' /\ CallsInv' /\ CommandInv' /\ FreshInv'
  BY <1>1 DEF PlacesInv, CallsInv, CommandInv, FreshInv
<1>4. AnswersInv' /\ WaitInv' /\ AwaitedCallStartsOnce'
  BY <1>1 DEF AnswersInv, WaitInv, AllAnswered, AwaitedCallStartsOnce
<1>5. QED
  BY <1>2, <1>3, <1>4

LEMMA RunLaterKeeps ==
    ASSUME Inv, NEW body \in Flows, NEW input \in Values, NEW option \in Options,
           RunLater(body, input, option)
    PROVE  Inv'
<1>1. /\ execution = Idle /\ state.kind = "nil"
      /\ UNCHANGED <<execution, calls, answers, now>>
      /\ \E at : state' = Scheduled(at, BaseState(body, input, option))
  BY DEF RunLater
<1>2. state'.kind = "Scheduled" /\ state'.base = BaseState(body, input, option)
  BY <1>1 DEF Scheduled
<1>3. QED
  BY <1>1, <1>2, FirstBaseState, ScheduleKeeps

LEMMA StopScheduleKeeps == ASSUME Inv, StopSchedule PROVE Inv'
<1>1. state'.kind = "ScheduleStopped" /\ state'.base = state.base
  BY DEF StopSchedule, ScheduleStopped
<1>2. QED
  BY <1>1, ScheduleKeeps DEF StopSchedule, Inv, TypeInv, FreshInv

LEMMA ResumeScheduleKeeps == ASSUME Inv, ResumeSchedule PROVE Inv'
<1>1. state'.kind = "Scheduled" /\ state'.base = state.base
  BY DEF ResumeSchedule, Scheduled
<1>2. QED
  BY <1>1, ScheduleKeeps DEF ResumeSchedule, Inv, TypeInv, FreshInv

LEMMA ExpireAsyncKeeps == ASSUME Inv, ExpireAsync PROVE Inv'
<1> USE DEF Inv
<1>1. /\ execution = Idle /\ state.kind = "Await"
      /\ UNCHANGED <<execution, calls, answers, now>>
      /\ state'.kind = "Error" /\ state'.base = state.base
      /\ state'.code = "callback-timeout" /\ state'.retried = MaxRetries
  BY DEF ExpireAsync, Error
<1>2. TypeInv'
  BY <1>1, MaxRetriesAssumption DEF TypeInv
<1>3. PlacesInv' /\ CallsInv' /\ CommandInv' /\ FreshInv'
  BY <1>1 DEF PlacesInv, CallsInv, CommandInv, FreshInv, Running, RunBody
<1>4. AnswersInv' /\ WaitInv' /\ AwaitedCallStartsOnce'
  BY <1>1 DEF AnswersInv, WaitInv, AwaitedCallStartsOnce, Running, TimedOut
<1>5. QED
  BY <1>2, <1>3, <1>4

LEMMA TickKeeps == ASSUME Inv, UNCHANGED <<state, execution, calls, answers>>,
                          now' \in 0 .. MaxTime
                   PROVE  Inv'
<1> USE DEF Inv
<1>1. TypeInv'
  BY DEF TypeInv
<1>2. PlacesInv' /\ CallsInv' /\ CommandInv' /\ FreshInv'
  BY DEF PlacesInv, CallsInv, CommandInv, FreshInv, Running, RunBody, Body
<1>3. AnswersInv' /\ WaitInv' /\ AwaitedCallStartsOnce'
  BY DEF AnswersInv, WaitInv, AllAnswered, AwaitedCallStartsOnce, Running, TimedOut
<1>4. QED
  BY <1>1, <1>2, <1>3

LEMMA InitInv == Init => Inv
<1> SUFFICES ASSUME Init PROVE Inv
  OBVIOUS
<1>1. /\ state.kind = "nil" /\ execution = Idle /\ calls = <<>> /\ answers = <<>>
      /\ now = 0 /\ ~Running
  BY DEF Init, Running
<1>2. TypeInv
  BY <1>1, BoundsAssumption DEF TypeInv
<1>3. PlacesInv /\ CallsInv /\ CommandInv /\ FreshInv
  BY <1>1, BoundsAssumption DEF PlacesInv, CallsInv, CommandInv, FreshInv
<1>4. AnswersInv /\ WaitInv /\ AwaitedCallStartsOnce
  BY <1>1 DEF AnswersInv, WaitInv, AwaitedCallStartsOnce
<1>5. QED
  BY <1>2, <1>3, <1>4 DEF Inv

LEMMA StepInv == Inv /\ [Next]_vars => Inv'
<1> SUFFICES ASSUME Inv, [Next]_vars PROVE Inv'
  OBVIOUS
<1>1. CASE UNCHANGED vars
  BY <1>1, TickKeeps DEF vars, Inv, TypeInv
<1>2. CASE \E body \in Flows, input \in Values : RunNew(body, input)
  BY <1>2, RunNewKeeps
<1>3. CASE \E body \in Flows, input \in Values, option \in Options :
              RunLater(body, input, option)
  BY <1>3, RunLaterKeeps
<1>4. CASE \E id \in Callbacks, v \in Values : Callback(id, v)
  BY <1>4, CallbackKeeps
<1>5. CASE Tick
  <2>1. now' \in 0 .. MaxTime
    BY <1>5, BoundsAssumption DEF Tick, Inv, TypeInv
  <2>2. QED
    BY <1>5, <2>1, TickKeeps DEF Tick
<1>6. CASE ExecuteExpr
  BY <1>6, EndKeeps, AssignKeeps, AssignedKeeps, ChooseKeeps, ChosenKeeps, ApplyKeeps,
     FlowEndsKeeps DEF ExecuteExpr
<1>7. CASE RunScheduled \/ TryRecover \/ StopSchedule \/ ResumeSchedule \/ ExpireAsync
  BY <1>7, RunScheduledKeeps, TryRecoverKeeps, StopScheduleKeeps, ResumeScheduleKeeps,
     ExpireAsyncKeeps
<1>8. QED
  BY <1>1, <1>2, <1>3, <1>4, <1>5, <1>6, <1>7 DEF Next

\* The inductive invariant holds of every run.
THEOREM InvHolds == Spec => []Inv
  BY InitInv, StepInv, PTL DEF Spec

-----------------------------------------------------------------------------
(* The properties *)

LEMMA ExecutionsAreOK == ASSUME Inv, Running PROVE ExecutionOK
<1> USE DEF Inv
<1>1. execution \in Executions /\ Body \in Flows /\ execution.steps = Once[Body]
      /\ execution.at \in 1 .. Len(Body) + 1 /\ execution.pending \in Seq(Frames)
      /\ execution.base \in BaseStates /\ Len(Body) \in Nat /\ DOMAIN Body = 1 .. Len(Body)
  BY RunningShape DEF SameRun
<1>2. execution.command.name \in {"Run", "Callback", "TryRecover"}
      /\ execution.result \in Results \cup {"nothing"}
  BY <1>1 DEF Executions, Commands
<1>3. ASSUME NEW i \in DOMAIN execution.pending
      PROVE  /\ BaseStateOK(execution.pending[i].base)
             /\ execution.pending[i].place \in 1 .. execution.at - 1
             /\ execution.pending[i].last \in 1 .. Len(Body)
  <2>1. execution.pending[i] \in Frames
    BY <1>1
  <2>2. /\ execution.pending[i].place \in 1 .. execution.at - 1
        /\ execution.pending[i].last \in 1 .. LastOf(Body, execution.pending[i].place)
    BY DEF PlacesInv
  <2>3. execution.pending[i].place \in DOMAIN Body
    BY <1>1, <2>2
  <2>4. LastOf(Body, execution.pending[i].place) \in 1 .. Len(Body)
    BY <1>1, <2>3, ExprShape
  <2>5. QED
    BY <1>1, <2>1, <2>2, <2>4, BaseStatesAreOK DEF Frames
<1>4. QED
  BY <1>1, <1>2, <1>3, BaseStatesAreOK DEF ExecutionOK, GetFlow

LEMMA InvTypeOK == Inv => TypeOK
<1> SUFFICES ASSUME Inv PROVE TypeOK
  OBVIOUS
<1>1. TypeInv
  BY DEF Inv
<1>2. execution # Idle => ExecutionOK
  BY ExecutionsAreOK DEF Running
<1>3. answers \in Seq([id : Nat, value : Values])
  <2>1. AnswerRecords \subseteq [id : Callbacks, value : Values]
    BY DEF AnswerRecords
  <2>2. \A n \in DOMAIN answers : answers[n].id \in Nat
    BY DEF Inv, AnswersInv, FreshInv, TypeInv
  <2>3. ASSUME NEW n \in DOMAIN answers PROVE answers[n] \in [id : Nat, value : Values]
    <3>1. answers[n] \in AnswerRecords
      BY <1>1 DEF TypeInv
    <3>2. QED
      BY <2>2, <3>1 DEF AnswerRecords
  <2>4. Len(answers) \in Nat /\ DOMAIN answers = 1 .. Len(answers)
        /\ answers = [n \in 1 .. Len(answers) |-> answers[n]]
    BY <1>1 DEF TypeInv
  <2>5. answers \in [1 .. Len(answers) -> [id : Nat, value : Values]]
    BY <2>3, <2>4, Zenon
  <2>6. QED
    BY <2>4, <2>5, SeqDef
<1>4. QED
  BY <1>1, <1>2, <1>3, BaseStatesAreOK DEF TypeInv, TypeOK, CallRecords

\* The state is one of those there are, and an execution is inside the flow.
THEOREM TypeCorrect == Spec => []TypeOK
  BY InvHolds, InvTypeOK, PTL

\* An awaited function is called once for each step, for any flows, any
\* outcomes of its calls and any callbacks and recoveries.
THEOREM StartedOnce == Spec => []AwaitedCallStartsOnce
<1>1. Inv => AwaitedCallStartsOnce
  BY DEF Inv
<1>2. QED
  BY <1>1, InvHolds, PTL

\* The calls that have the ID of a callback.
LEMMA OneCallPerID ==
    ASSUME Inv, NEW n \in DOMAIN answers, state.kind # "nil"
    PROVE  {calls[i].step : i \in {k \in DOMAIN calls : calls[k].id = answers[n].id}} =
              {calls[answers[n].id].step}
<1>1. answers[n].id \in DOMAIN calls /\ calls[answers[n].id].id = answers[n].id
  BY DEF Inv, AnswersInv
<1>2. \A k \in DOMAIN calls : k # NoCallback /\ calls[k].id \in {NoCallback, k}
  BY DEF Inv, CallsInv, TypeInv, NoCallback
<1>3. {k \in DOMAIN calls : calls[k].id = answers[n].id} = {answers[n].id}
  BY <1>1, <1>2
<1>4. QED
  BY <1>3

LEMMA InvResults == Inv => ResultsComeFromCallbacks
<1> SUFFICES ASSUME Inv, state.kind # "nil" PROVE ResultsComeFromCallbacks
  BY DEF ResultsComeFromCallbacks
<1> DEFINE for(a) == {calls[i].step : i \in {k \in DOMAIN calls : calls[k].id = a.id}}
<1>1. \A n \in DOMAIN answers : for(answers[n]) = {calls[answers[n].id].step}
  BY OneCallPerID
<1> HIDE DEF for
<1>2. \A n \in DOMAIN answers :
         /\ calls[answers[n].id].step \in DOMAIN state.base.results
         /\ state.base.results[calls[answers[n].id].step] = answers[n].value
  BY DEF Inv, AnswersInv
<1>3. \A s \in DOMAIN state.base.results :
         \E n \in DOMAIN answers : calls[answers[n].id].step = s
  BY DEF Inv, AnswersInv
<1>4. DOMAIN state.base.results = UNION {for(answers[n]) : n \in DOMAIN answers}
  BY <1>1, <1>2, <1>3
<1>5. \A n \in DOMAIN answers : \A s \in for(answers[n]) :
         s \in DOMAIN state.base.results /\ state.base.results[s] = answers[n].value
  BY <1>1, <1>2
<1>6. QED
  BY <1>4, <1>5 DEF ResultsComeFromCallbacks, for

\* The results are those of the accepted callbacks.
THEOREM ResultsAreAnswers == Spec => []ResultsComeFromCallbacks
  BY InvHolds, InvResults, PTL

LEMMA InvOwnResult == Inv => EachStepUsesItsOwnResult
<1> SUFFICES ASSUME Inv, state.kind # "nil",
                    NEW steps \in GetFlow(state.base.body), NEW p \in DOMAIN steps,
                    steps[p] \in DOMAIN state.base.results
             PROVE  \E i \in DOMAIN calls, n \in DOMAIN answers :
                       /\ calls[i].at = p
                       /\ calls[i].id = answers[n].id
                       /\ answers[n].value = state.base.results[steps[p]]
  BY DEF EachStepUsesItsOwnResult
<1> DEFINE body == state.base.body
<1>1. body \in Flows
  BY DEF Inv, TypeInv, BaseStates
<1>2. steps = Once[body] /\ DOMAIN steps = DOMAIN body
  BY <1>1, TwiceIsOnce DEF GetFlow, Once, InitStepID
<1>3. PICK n \in DOMAIN answers : calls[answers[n].id].step = steps[p]
  BY DEF Inv, AnswersInv
<1> DEFINE i == answers[n].id
<1>4. /\ i \in DOMAIN calls /\ calls[i].id = i
      /\ state.base.results[calls[i].step] = answers[n].value
  BY DEF Inv, AnswersInv
<1>5. RunBody = body
  BY DEF RunBody, Inv, CommandInv
<1>6. calls[i].at \in DOMAIN body /\ calls[i].step = Once[body][calls[i].at]
  BY <1>4, <1>5 DEF Inv, CallsInv
<1>7. calls[i].at = p
  BY <1>1, <1>2, <1>3, <1>6, OnceIsDistinct
<1>8. QED
  BY <1>3, <1>4, <1>7

\* A recorded result is of the step that uses it, by its place in the flow.
THEOREM OwnResults == Spec => []EachStepUsesItsOwnResult
  BY InvHolds, InvOwnResult, PTL

-----------------------------------------------------------------------------
(* The run implements its lifecycle *)

\* The awaited calls, by their numbers, which are their IDs.
LEMMA StartedIs ==
    /\ Inv => Started = {i \in DOMAIN calls : Awaited(calls[i])}
    /\ Inv' => Started' = {i \in DOMAIN calls' : Awaited(calls'[i])}
<1>1. Inv => Started = {i \in DOMAIN calls : Awaited(calls[i])}
  BY DEF Inv, CallsInv, Awaited, Started, Range
<1>2. Inv' => Started' = {i \in DOMAIN calls' : Awaited(calls'[i])}
  BY DEF Inv, CallsInv, Awaited, Started, Range
<1>3. QED
  BY <1>1, <1>2

LEMMA LastStartedIs ==
    ASSUME Inv, NEW n \in DOMAIN calls, Awaited(calls[n]),
           \A i \in DOMAIN calls : Awaited(calls[i]) => i <= n
    PROVE  LastStarted = n
<1>1. \A i \in DOMAIN calls : i \in Int
  BY DEF Inv, TypeInv
<1>2. n \in Started /\ \A i \in Started : i \in Int /\ i <= n
  BY <1>1, StartedIs
<1>3. \A m \in Started : (\A i \in Started : i <= m) => m = n
  BY <1>2
<1>4. QED
  BY <1>2, <1>3 DEF LastStarted

LEMMA StartedStays == ASSUME Inv, Inv', QuietCalls PROVE UNCHANGED <<Started, LastStarted>>
<1>1. CallsStay /\ NoneAwaited
  BY QuietCallsShape DEF Inv
<1>2. Started' = {i \in DOMAIN calls' : Awaited(calls'[i])}
  BY StartedIs
<1>3. Started' = Started
  BY <1>1, <1>2, StartedIs DEF CallsStay, NoneAwaited
<1>4. QED
  BY <1>3 DEF LastStarted

\* What a step of an execution comes to.
LEMMA ExecutionComesTo ==
    ASSUME Inv, ExecuteExpr
    PROVE  /\ Running
           /\ \/ UNCHANGED <<state, answers>> /\ QuietCalls
              \/ QuietCalls /\ \E status : Stop(status) /\ Return(status)
              \/ AwaitCall
<1> USE DEF Inv
<1>1. CASE End
  <2>1. Running /\ SameRun(Here) /\ UNCHANGED calls
    BY <1>1, InsideShape DEF End, Entering
  <2>2. QED
    BY <1>1, <2>1, StopsAt DEF End, QuietCalls
<1>2. CASE FlowEnds
  <2>1. Running /\ SameRun(execution.base) /\ UNCHANGED calls
    BY <1>2, RunningShape DEF FlowEnds, Running
  <2>2. QED
    BY <1>2, <2>1, StopsAt DEF FlowEnds, QuietCalls
<1>3. CASE Assign
  BY <1>3, InsideShape DEF Assign, Entering, QuietCalls
<1>4. CASE Chosen
  BY <1>4, LeavingShape DEF Chosen, QuietCalls
<1>5. CASE Assigned
  <2>1. Running /\ SameRun(Innermost.base) /\ UNCHANGED calls
    BY <1>5, LeavingShape, InnermostShape DEF Assigned
  <2>2. QED
    BY <1>5, <2>1, StopsAt DEF Assigned, QuietCalls
<1>6. CASE Choose
  <2>1. Running /\ SameRun(Here) /\ UNCHANGED calls
    BY <1>6, InsideShape DEF Choose, Entering
  <2>2. QED
    BY <1>6, <2>1, StopsAt DEF Choose, QuietCalls
<1>7. CASE Apply
  <2>1. Running /\ SameRun(Here) /\ Entering("apply")
    BY <1>7, InsideShape DEF Apply, Entering
  <2>2. CASE Id \in DOMAIN execution.base.results
    BY <1>7, <2>1, <2>2 DEF Apply, NextOperation, QuietCalls
  <2>3. CASE Id \notin DOMAIN execution.base.results
    <3>1. CallFunction /\ UNCHANGED now
      BY <1>7, <2>3 DEF Apply
    <3>2. CASE \E code, reason : code # "callback-timeout" /\ Return(Error(code, reason, Here))
                                 /\ (UNCHANGED calls \/ Call(FALSE))
      BY <2>1, <3>2, StopsAt DEF QuietCalls
    <3>3. CASE Call(TRUE) /\ Expr.await # NoAwait
               /\ Return(Await(CallbackID, now + Expr.await, Here))
      BY <2>1, <2>3, <3>1, <3>3 DEF AwaitCall
    <3>4. CASE Call(TRUE) /\ Expr.await = NoAwait /\ \E v \in Values : NextOperation(v, Here)
      BY <2>1, <3>4 DEF NextOperation, QuietCalls, CallbackID
    <3>5. CASE ~(Expr.reads \subseteq DOMAIN execution.base.vars)
      BY <3>1, <3>2, <3>5 DEF CallFunction
    <3>6. CASE Return(Error("missing-function", Expr.fn, Here)) /\ UNCHANGED calls
      BY <3>2, <3>6
    <3>7. CASE Call(FALSE) /\ Return(Error("function-execution", Expr.fn, Here))
      BY <3>2, <3>7
    <3>8. QED
      BY <3>1, <3>3, <3>4, <3>5, <3>6, <3>7 DEF CallFunction
  <2>4. QED
    BY <2>2, <2>3
<1>8. QED
  BY <1>1, <1>2, <1>3, <1>4, <1>5, <1>6, <1>7 DEF ExecuteExpr

\* A command that came back is a command of the lifecycle.
LEMMA CommandMaps ==
    ASSUME Inv, Running, NEW status, Return(status), Lifecycle!Executed,
           \/ Recoveries' = 0
           \/ /\ execution.command.name = "TryRecover" /\ Phase' = "Error"
              /\ Recoveries' = state.retried + 1
    PROVE  Lifecycle!Next
<1> DEFINE command == execution.command
<1>1. command.name \in {"Run", "Callback", "TryRecover"}
  BY RunningShape DEF Inv, Executions, Commands
<1>2. CASE command.name = "Run"
  <2>1. state.kind \in {"nil", "Scheduled"} /\ answers' = answers
    BY <1>2 DEF Return, Inv, CommandInv
  <2>2. Phase \in {"nil", "Scheduled"} /\ Settled' = Settled
    BY <2>1 DEF Phase, TimedOut, Settled
  <2>3. QED
    BY <1>2, <2>2 DEF Lifecycle!Next, Lifecycle!Run
<1>3. CASE command.name = "TryRecover"
  <2>1. /\ state.kind = "Error" /\ state.retried < MaxRetries /\ ~TimedOut
        /\ answers' = answers
    BY <1>3 DEF Return, Inv, CommandInv, Recoverable, TimedOut
  <2>2. Phase = "Error" /\ Recoveries = state.retried /\ Settled' = Settled
    BY <2>1 DEF Phase, Recoveries, Settled
  <2>3. QED
    BY <1>3, <2>1, <2>2 DEF Lifecycle!Next, Lifecycle!TryRecover
<1>4. CASE command.name = "Callback"
  <2> DEFINE answer == [id |-> command.id, value |-> command.value]
  <2>1. /\ state.kind = "Await" /\ command.id = state.callback
        /\ answers' = Append(answers, answer)
    BY <1>4 DEF Return, Inv, CommandInv
  <2>2. Phase = "Await" /\ WaitsFor = LastStarted
    BY <2>1 DEF Phase, TimedOut, WaitsFor
  <2>3. LastStarted = state.callback
    BY <2>1, LastStartedIs DEF Inv, WaitInv
  <2>4. Settled' = Settled \cup {command.id}
    <3>1. answers \in Seq(AnswerRecords) /\ answer.id = command.id
      BY DEF Inv, TypeInv
    <3> HIDE DEF answer
    <3>2. Range(Append(answers, answer)) = Range(answers) \cup {answer}
      <4>1. /\ Len(answers) \in Nat /\ DOMAIN answers = 1 .. Len(answers)
            /\ DOMAIN Append(answers, answer) = 1 .. Len(answers) + 1
            /\ \A i \in 1 .. Len(answers) : Append(answers, answer)[i] = answers[i]
            /\ Append(answers, answer)[Len(answers) + 1] = answer
        BY <3>1
      <4>2. QED
        BY <4>1 DEF Range
    <3>3. Range(answers') = Range(answers) \cup {answer}
      BY <2>1, <3>2
    <3>4. QED
      BY <3>1, <3>3 DEF Settled
  <2>5. QED
    BY <1>4, <2>1, <2>2, <2>3, <2>4 DEF Lifecycle!Next, Lifecycle!Callback
<1>5. QED
  BY <1>1, <1>2, <1>3, <1>4

LEMMA ReturnMaps ==
    ASSUME Inv, Inv', Running, NEW status, Stop(status), Return(status), QuietCalls
    PROVE  Lifecycle!Next
<1>1. /\ state'.kind = status.kind /\ status.kind \in {"Done", "Error"}
      /\ status.kind = "Error" =>
            /\ state'.code = status.code
            /\ execution.command.name # "TryRecover" => state'.retried = 0
            /\ execution.command.name = "TryRecover" =>
                  state'.retried \in {0, state.retried + 1}
  BY CountedShape DEF Inv
<1>2. ~TimedOut'
  BY <1>1 DEF TimedOut, Stop, Done
<1>3. Phase' = state'.kind /\ WaitsFor' = NoCallback
  BY <1>1, <1>2 DEF Phase, WaitsFor
<1>4. Lifecycle!Executed
  BY <1>1, <1>3, StartedStays
  DEF Lifecycle!Executed, Lifecycle!Reaches, Lifecycle!NoCallback, NoCallback
<1>5. \/ Recoveries' = 0
      \/ /\ execution.command.name = "TryRecover" /\ Phase' = "Error"
         /\ Recoveries' = state.retried + 1
  BY <1>1, <1>3 DEF Recoveries
<1>6. QED
  BY <1>4, <1>5, CommandMaps

LEMMA AwaitMaps == ASSUME Inv, Inv', AwaitCall PROVE Lifecycle!Next
<1> DEFINE n == Len(calls) + 1
<1>1. /\ state'.kind = "Await" /\ state'.callback = n /\ n \in Nat \ {0} /\ n \in Callbacks
      /\ CallsStay /\ DOMAIN calls = 1 .. Len(calls) /\ DOMAIN calls' = 1 .. n
      /\ calls'[n] = [at |-> execution.at, step |-> Id, id |-> n, ok |-> TRUE]
  BY AwaitShape
<1>2. Running /\ Return(Await(CallbackID, now + Expr.await, Here))
  BY InsideShape DEF Inv, AwaitCall, Entering
<1>3. Phase' = "Await" /\ WaitsFor' = LastStarted' /\ Recoveries' = 0
  BY <1>1 DEF Phase, WaitsFor, Recoveries, TimedOut
<1>4. Awaited(calls'[n])
  BY <1>1 DEF Awaited, NoCallback
<1>5. Started = {i \in DOMAIN calls : Awaited(calls[i])}
  BY StartedIs
<1>6. Started' = {i \in DOMAIN calls' : Awaited(calls'[i])}
  BY StartedIs
<1>7. Started' = Started \cup {n} /\ n \notin Started
  BY <1>1, <1>4, <1>5, <1>6 DEF CallsStay
<1>8. LastStarted' = n
  <2>1. n \in Started' /\ \A i \in Started' : i \in Int /\ i <= n
    BY <1>1, <1>6, <1>7
  <2>2. \A m \in Started' : (\A i \in Started' : i <= m) => m = n
    BY <2>1
  <2>3. QED
    BY <2>1, <2>2 DEF LastStarted
<1>9. Lifecycle!Executed
  BY <1>1, <1>3, <1>7, <1>8 DEF Lifecycle!Executed, Lifecycle!Reaches
<1>10. QED
  BY <1>2, <1>3, <1>9, CommandMaps

\* A step that changes neither the State nor what was answered is not seen.
LEMMA Stutters ==
    ASSUME Inv, Inv', UNCHANGED <<state, answers>>, QuietCalls
    PROVE  UNCHANGED Lifecycle!vars
  BY StartedStays
  DEF Lifecycle!vars, Phase, WaitsFor, Recoveries, Settled, TimedOut

LEMMA InitMaps == Init => Lifecycle!Init
<1> SUFFICES ASSUME Init PROVE Lifecycle!Init
  OBVIOUS
<1>1. state.kind = "nil" /\ DOMAIN calls = {} /\ DOMAIN answers = {}
  BY DEF Init
<1>2. Started = {} /\ Settled = {}
  BY <1>1 DEF Started, Settled, Range
<1>3. QED
  BY <1>1, <1>2 DEF Lifecycle!Init, Lifecycle!NoCallback, NoCallback, Phase, WaitsFor,
     Recoveries, TimedOut

LEMMA StepMaps ==
    ASSUME Inv, Inv', [Next]_vars PROVE [Lifecycle!Next]_(Lifecycle!vars)
<1>1. CASE UNCHANGED <<state, calls, answers>>
  BY <1>1, Stutters DEF QuietCalls
<1>2. CASE ExecuteExpr
  BY <1>2, ExecutionComesTo, Stutters, ReturnMaps, AwaitMaps
<1>3. CASE UNCHANGED <<calls, answers>>
           /\ (\/ \E body \in Flows, input \in Values, option \in Options :
                     RunLater(body, input, option)
               \/ StopSchedule \/ ResumeSchedule \/ ExpireAsync)
  <2>1. UNCHANGED <<Started, LastStarted, Settled>>
    BY <1>3, StartedStays DEF QuietCalls, Settled
  <2>2. CASE \E body \in Flows, input \in Values, option \in Options :
                RunLater(body, input, option)
    <3>1. state.kind = "nil" /\ state'.kind = "Scheduled"
      BY <2>2 DEF RunLater, Scheduled
    <3>2. QED
      BY <2>1, <3>1 DEF Lifecycle!Next, Lifecycle!Schedule, Phase, WaitsFor, Recoveries,
         TimedOut
  <2>3. CASE StopSchedule
    <3>1. state.kind = "Scheduled" /\ state'.kind = "ScheduleStopped"
      BY <2>3 DEF StopSchedule, ScheduleStopped
    <3>2. QED
      BY <2>1, <3>1 DEF Lifecycle!Next, Lifecycle!StopSchedule, Phase, WaitsFor, Recoveries,
         TimedOut
  <2>4. CASE ResumeSchedule
    <3>1. state.kind = "ScheduleStopped" /\ state'.kind = "Scheduled"
      BY <2>4 DEF ResumeSchedule, Scheduled
    <3>2. QED
      BY <2>1, <3>1 DEF Lifecycle!Next, Lifecycle!ResumeSchedule, Phase, WaitsFor,
         Recoveries, TimedOut
  <2>5. CASE ExpireAsync
    <3>1. /\ state.kind = "Await" /\ state'.kind = "Error"
          /\ state'.code = "callback-timeout" /\ state'.retried = MaxRetries
      BY <2>5 DEF ExpireAsync, Error
    <3>2. QED
      BY <2>1, <3>1 DEF Lifecycle!Next, Lifecycle!ExpireAsync, Phase, WaitsFor, Recoveries,
         TimedOut
  <2>6. QED
    BY <1>3, <2>2, <2>3, <2>4, <2>5
<1>4. QED
  BY <1>1, <1>2, <1>3 DEF Next, vars, RunNew, RunScheduled, Callback, TryRecover, Execute,
     RunLater, StopSchedule, ResumeSchedule, ExpireAsync, Tick

\* Executing a flow, whatever the flow, keeps the promises of the lifecycle:
\* it waits for a callback it has not waited for, settles the one it waited
\* for, counts its recoveries and gives up when a callback expires.
THEOREM LifecycleImplemented == Spec => ImplementsLifecycle
<1>1. Inv /\ Inv' /\ [Next]_vars => [Lifecycle!Next]_(Lifecycle!vars)
  BY StepMaps
<1>2. QED
  BY <1>1, InvHolds, InitMaps, PTL DEF Spec, ImplementsLifecycle, Lifecycle!Spec

-----------------------------------------------------------------------------
(* What the lifecycle promises *)

\* The promises are inductive together with the type: what they need is that
\* a callback a run waits for was not waited for before, so that an answer
\* settles that callback and no other.
LifecycleInv ==
    /\ Lifecycle!TypeOK
    /\ Lifecycle!EachCallbackSettledOnce
    /\ Lifecycle!RetriesAreBounded

LEMMA LifecycleInitInv == Lifecycle!Init => LifecycleInv
  BY MaxRetriesAssumption
  DEF LifecycleInv, Lifecycle!Init, Lifecycle!TypeOK, Lifecycle!Phases,
      Lifecycle!EachCallbackSettledOnce, Lifecycle!RetriesAreBounded, Lifecycle!NoCallback

\* An execution starts at most one callback, a fresh one, and then waits.
ExecutedOwes ==
    /\ Phase' \in {"Await", "Error", "Done"}
    /\ WaitsFor' \in Callbacks \cup {Lifecycle!NoCallback}
    /\ Phase' = "Await" => /\ WaitsFor' \in Callbacks \ Started
                           /\ Started' = Started \cup {WaitsFor'}
    /\ Phase' # "Await" => Started' = Started

LEMMA ExecutedStartsOne == ASSUME Lifecycle!Executed PROVE ExecutedOwes
  BY DEF Lifecycle!Executed, Lifecycle!Reaches, ExecutedOwes

\* One command keeps them: the type, then what is owed, then the counter of
\* retries.
LEMMA LifecycleStepInv ==
    LifecycleInv /\ [Lifecycle!Next]_(Lifecycle!vars) => LifecycleInv'
<1> SUFFICES ASSUME LifecycleInv, [Lifecycle!Next]_(Lifecycle!vars) PROVE LifecycleInv'
  OBVIOUS
<1> USE MaxRetriesAssumption, CallbacksAssumption
    DEF NoCallback, Lifecycle!NoCallback, LifecycleInv, Lifecycle!TypeOK, Lifecycle!Phases,
        Lifecycle!EachCallbackSettledOnce, Lifecycle!RetriesAreBounded
<1>1. CASE Lifecycle!Run
  <2>1. ExecutedOwes
    BY <1>1, ExecutedStartsOne DEF Lifecycle!Run
  <2>2. QED
    BY <1>1, <2>1 DEF Lifecycle!Run, ExecutedOwes
<1>2. CASE Lifecycle!Callback
  <2>1. ExecutedOwes
    BY <1>2, ExecutedStartsOne DEF Lifecycle!Callback
  <2>2. WaitsFor \in Started
    BY <1>2 DEF Lifecycle!Callback
  <2>3. Lifecycle!TypeOK' /\ Lifecycle!RetriesAreBounded'
    BY <1>2, <2>1, <2>2 DEF Lifecycle!Callback, ExecutedOwes
  <2>4. Lifecycle!EachCallbackSettledOnce'
    BY <1>2, <2>1, <2>2 DEF Lifecycle!Callback, ExecutedOwes
  <2>5. QED
    BY <2>3, <2>4
<1>3. CASE Lifecycle!TryRecover
  <2>1. ExecutedOwes
    BY <1>3, ExecutedStartsOne DEF Lifecycle!TryRecover
  <2>2. QED
    BY <1>3, <2>1 DEF Lifecycle!TryRecover, ExecutedOwes
<1>4. CASE Lifecycle!ExpireAsync
  BY <1>4 DEF Lifecycle!ExpireAsync
<1>5. CASE Lifecycle!Schedule \/ Lifecycle!StopSchedule \/ Lifecycle!ResumeSchedule
  BY <1>5 DEF Lifecycle!Schedule, Lifecycle!StopSchedule, Lifecycle!ResumeSchedule
<1>6. CASE UNCHANGED Lifecycle!vars
  BY <1>6 DEF Lifecycle!vars
<1>7. QED
  BY <1>1, <1>2, <1>3, <1>4, <1>5, <1>6 DEF Lifecycle!Next

LEMMA LifecycleInvHolds == Spec => []LifecycleInv
<1>1. Lifecycle!Spec => []LifecycleInv
  BY LifecycleInitInv, LifecycleStepInv, PTL DEF Lifecycle!Spec
<1>2. QED
  BY <1>1, LifecycleImplemented, PTL DEF ImplementsLifecycle

\* A callback is settled once: a run that is done owes no answer, and the
\* only one it can wait for, or has let expire, is the last it started.
THEOREM CallbacksSettled == Spec => []Lifecycle!EachCallbackSettledOnce
  BY LifecycleInvHolds, PTL DEF LifecycleInv

\* Recovery of a run gives up at the limit.
THEOREM RetriesBounded == Spec => []Lifecycle!RetriesAreBounded
  BY LifecycleInvHolds, PTL DEF LifecycleInv
=============================================================================
