------------------------------ MODULE Workflow ------------------------------
(***************************************************************************)
(* One run of a workflow, x/workflow/workflow_transition.go.  A command    *)
(* executes the flow from its first expression, every time: what survives  *)
(* from the previous command is the BaseState, that is the variables and   *)
(* the results of the awaited steps that were answered.  The flow stops at *)
(* an error, at its end or at a step whose result will come later.         *)
(*                                                                         *)
(* A flow is the sequence of its expressions in the order they are written *)
(* and visited: the value of an assignment follows it, and so do the       *)
(* branches of a choice.  ExecuteExpr calls itself for those; here each of *)
(* its calls is a step of the execution, and what has been entered and not *)
(* left is pending.  The run's State changes when Transition returns; the  *)
(* functions it calls meanwhile take their time.                           *)
(*                                                                         *)
(* Results are recorded under step IDs, which are given by the user or     *)
(* generated, and generated again whenever the flow is looked up.          *)
(* Predicates are reduced to one equality with a variable; And, Or and Not *)
(* combine such comparisons and have no state. getFlow always finds the    *)
(* flow: when it does not, the command is refused and nothing changes.     *)
(***************************************************************************)
EXTENDS WorkflowLimits, Sequences, FiniteSets, SequencesExt

CONSTANTS
    Flows,        \* the bodies runs are started with
    Arg,          \* Flow.Arg
    Values,       \* what functions, callbacks and inputs hold
    Options,      \* kinds of RunOption
    Delay,        \* DelayRun.DelayBySeconds
    MaxTime,      \* bound on the clock
    MaxCalls      \* bound on the function calls of a run

-----------------------------------------------------------------------------
(* Flows *)

NoAwait == -1                  \* Apply.Await = nil

\* How many of the expressions after it belong to an expression: e.val are
\* the value of an assignment, e.yes and e.no the branches of a choice.
Extent(e) == CASE e.op = "assign" -> e.val
               [] e.op = "choose" -> e.yes + e.no
               [] OTHER -> 0
LastOf(body, p) == p + Extent(body[p])

\* Expressions are nested: one ends before the one ends that it is part of.
WellFormed(body) ==
    /\ body \in Seq(Range(body))
    /\ \A p \in DOMAIN body :
          /\ body[p].op \in {"end", "assign", "apply", "choose"}
          /\ body[p].op = "assign" => body[p].val \in Nat \ {0}
          /\ body[p].op = "choose" => {body[p].yes, body[p].no} \subseteq Nat
          /\ body[p].op = "apply" => body[p].await \in Nat \cup {NoAwait}
          /\ LastOf(body, p) \in DOMAIN body
          /\ \A q \in p + 1 .. LastOf(body, p) : LastOf(body, q) <= LastOf(body, p)

-----------------------------------------------------------------------------
(* Step IDs. An ID is a name and the numbers that were added to it; a name *)
(* is the sequence of its parts, which are written with dashes between.    *)

NoStep == [name |-> <<>>, numbers |-> <<>>]
Named(name) == [name |-> name, numbers |-> <<>>]
DefaultName(e) == IF e.op = "apply" THEN <<"apply", e.fn>> ELSE <<e.op>>

Own(body, ids, p) == IF ids[p] = NoStep THEN Named(DefaultName(body[p])) ELSE ids[p]

\* Mutation: an ID that is taken is given again.
StepIdShared(body, ids, p) == Own(body, ids, p)

\* IDs are counted by what they were before a number was added.
StepId(body, ids, p) ==
    LET own == Own(body, ids, p)
        taken == Cardinality({q \in 1 .. p - 1 : Own(body, ids, q) = own})
    IN  IF taken = 0 THEN own ELSE [own EXCEPT !.numbers = Append(@, taken)]

InitStepID(body, ids) == [p \in DOMAIN body |-> StepId(body, ids, p)]

\* getFlow: the IDs are written into the flow it finds, which may be the one
\* that an earlier command has been given, with its IDs.
Given(body) == [p \in DOMAIN body |-> body[p].id]
Once == [body \in Flows |-> InitStepID(body, Given(body))]
Twice == [body \in Flows |-> InitStepID(body, Once[body])]
GetFlow(body) == {Once[body], Twice[body]}

\* The steps and variables of the flows.
Places == UNION {DOMAIN body : body \in Flows}
Steps == UNION {Range(Once[body]) \cup Range(Twice[body]) : body \in Flows}
Vars == {Arg} \cup UNION {{body[p].var : p \in {q \in DOMAIN body : body[q].op = "assign"}}
                          : body \in Flows}

ASSUME OptionsAssumption == Options \subseteq {"none", "schedule", "delay"}
ASSUME BoundsAssumption ==
    /\ {Delay, MaxTime, MaxCalls} \subseteq Nat
    /\ 1 .. MaxCalls \subseteq Callbacks
\* No ID that is given, and no name of a function, looks like one with a
\* number: "apply-f" and "apply-f-1" may not both be names. If they are, a
\* step gets an ID that another one is given later, and a different one the
\* next time.
ASSUME FlowsAssumption ==
    \A body \in Flows :
        /\ WellFormed(body)
        /\ \A p \in DOMAIN body : body[p].id = Named(body[p].id.name)

VARIABLES
    state,     \* the State, [kind |-> "nil"] before the first command
    execution, \* what Transition is doing
    calls,     \* auxiliary: the calls of functions so far
    answers,   \* auxiliary: the callbacks that were accepted, with results
    now        \* Dependency.TimeNow()

vars == <<state, execution, calls, answers, now>>

-----------------------------------------------------------------------------
(* BaseState and the states that carry it *)

With(f, x, v) == [y \in DOMAIN f \cup {x} |-> IF y = x THEN v ELSE f[y]]

BaseState(body, input, option) ==
    [body |-> body, step |-> NoStep, vars |-> [x \in {Arg} |-> input],
     results |-> <<>>, option |-> option]

Error(code, reason, base) ==
    [kind |-> "Error", code |-> code, reason |-> reason, retried |-> 0, base |-> base]
Await(id, deadline, base) ==
    [kind |-> "Await", callback |-> id, deadline |-> deadline, base |-> base]
Done(base) == [kind |-> "Done", base |-> base]
Scheduled(at, base) == [kind |-> "Scheduled", at |-> at, base |-> base]
ScheduleStopped(base) == [kind |-> "ScheduleStopped", base |-> base]

-----------------------------------------------------------------------------
(* Executing the flow *)

Idle == [command |-> [name |-> "none"]]

\* ExecuteAll from the first expression, with the IDs getFlow has given.
Execute(command, base) ==
    /\ execution = Idle
    /\ \E steps \in GetFlow(base.body) :
          execution' = [command |-> command, steps |-> steps, at |-> 1,
                        pending |-> <<>>, base |-> base, result |-> "nothing"]
    /\ UNCHANGED <<state, calls, answers, now>>

Body == execution.base.body
Expr == Body[execution.at]
Innermost == Last(execution.pending)

\* The next expression is at a place of the innermost one that is pending.
Inside ==
    /\ execution # Idle
    /\ execution.at <= IF execution.pending = <<>> THEN Len(Body) ELSE Innermost.last

Entering(op) == Inside /\ Expr.op = op
Leaving(op) ==
    /\ execution # Idle /\ execution.pending # <<>> /\ ~Inside
    /\ Body[Innermost.place].op = op

Id == execution.steps[execution.at]
Here == [execution.base EXCEPT !.step = Id]        \* newContext

\* The counter goes up when the same problem comes back.
Counted(new, old) ==
    IF new.kind = "Error" /\ new.code = old.code /\ new.reason = old.reason
    THEN [new EXCEPT !.retried = old.retried + 1]
    ELSE new

\* A status that stops the execution is what the command returns.
Return(status) ==
    LET command == execution.command
    IN  /\ state' = IF command.name = "TryRecover" THEN Counted(status, state) ELSE status
        /\ answers' = IF command.name = "Callback"
                      THEN Append(answers, [id |-> command.id, value |-> command.value])
                      ELSE answers
        /\ execution' = Idle

\* NextOperation: the execution goes on after the expression.
NextOperation(v, base) ==
    /\ execution' = [execution EXCEPT !.at = @ + 1, !.base = base, !.result = v]
    /\ UNCHANGED <<state, answers>>

End ==
    /\ Entering("end")
    /\ Return(IF Expr.reads \subseteq DOMAIN execution.base.vars THEN Done(Here)
              ELSE Error("execute-reshaper", NoStep, Here))
    /\ UNCHANGED <<calls, now>>

\* The value of an assignment is evaluated before its name is looked at, and
\* only the result is kept of that evaluation.
Assign ==
    /\ Entering("assign")
    /\ execution' = [execution EXCEPT !.at = @ + 1,
           !.pending = Append(@, [place |-> execution.at, base |-> Here,
                                  last |-> execution.at + Expr.val])]
    /\ UNCHANGED <<state, calls, answers, now>>

Assigned ==
    /\ Leaving("assign")
    /\ LET var == Body[Innermost.place].var
           base == Innermost.base
       IN  IF var \in DOMAIN base.vars
           THEN Return(Error("assign-variable", var, base))
           ELSE /\ execution' = [execution EXCEPT !.pending = Front(@),
                       !.base = [base EXCEPT !.vars = With(@, var, execution.result)]]
                /\ UNCHANGED <<state, answers>>
    /\ UNCHANGED <<calls, now>>

Choose ==
    /\ Entering("choose")
    /\ LET isTrue == execution.base.vars[Expr.reads] = Expr.equals
           from == execution.at + (IF isTrue THEN 0 ELSE Expr.yes)
       IN  IF Expr.reads \notin DOMAIN execution.base.vars
           THEN Return(Error("choose-evaluate-predicate", Expr.reads, Here))
           ELSE IF Expr.yes = 0
           THEN Return(Error("choose-then-empty", NoStep, Here))
           ELSE /\ execution' = [execution EXCEPT !.at = from + 1, !.base = Here,
                       !.result = IF isTrue THEN "true" ELSE "false",
                       !.pending = Append(@, [place |-> execution.at, base |-> Here,
                           last |-> from + (IF isTrue THEN Expr.yes ELSE Expr.no)])]
                /\ UNCHANGED <<state, answers>>
    /\ UNCHANGED <<calls, now>>

\* The branch that was not taken is passed over.
Chosen ==
    /\ Leaving("choose")
    /\ execution' = [execution EXCEPT !.pending = Front(@),
                                      !.at = LastOf(Body, Innermost.place) + 1]
    /\ UNCHANGED <<state, calls, answers, now>>

\* GenerateCallbackID gives a new ID to every call that is awaited.
CallbackID == IF Expr.await = NoAwait THEN NoCallback ELSE Len(calls) + 1

Call(ok) ==
    /\ Len(calls) < MaxCalls
    /\ calls' = Append(calls, [at |-> execution.at, step |-> Id, id |-> CallbackID,
                               ok |-> ok])

\* A function that cannot be called is missing; one that is returns a value,
\* returns an error or will answer later.
CallFunction ==
    IF ~(Expr.reads \subseteq DOMAIN execution.base.vars)
    THEN Return(Error("execute-reshaper", Expr.fn, Here)) /\ UNCHANGED calls
    ELSE \/ Return(Error("missing-function", Expr.fn, Here)) /\ UNCHANGED calls
         \/ Call(FALSE) /\ Return(Error("function-execution", Expr.fn, Here))
         \/ /\ Call(TRUE)
            /\ IF Expr.await # NoAwait
               THEN Return(Await(CallbackID, now + Expr.await, Here))
               ELSE \E v \in Values : NextOperation(v, Here)

\* Mutation: recorded results are not looked at.
ApplyAgain ==
    /\ Entering("apply")
    /\ CallFunction
    /\ UNCHANGED now

\* A step with a recorded result is not executed again.
Apply ==
    /\ Entering("apply")
    /\ IF Id \in DOMAIN execution.base.results
       THEN NextOperation(execution.base.results[Id], Here) /\ UNCHANGED calls
       ELSE CallFunction
    /\ UNCHANGED now

\* ExecuteAll comes to the end of the flow.
FlowEnds ==
    /\ execution # Idle /\ execution.pending = <<>> /\ ~Inside
    /\ Return(Done(execution.base))
    /\ UNCHANGED <<calls, now>>

ExecuteExpr ==
    End \/ Assign \/ Assigned \/ Choose \/ Chosen \/ Apply \/ FlowEnds

-----------------------------------------------------------------------------
(* Transition: what a command does before it executes the flow *)

RunNew(body, input) ==
    /\ state.kind = "nil"
    /\ Execute([name |-> "Run"], BaseState(body, input, "none"))

\* cron gives a later time, a delay one that is Delay away.
RunTimes(option) == IF option = "delay" THEN {now + Delay} ELSE now + 1 .. MaxTime + 1

RunLater(body, input, option) ==
    /\ execution = Idle
    /\ state.kind = "nil" /\ option # "none"
    /\ \E at \in RunTimes(option) :
          state' = Scheduled(at, BaseState(body, input, option))
    /\ UNCHANGED <<execution, calls, answers, now>>

\* The time is the business of the one who sends Run.
RunScheduled ==
    /\ state.kind = "Scheduled"
    /\ Execute([name |-> "Run"], state.base)

Answered(base, v) == [base EXCEPT !.results = With(@, base.step, v)]

\* Mutation: any callback answers the run.
CallbackUnchecked(id, v) ==
    /\ state.kind = "Await"
    /\ state.deadline >= now
    /\ state.base.step \notin DOMAIN state.base.results
    /\ Execute([name |-> "Callback", id |-> id, value |-> v], Answered(state.base, v))

Callback(id, v) ==
    /\ state.kind = "Await"
    /\ state.callback = id
    /\ state.deadline >= now
    /\ state.base.step \notin DOMAIN state.base.results
    /\ Execute([name |-> "Callback", id |-> id, value |-> v], Answered(state.base, v))

Recoverable == {"missing-function", "function-execution"}

\* Mutation: the limit is not looked at.
TryRecoverForEver ==
    /\ state.kind = "Error"
    /\ state.code \in Recoverable
    /\ Execute([name |-> "TryRecover"], state.base)

TryRecover ==
    /\ state.kind = "Error"
    /\ state.retried < MaxRetries
    /\ state.code \in Recoverable
    /\ Execute([name |-> "TryRecover"], state.base)

StopSchedule ==
    /\ execution = Idle
    /\ state.kind = "Scheduled"
    /\ state' = ScheduleStopped(state.base)
    /\ UNCHANGED <<execution, calls, answers, now>>

ResumeSchedule ==
    /\ execution = Idle
    /\ state.kind = "ScheduleStopped"
    /\ \E at \in RunTimes(state.base.option) : state' = Scheduled(at, state.base)
    /\ UNCHANGED <<execution, calls, answers, now>>

\* Mutation: a late callback is an error like any other.
ExpireRecoverably ==
    /\ execution = Idle
    /\ state.kind = "Await"
    /\ now >= state.deadline
    /\ state' = Error("function-execution", NoStep, state.base)
    /\ UNCHANGED <<execution, calls, answers, now>>

ExpireAsync ==
    /\ execution = Idle
    /\ state.kind = "Await"
    /\ now >= state.deadline
    /\ state' = [Error("callback-timeout", NoStep, state.base)
                    EXCEPT !.retried = MaxRetries]
    /\ UNCHANGED <<execution, calls, answers, now>>

Tick ==
    /\ now < MaxTime
    /\ now' = now + 1
    /\ UNCHANGED <<state, execution, calls, answers>>

Init ==
    /\ state = [kind |-> "nil"]
    /\ execution = Idle
    /\ calls = <<>>
    /\ answers = <<>>
    /\ now = 0

Next ==
    \/ \E body \in Flows, input \in Values :
          \/ RunNew(body, input)
          \/ \E option \in Options : RunLater(body, input, option)
    \/ RunScheduled
    \/ \E id \in Callbacks, v \in Values : Callback(id, v)
    \/ TryRecover \/ StopSchedule \/ ResumeSchedule \/ ExpireAsync
    \/ ExecuteExpr \/ Tick

Spec == Init /\ [][Next]_vars

-----------------------------------------------------------------------------
(* Properties *)

IsPartial(f, D, R) == DOMAIN f \subseteq D /\ \A x \in DOMAIN f : f[x] \in R
Results == Values \cup {"true", "false"}

BaseStateOK(base) ==
    /\ base.body \in Flows
    /\ base.step \in Steps \cup {NoStep}
    /\ IsPartial(base.vars, Vars, Results) /\ Arg \in DOMAIN base.vars
    /\ IsPartial(base.results, Steps, Values)
    /\ base.option \in Options \cup {"none"}

ExecutionOK ==
    /\ execution.command.name \in {"Run", "Callback", "TryRecover"}
    /\ execution.steps \in GetFlow(Body)
    /\ BaseStateOK(execution.base)
    /\ execution.at \in 1 .. Len(Body) + 1
    /\ execution.result \in Results \cup {"nothing"}
    /\ \A i \in DOMAIN execution.pending :
          /\ BaseStateOK(execution.pending[i].base)
          /\ execution.pending[i].place \in 1 .. execution.at - 1
          /\ execution.pending[i].last \in 1 .. Len(Body)

TypeOK ==
    /\ state.kind \in {"nil", "Scheduled", "ScheduleStopped", "Await", "Error", "Done"}
    /\ state.kind # "nil" => BaseStateOK(state.base)
    /\ state.kind = "Await" => state.deadline \in Nat /\ state.callback \in Nat \ {0}
    /\ state.kind = "Error" => state.retried \in 0 .. MaxRetries
    /\ execution # Idle => ExecutionOK
    /\ calls \in Seq([at : Places, step : Steps, id : Nat, ok : BOOLEAN])
    /\ answers \in Seq([id : Nat, value : Values])
    /\ now \in 0 .. MaxTime

\* A call that the run then waits for.
Awaited(c) == c.id # NoCallback /\ c.ok

\* An awaited function starts work outside: a mail, a payment. Once it has
\* been started for a step, it is not started again for that step, however
\* many callbacks, recoveries and re-executions of the flow come later.
AwaitedCallStartsOnce ==
    \A i, j \in DOMAIN calls :
        /\ Awaited(calls[i]) /\ Awaited(calls[j])
        /\ calls[i].at = calls[j].at
        => i = j

\* The results a run holds are those of the callbacks it accepted, each for
\* the step whose call was given that callback's ID, and as it was sent.
ResultsComeFromCallbacks ==
    state.kind # "nil" =>
        LET for(a) == {calls[i].step : i \in {k \in DOMAIN calls : calls[k].id = a.id}}
        IN  /\ \A n \in DOMAIN answers :
                  \A s \in for(answers[n]) :
                      /\ s \in DOMAIN state.base.results
                      /\ state.base.results[s] = answers[n].value
            /\ DOMAIN state.base.results = UNION {for(answers[n]) : n \in DOMAIN answers}

\* A result is used by the step that was answered, and by no other: whichever
\* command looks the flow up, the step that has the ID under which a result
\* was recorded is the one, by its place, whose call the answer was for.
EachStepUsesItsOwnResult ==
    state.kind # "nil" =>
        \A steps \in GetFlow(state.base.body) : \A p \in DOMAIN steps :
            steps[p] \in DOMAIN state.base.results =>
                \E i \in DOMAIN calls, n \in DOMAIN answers :
                    /\ calls[i].at = p
                    /\ calls[i].id = answers[n].id
                    /\ answers[n].value = state.base.results[steps[p]]

\* The run as its callers see it.
TimedOut == state.kind = "Error" /\ state.code = "callback-timeout"
Started == {c.id : c \in {d \in Range(calls) : Awaited(d)}}
LastStarted == CHOOSE id \in Started : \A other \in Started : other <= id

Phase == IF TimedOut THEN "Expired" ELSE state.kind
WaitsFor == IF TimedOut \/ state.kind = "Await" THEN LastStarted ELSE NoCallback
Recoveries == IF state.kind = "Error" THEN state.retried ELSE 0
Settled == {a.id : a \in Range(answers)}

Lifecycle == INSTANCE WorkflowLifecycle WITH
    phase <- Phase, callback <- WaitsFor, retried <- Recoveries,
    started <- Started, answered <- Settled

\* Executing a flow keeps the promises of the lifecycle.
ImplementsLifecycle == Lifecycle!Spec
=============================================================================
