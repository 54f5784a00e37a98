----------------------------- MODULE MCWorkflow -----------------------------
(* Flows and TLC instances of Workflow. *)
EXTENDS Workflow

\* Expressions, each as the sequence of itself and its parts: steps without
\* IDs, and one with an ID.
EndOf(reads) == <<[op |-> "end", id |-> NoStep, reads |-> reads]>>
Set(var, val) == <<[op |-> "assign", id |-> NoStep, var |-> var, val |-> Len(val)]>> \o val
Ask(fn, reads, timeout) ==
    <<[op |-> "apply", id |-> NoStep, fn |-> fn, reads |-> reads, await |-> timeout]>>
Do(fn, reads) == Ask(fn, reads, NoAwait)
If(reads, equals, yes, no) ==
    <<[op |-> "choose", id |-> NoStep, reads |-> reads, equals |-> equals,
       yes |-> Len(yes), no |-> Len(no)]>> \o yes \o no
WithID(name, expr) == [expr EXCEPT ![1].id = Named(name)]

\* Ask for an approval, act on the answer. Two steps are given one ID.
Approval ==
    Set("answer", WithID(<<"approval">>, Ask("approve", {"input"}, 1)))
    \o If("answer", "yes", WithID(<<"approval">>, Do("ship", {"answer"})),
          EndOf({"answer"}))
    \o EndOf({"answer"})

\* Two awaited steps of one function around one that is not awaited, none of
\* them assigned. The ID of the last is what the others get by default.
TwoAnswers ==
    Ask("notify", {"input"}, 1)
    \o Do("store", {"input"})
    \o Ask("notify", {"input"}, 2)
    \o WithID(<<"apply", "notify">>, Set("total", Do("sum", {"input"})))

\* An awaited step inside a branch that is a value.
Nested ==
    Set("checked", If("input", "yes", Do("store", {"input"}) \o Ask("notify", {"input"}, 1),
                      <<>>))
    \o EndOf({"missing"})

\* The one of the package's README.
RegisterUser ==
    Set("reserved", Do("ReserveNick", {"input"}))
    \o Set("confirmed", Ask("SendActivationEmail", {"input"}, 1))
    \o If("confirmed", "no", Do("RemoveReservation", {"reserved"}) \o EndOf({}), <<>>)
    \o Set("account", Do("CreateAccount", {"reserved"}))
    \o EndOf({"account"})

AllFlows == {Approval, TwoAnswers, Nested, RegisterUser}

AllOptions == {"none", "schedule", "delay"}
CallbackIDs == 1 .. 8
YesNo == {"yes", "no"}
=============================================================================
