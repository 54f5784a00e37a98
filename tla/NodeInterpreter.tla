--------------------------- MODULE NodeInterpreter ---------------------------
(***************************************************************************)
(* The older projection engine, x/storage/schemaless/projection:           *)
(* InMemoryTwoInterpreter runs every node of a graph in a goroutine of its *)
(* own and connects them by PubSubChan, one for each node.                 *)
(*                                                                         *)
(* A PubSubChan has a buffered channel and a goroutine, Process, that      *)
(* takes messages off it.  Without subscribers a message is dropped; a     *)
(* single subscriber is called by Process itself; several subscribers get  *)
(* the message in buffers of their own, from which a worker goroutine of   *)
(* each calls them.  Finish closes the channel and waits until Process has *)
(* closed the subscribers.  A handler publishes on the channel of its own  *)
(* node, which it fails to do when it finds the context cancelled; a panic *)
(* in any goroutine ends the program.                                      *)
(***************************************************************************)
EXTENDS Integers, Sequences, FiniteSets, SequencesExt

CONSTANTS
    Graphs,      \* the graphs to run, nodes in the order they are started
    Windows,     \* the windows of all window nodes
    WindowOf,    \* the one that the k-th item of a load node is in
    WindowAfter, \* the one that the end of a window is in
    WindowSize,  \* AtWindowItemSize.Number of the triggers
    Capacity     \* of the channels and of the subscribers' buffers

ASSUME CapacityAssumption == Capacity \in Nat \ {0}
ASSUME WindowsAssumption ==
    /\ Windows \subseteq Nat \ {0} /\ IsFiniteSet(Windows)
    /\ WindowOf \in Seq(Windows)
    /\ WindowAfter \in [Windows -> Windows]

\* A load has no input, a join has two and the others have one; the inputs of
\* a node are started after it. A trigger is any one of several sets of which
\* all have to be true: AllOf and AnyOf.
ASSUME GraphsAssumption ==
    \A g \in Graphs :
        /\ g = [n \in 1 .. Len(g) |-> g[n]] /\ Len(g) \in Nat
        /\ \A n \in 1 .. Len(g) :
              /\ g[n].kind \in {"load", "map", "window", "join"}
              /\ g[n].input \in Seq(n + 1 .. Len(g))
              /\ Len(g[n].input) = CASE g[n].kind = "load" -> 0
                                     [] g[n].kind = "join" -> 2
                                     [] OTHER -> 1
              /\ g[n].kind = "load" => g[n].items \in 0 .. Len(WindowOf)
              /\ g[n].need \subseteq SUBSET {"watermark", "size"}
              /\ g[n].fails \in BOOLEAN

\* An item is named by its number and the node it was loaded by, and at is the
\* window of its event time. The group of a window is an item again: it has the
\* items that it was made of and the time of the window's end. A watermark has
\* none.
Item(n, k) == [ids |-> <<<<n, k>>>>, at |-> WindowOf[k]]
Group(w, items) == [ids |-> items.ids, at |-> WindowAfter[w]]
Watermark == [ids |-> <<>>, at |-> 0]
IsWatermark(m) == m = Watermark

\* A window of a WindowBuffer: how many items, and what they were made of.
NoItems == [items |-> 0, ids |-> <<>>]

VARIABLES
    graph,        \* the graph that is run
    launched,     \* how many nodes were started
    node,         \* where the goroutine of each node is
    queue,        \* PubSubChan.channel
    closed,       \* PubSubChan.isClosed
    process,      \* where the Process goroutine of each node's channel is
    subscribers,  \* PubSubChan.subscribers
    sub,          \* the subscriptions: the call of Subscribe and its worker
    buffer,       \* WindowBuffer: the items of each window
    met,          \* TriggerState: the triggers of each window that are true
    cancelled,    \* the context of the run
    sending,      \* who had looked at it by then, and has not sent since
    crashed,      \* a goroutine has panicked
    published,    \* auxiliary: what was put on each channel
    handled,      \* auxiliary: what each subscription was called with
    joined,       \* auxiliary: messages taken off before it was subscribed
    failed        \* auxiliary: a handler has returned an error

channels == <<queue, closed, process, subscribers>>
windows == <<buffer, met>>
history == <<published, handled, joined, failed>>
vars == <<graph, launched, node, channels, sub, windows, cancelled, sending, crashed, history>>

Nodes == DOMAIN graph
\* The subscriptions of a graph: one for every input of every node.
Subscriptions == {<<n, k>> : n \in Nodes, k \in 1 .. 2} \cap
                 UNION {{n} \X DOMAIN graph[n].input : n \in Nodes}
Source(s) == graph[s[1]].input[s[2]]

Ids == Nodes \X DOMAIN WindowOf
Messages == {Watermark} \cup [ids : Seq(Ids), at : Windows]

NodeStates == {"new", "load", "subscribe", "flush", "finish", "closing", "returned"}
\* Who publishes: <<n, 0>> is the goroutine of the node n, <<n, k>> the handler
\* of its k-th input.
Publishers == Nodes \X (0 .. 2)

ProcessStates == [pc : {"receive", "fanout", "settle", "closing", "done"},
                  msg : Messages, rest : Seq(Subscriptions)]
Calls == [call : {"check", "add", "wait", "remove", "returned"},
          result : {"none", "nil", "error"},
          worker : {"off", "running", "ended", "stuck"},
          by : {"none", "process", "worker"},
          inputs : Seq(Messages), shut : BOOLEAN, emit : Seq(Messages)]
Buffers == [Windows -> [items : Nat, ids : Seq(Ids)]]
Triggers == [Windows -> SUBSET {"watermark", "size"}]

TypeOK ==
    /\ graph \in Graphs
    /\ launched \in 0 .. Len(graph)
    /\ node \in [Nodes -> NodeStates]
    /\ queue \in [Nodes -> Seq(Messages)]
    /\ \A n \in Nodes : Len(queue[n]) <= Capacity
    /\ closed \in [Nodes -> BOOLEAN]
    /\ process \in [Nodes -> ProcessStates]
    /\ subscribers \in [Nodes -> Seq(Subscriptions)]
    /\ sub \in [Subscriptions -> Calls]
    /\ \A s \in Subscriptions : Len(sub[s].inputs) <= Capacity
    /\ buffer \in [Nodes -> Buffers]
    /\ met \in [Nodes -> Triggers]
    /\ sending \subseteq Publishers
    /\ cancelled \in BOOLEAN /\ crashed \in BOOLEAN /\ failed \in BOOLEAN
    /\ published \in [Nodes -> Seq(Messages)]
    /\ handled \in [Subscriptions -> Seq(Messages)]
    /\ joined \in [Subscriptions -> Nat \cup {-1}]

NewSub == [call |-> "check", result |-> "none", worker |-> "off", by |-> "none",
           inputs |-> <<>>, shut |-> FALSE, emit |-> <<>>]

Init ==
    /\ graph \in Graphs
    /\ launched = 0
    /\ node = [n \in Nodes |-> "new"]
    /\ queue = [n \in Nodes |-> <<>>]
    /\ closed = [n \in Nodes |-> FALSE]
    /\ process = [n \in Nodes |-> [pc |-> "receive", msg |-> Watermark, rest |-> <<>>]]
    /\ subscribers = [n \in Nodes |-> <<>>]
    /\ sub = [s \in Subscriptions |-> NewSub]
    /\ buffer = [n \in Nodes |-> [w \in Windows |-> NoItems]]
    /\ met = [n \in Nodes |-> [w \in Windows |-> {}]]
    /\ cancelled = FALSE
    /\ sending = {}
    /\ crashed = FALSE
    /\ published = [n \in Nodes |-> <<>>]
    /\ handled = [s \in Subscriptions |-> <<>>]
    /\ joined = [s \in Subscriptions |-> -1]
    /\ failed = FALSE

-----------------------------------------------------------------------------
(* Run, and the goroutine of a node *)

\* ExecutionGroup.Go: the next node is started when this one is running.
Launch(n) ==
    /\ n = launched + 1
    /\ launched' = n
    /\ node' = [node EXCEPT ![n] =
                   IF cancelled THEN "returned"
                   ELSE IF graph[n].kind = "load" THEN "load" ELSE "subscribe"]
    /\ UNCHANGED <<graph, channels, sub, windows, cancelled, sending, crashed, history>>

\* Publish looks at the context and then sends, for which it may have to wait:
\* who has looked sends, although the context was cancelled meanwhile.
Sends(p) ==
    /\ ~cancelled \/ p \in sending
    /\ sending' = sending \ {p}
Refused(p) == cancelled /\ p \notin sending

\* Mutation: a message is sent although the channel is full.
PublishUnbounded(n, p, m) ==
    /\ Sends(p)
    /\ queue' = [queue EXCEPT ![n] = Append(@, m)]
    /\ published' = [published EXCEPT ![n] = Append(@, m)]

\* PubSubMulti.Publish, from when p has looked at the context.
Publish(n, p, m) ==
    /\ Sends(p)
    /\ Len(queue[n]) < Capacity
    /\ queue' = [queue EXCEPT ![n] = Append(@, m)]
    /\ published' = [published EXCEPT ![n] = Append(@, m)]

Loaded(n) == Len(published[n])

\* The items and then the watermark.
Load(n) ==
    /\ node[n] = "load"
    /\ Publish(n, <<n, 0>>, IF Loaded(n) < graph[n].items
                           THEN Item(n, Loaded(n) + 1) ELSE Watermark)
    /\ node' = [node EXCEPT ![n] = IF Loaded(n) = graph[n].items THEN "finish" ELSE "load"]
    /\ UNCHANGED <<graph, launched, closed, process, subscribers, sub, windows, cancelled,
                   crashed, handled, joined, failed>>

\* After an item that is not published the others are passed over. The error is
\* forgotten for what OnLoad returns, which is none, and so is a watermark's.
LoadFails(n) ==
    /\ node[n] = "load" /\ Refused(<<n, 0>>)
    /\ node' = [node EXCEPT ![n] = "finish"]
    /\ UNCHANGED <<graph, launched, channels, sub, windows, cancelled, sending, crashed,
                   history>>

Panic ==
    /\ crashed' = TRUE
    /\ UNCHANGED <<graph, launched, node, channels, sub, windows, cancelled, sending,
                   history>>

\* PubSubMulti.Finish, up to the end of the channel and from there.
Finish(n) ==
    /\ node[n] = "finish" /\ Sends(<<n, 0>>)
    /\ closed' = [closed EXCEPT ![n] = TRUE]
    /\ node' = [node EXCEPT ![n] = "closing"]
    /\ UNCHANGED <<graph, launched, queue, process, subscribers, sub, windows, cancelled,
                   crashed, history>>

FinishPanics(n) == node[n] = "finish" /\ Refused(<<n, 0>>) /\ Panic

\* Mutation: Close does not wait for Process.
ReturnAtOnce(n) ==
    /\ node[n] = "closing"
    /\ node' = [node EXCEPT ![n] = "returned"]
    /\ UNCHANGED <<graph, launched, channels, sub, windows, cancelled, sending, crashed,
                   history>>

Return(n) ==
    /\ node[n] = "closing" /\ process[n].pc = "done"
    /\ node' = [node EXCEPT ![n] = "returned"]
    /\ UNCHANGED <<graph, launched, channels, sub, windows, cancelled, sending, crashed,
                   history>>

-----------------------------------------------------------------------------
(* Handlers *)

\* WindowBuffer.Append, and the trigger of the window's size.
Appended(n, m) ==
    LET w == m.at
        items == [items |-> buffer[n][w].items + 1, ids |-> buffer[n][w].ids \o m.ids]
    IN  [b |-> [buffer[n] EXCEPT ![w] = items],
         t |-> [met[n] EXCEPT ![w] =
                   IF items.items = WindowSize THEN @ \cup {"size"} ELSE @]]

\* TriggerManager.SignalWatermark(math.MaxInt64).
Signalled(n) ==
    [b |-> buffer[n],
     t |-> [w \in Windows |->
               IF buffer[n][w].items > 0 THEN met[n][w] \cup {"watermark"} ELSE met[n][w]]]

\* WindowTrigger.ShouldTrigger: all of the triggers of a set have been true.
Triggered(n, true) == \E ts \in graph[n].need : ts \subseteq true
Due(n, x) == {w \in Windows : x.b[w].items > 0 /\ Triggered(n, x.t[w])}

\* The windows that are due are published and removed, in any order.
Flush(n, x) ==
    {[emit |-> [k \in DOMAIN ws |-> Group(ws[k], x.b[ws[k]])],
      b |-> [w \in Windows |-> IF w \in Due(n, x) THEN NoItems ELSE x.b[w]],
      t |-> [w \in Windows |-> IF w \in Due(n, x) THEN {} ELSE x.t[w]]]
        : ws \in SetToSeqs(Due(n, x))}

\* What the handler of node n may do with a message: the messages it will
\* publish, and the window buffer after it. Maps return what they are given.
Outcomes(n, m) ==
    IF graph[n].kind # "window" THEN {[emit |-> <<m>>, b |-> buffer[n], t |-> met[n]]}
    ELSE IF ~IsWatermark(m) THEN Flush(n, Appended(n, m))
    ELSE {[o EXCEPT !.emit = Append(@, Watermark)] : o \in Flush(n, Signalled(n))}

\* subscriber.Invoke, up to what the handler publishes; by is the goroutine.
Invoke(s, m, by, others) ==
    \E o \in Outcomes(s[1], m) :
        /\ buffer' = [buffer EXCEPT ![s[1]] = o.b]
        /\ met' = [met EXCEPT ![s[1]] = o.t]
        /\ sub' = [others EXCEPT ![s].emit = o.emit,
                                 ![s].by = IF o.emit = <<>> THEN "none" ELSE by]
        /\ handled' = [handled EXCEPT ![s] = Append(@, m)]

\* Mutation: the worker that fails lets Subscribe return.
FailAndLeave(s, by, others, p) ==
    /\ failed' = TRUE
    /\ process' = p
    /\ sub' = [others EXCEPT ![s].shut = TRUE, ![s].by = "none", ![s].emit = <<>>,
                             ![s].worker = "ended", ![s].call = "remove",
                             ![s].result = "error"]

\* The handler returns an error: CloseWithErr in the goroutine by. Process can
\* wait for the worker, unless it has done so before; the worker waits for
\* itself, or for the goroutine that closes the subscriber.
Fail(s, by, others, p) ==
    /\ failed' = TRUE
    /\ IF by = "worker"
       THEN /\ sub' = [others EXCEPT ![s].shut = TRUE, ![s].by = "none",
                                     ![s].emit = <<>>, ![s].worker = "stuck"]
            /\ process' = p
       ELSE /\ sub' = [others EXCEPT ![s].shut = TRUE, ![s].by = "none", ![s].emit = <<>>]
            /\ process' = IF others[s].shut THEN p
                          ELSE [p EXCEPT ![Source(s)].pc = "settle",
                                         ![Source(s)].rest = <<s>>]

\* A handler publishes the next of its messages, on the channel of its node.
Emit(s) ==
    /\ sub[s].by # "none"
    /\ Publish(s[1], s, Head(sub[s].emit))
    /\ sub' = [sub EXCEPT ![s].emit = Tail(@),
                          ![s].by = IF Len(sub[s].emit) = 1 THEN "none" ELSE @]
    /\ UNCHANGED <<graph, launched, node, closed, process, subscribers, windows,
                   cancelled, crashed, handled, joined, failed>>

\* When the context is done a join returns the error, the others panic.
EmitFails(s) ==
    /\ sub[s].by # "none" /\ Refused(s)
    /\ IF graph[s[1]].kind = "join"
       THEN /\ Fail(s, sub[s].by, sub, process)
            /\ UNCHANGED <<graph, launched, node, queue, closed, subscribers, windows,
                           cancelled, sending, crashed, published, handled, joined>>
       ELSE Panic

\* The last look at the windows, when the input has ended. (A load ends with
\* a watermark, so the windows that wait for nothing else were due before.)
LastFlush(n) ==
    LET x == Signalled(n)
    IN  /\ node[n] = "flush"
        /\ IF Due(n, x) = {}
           THEN /\ node' = [node EXCEPT ![n] = "finish"]
                /\ UNCHANGED <<queue, published, sending, windows>>
           ELSE \E w \in Due(n, x) :
                /\ Publish(n, <<n, 0>>, Group(w, x.b[w]))
                /\ buffer' = [buffer EXCEPT ![n][w] = NoItems]
                /\ met' = [met EXCEPT ![n][w] = {}]
                /\ UNCHANGED node
        /\ UNCHANGED <<graph, launched, closed, process, subscribers, sub, cancelled,
                       crashed, handled, joined, failed>>

LastFlushPanics(n) ==
    node[n] = "flush" /\ Refused(<<n, 0>>) /\ Due(n, Signalled(n)) # {} /\ Panic

-----------------------------------------------------------------------------
(* The return of Subscribe *)

\* Who is about to publish, or to finish.
Flushing(n) == node[n] = "flush" /\ Due(n, Signalled(n)) # {}
Publishing ==
    {<<n, 0>> : n \in {m \in Nodes : node[m] \in {"load", "finish"} \/ Flushing(m)}}
        \cup {s \in Subscriptions : sub[s].by # "none"}

\* The calls of Subscribe have returned. A join takes no notice of errors. Of
\* those who publish when the context is cancelled, some have looked at it.
Subscribed(n) ==
    LET calls == {s \in Subscriptions : s[1] = n}
        err == graph[n].kind # "join" /\ \E s \in calls : sub[s].result = "error"
    IN  /\ node[n] = "subscribe"
        /\ \A s \in calls : sub[s].call = "returned"
        /\ node' = [node EXCEPT ![n] =
                       IF err THEN "returned"
                       ELSE IF graph[n].kind = "window" THEN "flush" ELSE "finish"]
        /\ cancelled' = (cancelled \/ err)
        /\ IF err /\ ~cancelled THEN sending' \in SUBSET Publishing ELSE UNCHANGED sending
        /\ UNCHANGED <<graph, launched, channels, sub, windows, crashed, history>>

-----------------------------------------------------------------------------
(* Subscribe *)

\* The context and whether the channel is closed.
Check(s) ==
    /\ node[s[1]] = "subscribe" /\ sub[s].call = "check"
    /\ sub' = IF cancelled \/ closed[Source(s)]
              THEN [sub EXCEPT ![s].call = "returned", ![s].result = "error"]
              ELSE [sub EXCEPT ![s].call = "add", ![s].worker = "running"]
    /\ UNCHANGED <<graph, launched, node, channels, windows, cancelled, sending,
                   crashed, history>>

\* Process holds the read lock while it delivers a message or closes.
Unlocked(n) ==
    /\ process[n].pc \in {"receive", "done"}
    /\ \A s \in Subscriptions : Source(s) = n => sub[s].by # "process"

Taken(n) == Len(published[n]) - Len(queue[n])

Add(s) ==
    /\ sub[s].call = "add" /\ Unlocked(Source(s))
    /\ subscribers' = [subscribers EXCEPT ![Source(s)] = Append(@, s)]
    /\ joined' = [joined EXCEPT ![s] = Taken(Source(s))]
    /\ sub' = [sub EXCEPT ![s].call = "wait"]
    /\ UNCHANGED <<graph, launched, node, queue, closed, process, windows, cancelled,
                   sending, crashed, published, handled, failed>>

\* The list without s, which is in it once.
Unsubscribe(s) ==
    /\ sub[s].call = "remove" /\ Unlocked(Source(s))
    /\ \E i \in DOMAIN subscribers[Source(s)] :
          /\ subscribers[Source(s)][i] = s
          /\ subscribers' = [subscribers EXCEPT ![Source(s)] = RemoveAt(@, i)]
    /\ sub' = [sub EXCEPT ![s].call = "returned"]
    /\ UNCHANGED <<graph, launched, node, queue, closed, process, windows, cancelled,
                   sending, crashed, history>>

-----------------------------------------------------------------------------
(* The worker of a subscription *)

Work(s) ==
    LET m == Head(sub[s].inputs)
        taken == [sub EXCEPT ![s].inputs = Tail(@)]
    IN  /\ sub[s].worker = "running" /\ sub[s].by # "worker" /\ sub[s].inputs # <<>>
        /\ \/ /\ Invoke(s, m, "worker", taken)
              /\ UNCHANGED <<process, failed>>
           \/ /\ graph[s[1]].fails /\ ~IsWatermark(m)
              /\ Fail(s, "worker", taken, process)
              /\ handled' = [handled EXCEPT ![s] = Append(@, m)]
              /\ UNCHANGED windows
        /\ UNCHANGED <<graph, launched, node, queue, closed, subscribers, cancelled,
                       sending, crashed, published, joined>>

WorkerEnds(s) ==
    /\ sub[s].worker = "running" /\ sub[s].by # "worker" /\ sub[s].inputs = <<>>
    /\ sub[s].shut
    /\ sub' = [sub EXCEPT ![s].worker = "ended"]
    /\ UNCHANGED <<graph, launched, node, channels, windows, cancelled, sending,
                   crashed, history>>

-----------------------------------------------------------------------------
(* Process *)

Receive(n) ==
    LET m == Head(queue[n])
        s == subscribers[n][1]
    IN  /\ process[n].pc = "receive" /\ Unlocked(n) /\ queue[n] # <<>>
        /\ queue' = [queue EXCEPT ![n] = Tail(@)]
        /\ \/ /\ subscribers[n] = <<>>
              /\ UNCHANGED <<process, sub, windows, handled, failed>>
           \/ /\ Len(subscribers[n]) = 1
              /\ Invoke(s, m, "process", sub)
              /\ UNCHANGED <<process, failed>>
           \/ /\ Len(subscribers[n]) = 1 /\ graph[s[1]].fails /\ ~IsWatermark(m)
              /\ Fail(s, "process", sub, process)
              /\ handled' = [handled EXCEPT ![s] = Append(@, m)]
              /\ UNCHANGED windows
           \/ /\ Len(subscribers[n]) > 1
              /\ process' = [process EXCEPT ![n] =
                                [pc |-> "fanout", msg |-> m, rest |-> subscribers[n]]]
              /\ UNCHANGED <<sub, windows, handled, failed>>
        /\ UNCHANGED <<graph, launched, node, closed, subscribers, cancelled, sending,
                       crashed, published, joined>>

\* After the first of the subscribers in rest; pc is where Process is then.
NextSubscriber(n, pc) ==
    process' = [process EXCEPT ![n].rest = Tail(@),
                               ![n].pc = IF Len(process[n].rest) = 1 THEN pc ELSE @]

\* Mutation: a message is dropped when the buffer of a subscriber is full.
PushOrDrop(n) ==
    LET s == Head(process[n].rest)
    IN  /\ process[n].pc = "fanout" /\ ~sub[s].shut
        /\ sub' = IF Len(sub[s].inputs) = Capacity THEN sub
                  ELSE [sub EXCEPT ![s].inputs = Append(@, process[n].msg)]
        /\ NextSubscriber(n, "receive")
        /\ UNCHANGED <<graph, launched, node, queue, closed, subscribers, windows,
                       cancelled, sending, crashed, history>>

Push(n) ==
    LET s == Head(process[n].rest)
    IN  /\ process[n].pc = "fanout" /\ ~sub[s].shut
        /\ Len(sub[s].inputs) < Capacity
        /\ sub' = [sub EXCEPT ![s].inputs = Append(@, process[n].msg)]
        /\ NextSubscriber(n, "receive")
        /\ UNCHANGED <<graph, launched, node, queue, closed, subscribers, windows,
                       cancelled, sending, crashed, history>>

\* A message is sent to a subscriber whose channel is closed.
PushPanics(n) == process[n].pc = "fanout" /\ sub[Head(process[n].rest)].shut /\ Panic

\* Mutation: only the first subscriber is closed.
DrainFirst(n) ==
    /\ process[n].pc = "receive" /\ Unlocked(n)
    /\ closed[n] /\ queue[n] = <<>>
    /\ process' = [process EXCEPT ![n].pc = IF subscribers[n] = <<>> THEN "done" ELSE "closing",
                                  ![n].rest = SelectSeq(subscribers[n],
                                                     LAMBDA s : s = subscribers[n][1])]
    /\ UNCHANGED <<graph, launched, node, queue, closed, subscribers, sub, windows,
                   cancelled, sending, crashed, history>>

\* The channel is closed and empty.
Drain(n) ==
    /\ process[n].pc = "receive" /\ Unlocked(n)
    /\ closed[n] /\ queue[n] = <<>>
    /\ process' = [process EXCEPT ![n].pc = IF subscribers[n] = <<>> THEN "done" ELSE "closing",
                                  ![n].rest = subscribers[n]]
    /\ UNCHANGED <<graph, launched, node, queue, closed, subscribers, sub, windows,
                   cancelled, sending, crashed, history>>

\* subscriber.Close: no more inputs, and nothing at all after an error.
Shut(n) ==
    LET s == Head(process[n].rest)
    IN  /\ process[n].pc = "closing"
        /\ \/ /\ ~sub[s].shut
              /\ sub' = [sub EXCEPT ![s].shut = TRUE]
              /\ UNCHANGED process
           \/ /\ sub[s].call \in {"remove", "returned"}
              /\ NextSubscriber(n, "done")
              /\ UNCHANGED sub
        /\ UNCHANGED <<graph, launched, node, queue, closed, subscribers, windows,
                       cancelled, sending, crashed, history>>

\* The worker has finished: Subscribe gets its result.
Settle(n) ==
    LET s == Head(process[n].rest)
        err == process[n].pc = "settle"
    IN  /\ process[n].pc \in {"closing", "settle"}
        /\ sub[s].call = "wait" /\ sub[s].shut /\ sub[s].worker = "ended"
        /\ sub' = [sub EXCEPT ![s].call = "remove",
                              ![s].result = IF err THEN "error" ELSE "nil"]
        /\ NextSubscriber(n, IF err THEN "receive" ELSE "done")
        /\ UNCHANGED <<graph, launched, node, queue, closed, subscribers, windows,
                       cancelled, sending, crashed, history>>

-----------------------------------------------------------------------------
\* The nodes and subscriptions whose goroutines still run.
Alive == IF crashed THEN {} ELSE Nodes
AliveSubscriptions == IF crashed THEN {} ELSE Subscriptions

NodeStep(n) ==
    \/ Launch(n) \/ Load(n) \/ LoadFails(n) \/ Subscribed(n)
    \/ LastFlush(n) \/ LastFlushPanics(n)
    \/ Finish(n) \/ FinishPanics(n) \/ Return(n)

ProcessStep(n) ==
    Receive(n) \/ Push(n) \/ PushPanics(n) \/ Drain(n) \/ Shut(n) \/ Settle(n)

SubscriptionStep(s) ==
    Check(s) \/ Add(s) \/ Unsubscribe(s) \/ Emit(s) \/ EmitFails(s) \/ Work(s) \/ WorkerEnds(s)

Next ==
    \/ \E n \in Alive : NodeStep(n) \/ ProcessStep(n)
    \/ \E s \in AliveSubscriptions : SubscriptionStep(s)

\* No goroutine waits for ever when it can go on, and none goes in circles.
FairSpec == Init /\ [][Next]_vars /\ WF_vars(Next)

-----------------------------------------------------------------------------
(* Properties *)

\* Run has returned: the group waits for all nodes, and forgets the error.
Returned == launched = Len(graph) /\ \A n \in Nodes : node[n] = "returned"

\* A subscription that came after the first message, or the end, of its
\* source. Process drops what no subscriber is there for.
Late == \E s \in Subscriptions :
            \/ joined[s] > 0
            \/ sub[s].call = "add" /\ process[Source(s)].pc = "done"
            \/ sub[s].result = "error"

\* Whatever order the goroutines run in, and although a message is handled
\* in the goroutine of the channel or in one of the subscriber's own as the
\* number of subscribers changes: a subscriber is called with the messages of
\* the channel in order, without gap or repetition, from where it subscribed.
DeliveredInOrder ==
    \A s \in Subscriptions :
        handled[s] # <<>> =>
            handled[s] = SubSeq(published[Source(s)], joined[s] + 1,
                                joined[s] + Len(handled[s]))

\* Handlers hold no locks: Process never calls one itself while the worker of
\* the subscriber still has messages to call it with.
OneHandlerAtATime ==
    \A n \in Nodes : Len(subscribers[n]) = 1 /\ process[n].pc = "receive" =>
        LET s == subscribers[n][1] IN sub[s].by # "worker" /\ sub[s].inputs = <<>>

\* Where an item is in a function to sequences of items, and how often. (It is
\* there twice when two ways lead to the same node.)
Places(id, f) == UNION {{k} \X {j \in DOMAIN f[k] : f[k][j] = id} : k \in DOMAIN f}
Count(id, f) == Cardinality(Places(id, f))

IdsOf(ms) == [k \in DOMAIN ms |-> ms[k].ids]
IdsIn(b) == [w \in Windows |-> b[w].ids]

CountInputs(n, id) ==
    LET k(i) == Count(id, IdsOf(published[graph[n].input[i]]))
    IN  IF Len(graph[n].input) = 1 THEN k(1) ELSE k(1) + k(2)

LeftIn(n, id) ==
    IF Triggered(n, {"watermark"}) THEN 0 ELSE Count(id, IdsIn(buffer[n]))

\* When Finish returns, whoever listened from the beginning has handled all of
\* the channel: its end is passed on behind the last message, and Process waits
\* for the workers. Unless a subscriber came late, or a handler failed.
FinishedIsHandled ==
    ~Late /\ ~failed =>
        \A s \in Subscriptions : joined[s] = 0 /\ node[Source(s)] = "returned" =>
            handled[s] = published[Source(s)]

\* And every item that a node has been sent by its inputs, as often as it has
\* been sent, is then on its own channel, by itself or in the group of a window,
\* or in a window that the end of the input does not trigger.
FinishedIsComplete ==
    /\ FinishedIsHandled
    /\ ~Late /\ ~failed =>
          \A n \in Nodes : \A id \in Ids :
              graph[n].kind # "load" /\ node[n] \in {"closing", "returned"} =>
                  Count(id, IdsOf(published[n])) + LeftIn(n, id) = CountInputs(n, id)

\* Run returns, unless a node subscribed too late or a handler failed.
RunReturns == <>(Returned \/ Late \/ failed)
=============================================================================
