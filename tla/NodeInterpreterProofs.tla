------------------------ MODULE NodeInterpreterProofs ------------------------
(***************************************************************************)
(* Of every graph, window assignment and capacity, however many nodes and  *)
(* subscriptions there are: the types of NodeInterpreter; that each        *)
(* subscriber is called with the messages of its channel in order, without *)
(* gap or repetition; that Process never calls a subscriber whose worker   *)
(* is still at work; and that no item is lost or repeated.                 *)
(*                                                                         *)
(* The invariant follows a channel and each of its subscribers.  A message *)
(* goes from the queue to those that Process has still to push it to, from *)
(* there to a buffer, and from the buffer to the handler: Followed adds up *)
(* what is in these places, so that a subscriber that listens is never     *)
(* behind by anything else.  The order could only be lost when the number  *)
(* of subscribers falls to one while the last has messages in its buffer,  *)
(* and Process calls it directly.  OneHandler excludes that, and is not    *)
(* inductive by itself: Leaving says why.  The only subscribers that leave *)
(* before the end of the channel are those that failed when they were      *)
(* alone; all who came later are behind them in the list, and Process      *)
(* panics at the closed buffer of the first before it pushes to another.   *)
(*                                                                         *)
(* A second invariant, Progress, follows the end of a channel: it is empty *)
(* when Process passes the end on, without failures no subscriber is       *)
(* closed before, and Process waits for the worker of each.  With it,      *)
(* Finish returns when every subscriber has handled all of the channel.    *)
(*                                                                         *)
(* The third, Accounts, follows an item through a node: what the handlers  *)
(* of the node were called with is on its channel, in a window, or about   *)
(* to be published, and as often, because a flush moves what it removes    *)
(* from the windows to the groups it publishes.  In the end all handlers   *)
(* have returned and have had all of the input, and the windows that the   *)
(* watermark triggers are empty.                                           *)
(***************************************************************************)
EXTENDS NodeInterpreter, FiniteSetTheorems, SequenceTheorems, TLAPS

In(x, q) == \E i \in 1 .. Len(q) : q[i] = x
OneOfEach(q) == \A i, j \in 1 .. Len(q) : q[i] = q[j] => i = j

\* A load is where its items are loaded.
Loads == \A n \in Nodes : node[n] = "load" => graph[n].kind = "load"

\* A channel holds the last of what was published on it.
EndOf(p, q) ==
    /\ Len(q) <= Len(p)
    /\ \A i \in 1 .. Len(q) : q[i] = p[Len(p) - Len(q) + i]

Queued(n) == EndOf(published[n], queue[n])

\* The message that Process has still to push to s.
Owed(s) == process[Source(s)].pc = "fanout" /\ In(s, process[Source(s)].rest)

Listening == {"wait", "remove"}

\* After j messages of p come h and then x.
Follows(p, j, h, x) ==
    /\ \A i \in 1 .. Len(h) : h[i] = p[j + i]
    /\ \A i \in 1 .. Len(x) : x[i] = p[j + Len(h) + i]

\* Where a subscription is in what its source has published.
Followed(s) ==
    /\ sub[s].call \in {"check", "add"} => joined[s] = -1
    /\ joined[s] = -1 => handled[s] = <<>> /\ sub[s].inputs = <<>>
    /\ joined[s] \in Nat =>
          /\ joined[s] + Len(handled[s]) + Len(sub[s].inputs) <= Taken(Source(s))
          /\ Follows(published[Source(s)], joined[s], handled[s], sub[s].inputs)
    /\ sub[s].call \in Listening =>
          /\ joined[s] \in Nat
          /\ joined[s] + Len(handled[s]) + Len(sub[s].inputs)
                + (IF Owed(s) THEN 1 ELSE 0) = Taken(Source(s))

Listed(n) ==
    /\ OneOfEach(subscribers[n])
    /\ \A s \in Subscriptions :
          In(s, subscribers[n]) <=> Source(s) = n /\ sub[s].call \in Listening

Processing(n) ==
    /\ process[n].pc = "fanout" =>
          /\ process[n].rest # <<>> /\ OneOfEach(process[n].rest)
          /\ \A s \in Subscriptions : In(s, process[n].rest) => In(s, subscribers[n])
          /\ Len(subscribers[n]) > 1
          /\ Taken(n) > 0 /\ process[n].msg = published[n][Taken(n)]
    /\ process[n].pc = "settle" =>
          \E s \in Subscriptions :
             /\ process[n].rest = <<s>> /\ subscribers[n] = <<s>>
             /\ sub[s].call = "wait" /\ sub[s].shut
             /\ sub[s].inputs = <<>> /\ sub[s].by = "none"
    /\ process[n].pc = "closing" =>
          /\ process[n].rest # <<>>
          /\ \A s \in Subscriptions : In(s, process[n].rest) => In(s, subscribers[n])

Handling(s) ==
    /\ sub[s].by # "none" => sub[s].emit # <<>>
    /\ sub[s].by = "process" =>
          process[Source(s)].pc = "receive" /\ subscribers[Source(s)] = <<s>>
    /\ sub[s].call \in {"check", "add"} => ~sub[s].shut /\ sub[s].by = "none"

\* A subscription that leaves before the channel ends is the first one, and
\* its buffer is closed: no message is pushed while it is there.
Leaving(s) ==
    sub[s].call = "remove" /\ process[Source(s)].pc \in {"receive", "fanout"} =>
        LET q == subscribers[Source(s)]
        IN  /\ q # <<>> /\ q[1] = s /\ sub[s].shut
            /\ \A t \in Subscriptions :
                  In(t, q) => sub[t].inputs = <<>> /\ sub[t].by # "worker"
            /\ process[Source(s)].pc = "fanout" => process[Source(s)].rest = q

OneHandler(n) ==
    Len(subscribers[n]) = 1 /\ process[n].pc = "receive" =>
        sub[subscribers[n][1]].by # "worker" /\ sub[subscribers[n][1]].inputs = <<>>

\* All of this, for the channel of node n and those who subscribe to it.
Channel(n) ==
    /\ Queued(n) /\ Listed(n) /\ Processing(n) /\ OneHandler(n)
    /\ \A s \in Subscriptions :
          Source(s) = n => Followed(s) /\ Handling(s) /\ Leaving(s)

Inv == TypeOK /\ Loads /\ \A n \in Nodes : Channel(n)

-----------------------------------------------------------------------------

LEMMA Shape ==
    ASSUME TypeOK
    PROVE  /\ Len(graph) \in Nat /\ Nodes = 1 .. Len(graph)
           /\ \A n \in Nodes : graph[n].kind = "load" => graph[n].items \in 0 .. Len(WindowOf)
           /\ \A s \in Subscriptions : s[1] \in Nodes /\ Source(s) \in Nodes
<1>1. /\ Len(graph) \in Nat /\ Nodes = 1 .. Len(graph)
      /\ \A n \in 1 .. Len(graph) :
            /\ graph[n].input \in Seq(n + 1 .. Len(graph))
            /\ graph[n].kind = "load" => graph[n].items \in 0 .. Len(WindowOf)
  <2>1. graph \in Graphs
    BY DEF TypeOK
  <2>2. graph = [n \in 1 .. Len(graph) |-> graph[n]] /\ Len(graph) \in Nat
    BY <2>1, GraphsAssumption
  <2>3. Nodes = 1 .. Len(graph)
    BY <2>2 DEF Nodes
  <2>4. \A n \in 1 .. Len(graph) :
            /\ graph[n].input \in Seq(n + 1 .. Len(graph))
            /\ graph[n].kind = "load" => graph[n].items \in 0 .. Len(WindowOf)
    BY <2>1, GraphsAssumption
  <2> QED
    BY <2>2, <2>3, <2>4
<1>2. ASSUME NEW s \in Subscriptions
      PROVE  s[1] \in Nodes /\ Source(s) \in Nodes
  <2>1. PICK n \in Nodes : s[1] = n /\ s[2] \in DOMAIN graph[n].input
    BY DEF Subscriptions
  <2>2. graph[n].input \in Seq(n + 1 .. Len(graph)) /\ n \in 1 .. Len(graph)
    BY <1>1
  <2>3. graph[n].input[s[2]] \in n + 1 .. Len(graph)
    BY ONLY <2>1, <2>2
  <2> QED
    BY <1>1, <2>1, <2>2, <2>3 DEF Source
<1> QED
  BY <1>1, <1>2

LEMMA SameGraph ==
    ASSUME graph' = graph
    PROVE  /\ Nodes' = Nodes /\ Subscriptions' = Subscriptions /\ Ids' = Ids
           /\ Messages' = Messages /\ ProcessStates' = ProcessStates /\ Calls' = Calls
           /\ Buffers' = Buffers /\ Triggers' = Triggers /\ Publishers' = Publishers
BY DEF Nodes, Subscriptions, Ids, Messages, ProcessStates, Calls, Buffers, Triggers,
       Publishers

-----------------------------------------------------------------------------
(* The channels that a step leaves as they are *)

\* At most a message is published on the channel of n.
SameChannel(n) ==
    /\ process'[n] = process[n] /\ subscribers'[n] = subscribers[n]
    /\ \/ queue'[n] = queue[n] /\ published'[n] = published[n]
       \/ \E m \in Messages : queue'[n] = Append(queue[n], m)
                              /\ published'[n] = Append(published[n], m)

\* At most Subscribe begins, the handler of s goes on, or its buffer is closed.
SameCall(s) ==
    /\ \/ sub'[s].call = sub[s].call
       \/ sub[s].call = "check" /\ sub'[s].call \in {"add", "returned"}
    /\ \/ sub'[s].shut = sub[s].shut
       \/ sub[s].call \notin {"check", "add"} /\ sub'[s].shut
    /\ sub'[s].inputs = sub[s].inputs
    /\ handled'[s] = handled[s] /\ joined'[s] = joined[s]
    /\ sub'[s].by \in {sub[s].by, "none"}
    /\ sub'[s].by # "none" => sub'[s].emit # <<>>

LEMMA ChannelTypes ==
    ASSUME TypeOK, NEW n \in Nodes
    PROVE  /\ queue[n] \in Seq(Messages) /\ published[n] \in Seq(Messages)
           /\ subscribers[n] \in Seq(Subscriptions)
           /\ process[n].rest \in Seq(Subscriptions) /\ process[n].msg \in Messages
BY DEF TypeOK, ProcessStates

LEMMA CallTypes ==
    ASSUME TypeOK, NEW s \in Subscriptions
    PROVE  /\ sub[s].inputs \in Seq(Messages) /\ sub[s].emit \in Seq(Messages)
           /\ sub[s].call \in {"check", "add", "wait", "remove", "returned"}
           /\ handled[s] \in Seq(Messages) /\ joined[s] \in Nat \cup {-1}
BY DEF TypeOK, Calls

LEMMA TailOf ==
    ASSUME NEW S, NEW q \in Seq(S), q # <<>>
    PROVE  /\ Head(q) \in S /\ Head(q) = q[1] /\ Tail(q) \in Seq(S)
           /\ Len(q) \in Nat /\ Len(q) >= 1 /\ Len(Tail(q)) = Len(q) - 1
           /\ \A i \in 1 .. Len(q) - 1 : Tail(q)[i] = q[i + 1]
           /\ Len(q) # 1 => Tail(q) # <<>>
           /\ Len(q) = 1 => Tail(q) = <<>>
<1>1. Len(q) \in Nat /\ Len(q) # 0
  OBVIOUS
<1>2. /\ Head(q) \in S /\ Head(q) = q[1] /\ Tail(q) \in Seq(S)
      /\ Len(Tail(q)) = Len(q) - 1
  OBVIOUS
<1>3. \A i \in 1 .. Len(q) - 1 : Tail(q)[i] = q[i + 1]
  OBVIOUS
<1>4. Len(q) # 1 => Tail(q) # <<>>
  BY <1>1, <1>2
<1>5. Len(q) = 1 => Tail(q) = <<>>
  <2>1. \A x \in Seq(S) : Len(x) = 0 => x = <<>>
    OBVIOUS
  <2>2. Len(q) = 1 => Len(Tail(q)) = 0
    BY <1>1, <1>2
  <2> QED
    BY ONLY <1>2, <2>1, <2>2
<1> QED
  BY <1>1, <1>2, <1>3, <1>4, <1>5

LEMMA Remains ==
    ASSUME NEW M, NEW q \in Seq(M), NEW p \in Seq(M), Len(q) <= Len(p)
    PROVE  Len(p) - Len(q) \in Nat /\ Len(p) - Len(q) <= Len(p)
OBVIOUS

LEMMA Suffix ==
    ASSUME NEW M, NEW q \in Seq(M), NEW p \in Seq(M), NEW m \in M, EndOf(p, q)
    PROVE  /\ EndOf(Append(p, m), Append(q, m))
           /\ Len(Append(p, m)) - Len(Append(q, m)) = Len(p) - Len(q)
           /\ \A i \in 1 .. Len(p) : Append(p, m)[i] = p[i]
<1> DEFINE q2 == Append(q, m)
           p2 == Append(p, m)
<1>0. q2 \in Seq(M) /\ p2 \in Seq(M)
  OBVIOUS
<1>1. /\ Len(q2) = Len(q) + 1 /\ Len(p2) = Len(p) + 1
      /\ \A i \in 1 .. Len(q) : q2[i] = q[i]
      /\ \A i \in 1 .. Len(p) : p2[i] = p[i]
      /\ q2[Len(q) + 1] = m /\ p2[Len(p) + 1] = m
      /\ Len(q) <= Len(p) /\ \A i \in 1 .. Len(q) : q[i] = p[Len(p) - Len(q) + i]
  BY DEF EndOf
<1> HIDE DEF q2, p2
<1>2. Len(q) \in Nat /\ Len(p) \in Nat /\ Len(p2) - Len(q2) = Len(p) - Len(q)
  BY <1>1
<1>3. ASSUME NEW i \in 1 .. Len(q2)
      PROVE  q2[i] = p2[Len(p) - Len(q) + i]
  <2>1. CASE i = Len(q) + 1
    <3>1. Len(p) - Len(q) + i = Len(p) + 1
      BY <1>2, <2>1
    <3> QED
      BY <1>1, <2>1, <3>1
  <2>2. CASE i \in 1 .. Len(q)
    <3>1. Len(p) - Len(q) + i \in 1 .. Len(p)
      BY <1>1, <1>2, <2>2
    <3> QED
      BY <1>1, <2>2, <3>1
  <2>3. i = Len(q) + 1 \/ i \in 1 .. Len(q)
    BY <1>1, <1>2
  <2> QED
    BY <2>1, <2>2, <2>3
<1>4. Len(p2) - Len(q2) = Len(p) - Len(q) /\ Len(q2) <= Len(p2)
  BY <1>1, <1>2
<1>5. \A i \in 1 .. Len(q2) : q2[i] = p2[Len(p2) - Len(q2) + i]
  BY <1>3, <1>4
<1> QED
  BY <1>1, <1>4, <1>5 DEF EndOf, q2, p2

LEMMA Grows ==
    ASSUME TypeOK, NEW n \in Nodes, SameChannel(n), Queued(n)
    PROVE  /\ Queued(n)'
           /\ Taken(n)' = Taken(n) /\ Taken(n) \in Nat /\ Taken(n) <= Len(published[n])
           /\ \A i \in 1 .. Len(published[n]) : published'[n][i] = published[n][i]
<1>1. queue[n] \in Seq(Messages) /\ published[n] \in Seq(Messages)
  BY ChannelTypes
<1>2. EndOf(published[n], queue[n])
  BY DEF Queued
<1>3. Taken(n) \in Nat /\ Taken(n) <= Len(published[n])
  BY ONLY <1>1, <1>2, Remains DEF Taken, EndOf
<1>4. CASE queue'[n] = queue[n] /\ published'[n] = published[n]
  BY ONLY <1>2, <1>3, <1>4 DEF Queued, Taken
<1>5. ASSUME NEW m \in Messages, queue'[n] = Append(queue[n], m),
             published'[n] = Append(published[n], m)
      PROVE  /\ Queued(n)' /\ Taken(n)' = Taken(n)
             /\ \A i \in 1 .. Len(published[n]) : published'[n][i] = published[n][i]
  <2>1. /\ EndOf(Append(published[n], m), Append(queue[n], m))
        /\ Len(Append(published[n], m)) - Len(Append(queue[n], m))
              = Len(published[n]) - Len(queue[n])
        /\ \A i \in 1 .. Len(published[n]) : Append(published[n], m)[i] = published[n][i]
    BY ONLY <1>1, <1>2, m \in Messages, Suffix
  <2> QED
    BY ONLY <1>5, <2>1 DEF Queued, Taken
<1> QED
  BY <1>3, <1>4, <1>5 DEF SameChannel

LEMMA FollowedKept ==
    ASSUME TypeOK, graph' = graph, NEW n \in Nodes, NEW s \in Subscriptions,
           Source(s) = n, Followed(s),
           Taken(n)' = Taken(n), Taken(n) \in Nat, Taken(n) <= Len(published[n]),
           \A i \in 1 .. Len(published[n]) : published'[n][i] = published[n][i],
           sub'[s].inputs = sub[s].inputs,
           handled'[s] = handled[s], joined'[s] = joined[s],
           sub'[s].call \in {"check", "add"} => sub[s].call \in {"check", "add"},
           sub'[s].call \in Listening => sub[s].call \in Listening /\ (Owed(s)' <=> Owed(s))
    PROVE  Followed(s)'
<1> DEFINE p == published[n]
           h == handled[s]
           x == sub[s].inputs
           j == joined[s]
<1>1. h \in Seq(Messages) /\ x \in Seq(Messages) /\ j \in Nat \cup {-1} /\ Len(p) \in Nat
  BY CallTypes, ChannelTypes, Shape
<1>2. Source(s)' = n /\ Taken(Source(s))' = Taken(n)
  BY DEF Source, Taken
<1>3. CASE j \in Nat
  <2>1. /\ j + Len(h) + Len(x) <= Taken(n)
        /\ \A i \in 1 .. Len(h) : h[i] = p[j + i]
        /\ \A i \in 1 .. Len(x) : x[i] = p[j + Len(h) + i]
    BY <1>3 DEF Followed, Follows
  <2>2. /\ \A i \in 1 .. Len(h) : j + i \in 1 .. Len(p)
        /\ \A i \in 1 .. Len(x) : j + Len(h) + i \in 1 .. Len(p)
    <3>1. Taken(n) \in Nat /\ Taken(n) <= Len(p)
      OBVIOUS
    <3>2. Len(h) \in Nat /\ Len(x) \in Nat
      BY ONLY <1>1
    <3> HIDE DEF p, h, x, j
    <3> QED
      BY ONLY <1>1, <1>3, <2>1, <3>1, <3>2
  <2>3. /\ \A i \in 1 .. Len(h) : h[i] = published'[n][j + i]
        /\ \A i \in 1 .. Len(x) : x[i] = published'[n][j + Len(h) + i]
    BY <2>1, <2>2
  <2> QED
    BY <1>2, <1>3, <2>1, <2>3 DEF Followed, Follows
<1>4. CASE j = -1
  BY <1>2, <1>4 DEF Followed, Listening
<1> QED
  BY <1>1, <1>3, <1>4

LEMMA ChannelKept ==
    ASSUME TypeOK, graph' = graph, NEW n \in Nodes, Channel(n), SameChannel(n),
           \A s \in Subscriptions : Source(s) = n => SameCall(s)
    PROVE  Channel(n)'
<1>1. Nodes' = Nodes /\ Subscriptions' = Subscriptions /\ \A s : Source(s)' = Source(s)
  BY SameGraph DEF Source
<1>2. /\ process'[n] = process[n] /\ subscribers'[n] = subscribers[n]
  BY DEF SameChannel
<1>3. /\ Queued(n)'
      /\ Taken(n)' = Taken(n) /\ Taken(n) \in Nat /\ Taken(n) <= Len(published[n])
      /\ \A i \in 1 .. Len(published[n]) : published'[n][i] = published[n][i]
  BY Grows DEF Channel
<1>4. subscribers[n] \in Seq(Subscriptions) /\ process[n].rest \in Seq(Subscriptions)
  BY ChannelTypes
<1>5. Listed(n)'
  <2>1. Listed(n)
    BY DEF Channel
  <2>2. \A s \in Subscriptions : Source(s) = n =>
           (sub'[s].call \in Listening <=> sub[s].call \in Listening)
    BY DEF SameCall, Listening
  <2> QED
    BY ONLY <1>1, <1>2, <2>1, <2>2 DEF Listed, OneOfEach, In
<1>6. Processing(n)'
  <2>1. Processing(n)
    BY DEF Channel
  <2>2. \A s \in Subscriptions : In(s, subscribers[n]) => Source(s) = n
    BY DEF Channel, Listed
  <2>3. process[n].pc = "fanout" => Processing(n)'
    BY ONLY <1>1, <1>2, <1>3, <2>1 DEF Processing, OneOfEach, In
  <2>4. process[n].pc = "closing" => Processing(n)'
    BY ONLY <1>1, <1>2, <2>1 DEF Processing, In
  <2>5. process[n].pc = "settle" => Processing(n)'
    <3> SUFFICES ASSUME process[n].pc = "settle" PROVE Processing(n)'
      OBVIOUS
    <3>1. PICK s \in Subscriptions :
             /\ process[n].rest = <<s>> /\ subscribers[n] = <<s>>
             /\ sub[s].call = "wait" /\ sub[s].shut
             /\ sub[s].inputs = <<>> /\ sub[s].by = "none"
      BY <2>1 DEF Processing
    <3>2. Source(s) = n
      BY <2>2, <3>1 DEF In
    <3>3. SameCall(s)
      BY <3>2
    <3> QED
      <4>1. /\ process'[n].rest = <<s>> /\ subscribers'[n] = <<s>>
            /\ sub'[s].call = "wait" /\ sub'[s].shut
            /\ sub'[s].inputs = <<>> /\ sub'[s].by = "none"
        BY ONLY <1>2, <3>1, <3>3 DEF SameCall
      <4> QED
        BY ONLY <1>1, <1>2, <4>1, process[n].pc = "settle" DEF Processing
  <2> QED
    BY <1>2, <2>3, <2>4, <2>5 DEF Processing
<1>7. OneHandler(n)'
  <2>1. OneHandler(n) /\ (Len(subscribers[n]) = 1 => subscribers[n][1] \in Subscriptions
                                                     /\ Source(subscribers[n][1]) = n)
    BY <1>4 DEF Channel, Listed, In
  <2> QED
    BY <1>2, <2>1 DEF OneHandler, SameCall
<1>8. ASSUME NEW s \in Subscriptions, Source(s) = n
      PROVE  Followed(s)' /\ Handling(s)' /\ Leaving(s)'
  <2>1. Followed(s) /\ Handling(s) /\ Leaving(s) /\ SameCall(s)
    BY <1>8 DEF Channel
  <2>2. Owed(s)' <=> Owed(s)
    BY <1>1, <1>2, <1>8 DEF Owed
  <2>3. Followed(s)'
    <3>1. /\ sub'[s].inputs = sub[s].inputs
          /\ sub'[s].call \in {"check", "add"} => sub[s].call \in {"check", "add"}
          /\ sub'[s].call \in Listening => sub[s].call \in Listening
          /\ handled'[s] = handled[s] /\ joined'[s] = joined[s]
      BY <2>1 DEF SameCall, Listening
    <3>2. Followed(s) /\ TypeOK /\ graph' = graph /\ s \in Subscriptions
      BY <2>1
    <3> QED
      BY ONLY <1>3, <1>8, <2>2, <3>1, <3>2, FollowedKept
  <2>4. Handling(s)'
    BY <1>1, <1>2, <1>8, <2>1 DEF Handling, SameCall
  <2>5. Leaving(s)'
    <3>1. \A t \in Subscriptions : In(t, subscribers[n]) => Source(t) = n
      BY DEF Channel, Listed
    <3>2. \A t \in Subscriptions : In(t, subscribers[n]) =>
             (sub[t].inputs = <<>> /\ sub[t].by # "worker" =>
                 sub'[t].inputs = <<>> /\ sub'[t].by # "worker")
      BY <3>1 DEF SameCall
    <3>3. (sub'[s].call = "remove" => sub[s].call = "remove") /\ (sub[s].shut => sub'[s].shut)
      BY <2>1 DEF SameCall
    <3> QED
      BY <1>1, <1>2, <1>8, <2>1, <3>2, <3>3 DEF Leaving
  <2> QED
    BY <2>3, <2>4, <2>5
<1> QED
  BY <1>1, <1>3, <1>5, <1>6, <1>7, <1>8 DEF Channel

LEMMA CallKept ==
    ASSUME Inv, NEW s \in Subscriptions,
           sub'[s] = sub[s], handled'[s] = handled[s], joined'[s] = joined[s]
    PROVE  SameCall(s)
<1>1. Source(s) \in Nodes
  BY Shape DEF Inv
<1>2. Handling(s)
  BY <1>1 DEF Inv, Channel
<1> QED
  BY <1>2 DEF SameCall, Handling

LEMMA OtherChannels ==
    ASSUME Inv, graph' = graph, NEW k \in Nodes, Channel(k)',
           \A n \in Nodes \ {k} : SameChannel(n),
           \A s \in Subscriptions : Source(s) # k =>
              sub'[s] = sub[s] /\ handled'[s] = handled[s] /\ joined'[s] = joined[s]
    PROVE  \A n \in Nodes : Channel(n)'
<1> SUFFICES ASSUME NEW n \in Nodes, n # k
             PROVE  Channel(n)'
  OBVIOUS
<1>1. \A s \in Subscriptions : Source(s) = n => SameCall(s)
  BY CallKept
<1> QED
  BY <1>1, ChannelKept DEF Inv

LEMMA AllChannels ==
    ASSUME Inv, graph' = graph,
           \A n \in Nodes : SameChannel(n), \A s \in Subscriptions : SameCall(s)
    PROVE  \A n \in Nodes : Channel(n)'
<1> SUFFICES ASSUME NEW n \in Nodes
             PROVE  Channel(n)'
  OBVIOUS
<1> QED
  BY ChannelKept DEF Inv

\* What is left to prove of a step.
LEMMA Together ==
    ASSUME graph' = graph, TypeOK', Loads', \A n \in Nodes : Channel(n)'
    PROVE  Inv'
<1>1. Nodes' = Nodes
  BY SameGraph
<1> QED
  BY <1>1 DEF Inv

-----------------------------------------------------------------------------
(* Steps of the nodes *)

QuietStep(n) ==
    \/ Launch(n) \/ LoadFails(n) \/ Subscribed(n) \/ LastFlushPanics(n)
    \/ Finish(n) \/ FinishPanics(n) \/ Return(n) \/ PushPanics(n) \/ Panic

LEMMA AllPublish == Publishing \subseteq Publishers
BY DEF Publishing, Publishers, Subscriptions

LEMMA QuietSteps ==
    ASSUME Inv, NEW n \in Nodes, QuietStep(n)
    PROVE  Inv'
<1>0. /\ UNCHANGED <<graph, queue, process, subscribers, sub, buffer, met>>
      /\ UNCHANGED <<published, handled, joined, failed>>
  BY DEF QuietStep, Launch, LoadFails, Subscribed, LastFlushPanics, Finish, FinishPanics,
         Return, PushPanics, Panic, channels, windows, history
<1>1. /\ Nodes' = Nodes /\ Subscriptions' = Subscriptions /\ Messages' = Messages
      /\ ProcessStates' = ProcessStates /\ Calls' = Calls /\ Publishers' = Publishers
      /\ Buffers' = Buffers /\ Triggers' = Triggers
  BY <1>0, SameGraph
<1>2. TypeOK
  BY DEF Inv
<1>3. launched' \in 0 .. Len(graph)
  <2>1. launched' = launched \/ launched' = n
    BY DEF QuietStep, Launch, LoadFails, Subscribed, LastFlushPanics, Finish,
       FinishPanics, Return, PushPanics, Panic
  <2>2. launched \in 0 .. Len(graph) /\ n \in 1 .. Len(graph) /\ Len(graph) \in Nat
    BY <1>2, Shape DEF TypeOK
  <2> QED
    BY ONLY <2>1, <2>2
<1>4. node' \in [Nodes -> NodeStates] /\ Loads'
  BY <1>0, <1>1, <1>2 DEF QuietStep, Launch, LoadFails, Subscribed, LastFlushPanics, Finish,
     FinishPanics, Return, PushPanics, Panic, TypeOK, Loads, Inv, NodeStates
<1>5. closed' \in [Nodes -> BOOLEAN]
  BY <1>2 DEF QuietStep, Launch, LoadFails, Subscribed, LastFlushPanics, Finish,
     FinishPanics, Return, PushPanics, Panic, TypeOK, channels
<1>6. cancelled' \in BOOLEAN /\ crashed' \in BOOLEAN /\ sending' \subseteq Publishers
  BY <1>2, AllPublish DEF QuietStep, Launch, LoadFails, Subscribed, LastFlushPanics, Finish,
     FinishPanics, Return, PushPanics, Panic, Sends, TypeOK
<1>7. TypeOK'
  BY <1>0, <1>1, <1>2, <1>3, <1>4, <1>5, <1>6 DEF TypeOK
<1>8. \A k \in Nodes : SameChannel(k)
  BY <1>0 DEF SameChannel
<1>9. \A s \in Subscriptions : SameCall(s)
  BY <1>0, CallKept
<1> QED
  BY <1>0, <1>4, <1>7, <1>8, <1>9, AllChannels, Together

LEMMA Publishes ==
    ASSUME TypeOK, NEW n \in Nodes, NEW p, NEW m \in Messages, Publish(n, p, m)
    PROVE  /\ sending' \subseteq Publishers
           /\ queue' \in [Nodes -> Seq(Messages)] /\ published' \in [Nodes -> Seq(Messages)]
           /\ \A k \in Nodes : Len(queue'[k]) <= Capacity
           /\ process' = process /\ subscribers' = subscribers =>
                 \A k \in Nodes : SameChannel(k)
<1>1. /\ queue' = [queue EXCEPT ![n] = Append(@, m)]
      /\ published' = [published EXCEPT ![n] = Append(@, m)]
      /\ Len(queue[n]) < Capacity
  BY DEF Publish
<1>0. sending' \subseteq Publishers
  BY DEF Publish, Sends, TypeOK
<1>2. queue \in [Nodes -> Seq(Messages)] /\ published \in [Nodes -> Seq(Messages)]
  BY DEF TypeOK
<1>3. queue' \in [Nodes -> Seq(Messages)] /\ published' \in [Nodes -> Seq(Messages)]
  BY <1>1, <1>2
<1>4. ASSUME NEW k \in Nodes
      PROVE  Len(queue'[k]) <= Capacity
  <2>1. CASE k = n
    BY <1>1, <1>2, <2>1, CapacityAssumption
  <2>2. CASE k # n
    BY <1>1, <1>2, <2>2 DEF TypeOK
  <2> QED
    BY <2>1, <2>2
<1>5. ASSUME process' = process, subscribers' = subscribers, NEW k \in Nodes
      PROVE  SameChannel(k)
  BY <1>1, <1>2, <1>5 DEF SameChannel
<1> QED
  BY <1>0, <1>3, <1>4, <1>5

LEMMA ItemType ==
    ASSUME NEW n \in Nodes, NEW k \in DOMAIN WindowOf
    PROVE  Item(n, k) \in Messages
<1>1. WindowOf[k] \in Windows
  BY WindowsAssumption
<1>2. <<n, k>> \in Ids
  BY DEF Ids
<1>3. <<<<n, k>>>> \in Seq(Ids)
  BY <1>2
<1> QED
  BY <1>1, <1>3 DEF Item, Messages

LEMMA GroupType ==
    ASSUME NEW w \in Windows, NEW items, items.ids \in Seq(Ids)
    PROVE  Group(w, items) \in Messages
<1>1. WindowAfter[w] \in Windows
  BY WindowsAssumption
<1> QED
  BY <1>1 DEF Group, Messages

LEMMA NoItemsType == NoItems \in [items : Nat, ids : Seq(Ids)]
<1>1. <<>> \in Seq(Ids)
  OBVIOUS
<1> QED
  BY <1>1 DEF NoItems

LEMMA LoadStep ==
    ASSUME Inv, NEW n \in Nodes, Load(n)
    PROVE  Inv'
<1> DEFINE m == IF Loaded(n) < graph[n].items
                THEN Item(n, Loaded(n) + 1) ELSE Watermark
<1>0. /\ UNCHANGED <<graph, launched, closed, process, subscribers, sub, buffer, met>>
      /\ UNCHANGED <<cancelled, crashed, handled, joined, failed>>
      /\ node[n] = "load" /\ Publish(n, <<n, 0>>, m)
      /\ node' = [node EXCEPT ![n] = IF Loaded(n) = graph[n].items THEN "finish" ELSE "load"]
  BY DEF Load, windows
<1>1. /\ Nodes' = Nodes /\ Subscriptions' = Subscriptions /\ Messages' = Messages
      /\ ProcessStates' = ProcessStates /\ Calls' = Calls /\ Publishers' = Publishers
      /\ Buffers' = Buffers /\ Triggers' = Triggers
  BY <1>0, SameGraph
<1>2. TypeOK
  BY DEF Inv
<1>3. m \in Messages
  <2>1. graph[n].items \in 0 .. Len(WindowOf)
    BY <1>0, <1>2, Shape DEF Inv, Loads
  <2>2. Loaded(n) \in Nat
    BY <1>2, ChannelTypes DEF Loaded
  <2>3. Loaded(n) < graph[n].items => Loaded(n) + 1 \in DOMAIN WindowOf
    BY <2>1, <2>2, WindowsAssumption
  <2>4. Loaded(n) < graph[n].items => Item(n, Loaded(n) + 1) \in Messages
    BY <2>3, ItemType
  <2>5. Watermark \in Messages
    BY DEF Messages
  <2> QED
    BY <2>4, <2>5
<1> HIDE DEF m
<1>4. node' \in [Nodes -> NodeStates] /\ Loads'
  BY <1>0, <1>1, <1>2 DEF TypeOK, Loads, Inv, NodeStates
<1>5. TypeOK'
  BY <1>0, <1>1, <1>2, <1>3, <1>4, Publishes DEF TypeOK
<1>6. \A k \in Nodes : SameChannel(k)
  BY <1>0, <1>2, <1>3, Publishes
<1>7. \A s \in Subscriptions : SameCall(s)
  BY <1>0, CallKept
<1> QED
  BY <1>0, <1>4, <1>5, <1>6, <1>7, AllChannels, Together

LEMMA LastFlushStep ==
    ASSUME Inv, NEW n \in Nodes, LastFlush(n)
    PROVE  Inv'
<1> DEFINE x == Signalled(n)
<1>0. /\ UNCHANGED <<graph, launched, closed, process, subscribers, sub>>
      /\ UNCHANGED <<cancelled, crashed, handled, joined, failed>>
      /\ \/ /\ node' = [node EXCEPT ![n] = "finish"]
            /\ UNCHANGED <<queue, published, sending, buffer, met>>
         \/ /\ UNCHANGED node
            /\ \E w \in Windows :
                  /\ Publish(n, <<n, 0>>, Group(w, buffer[n][w]))
                  /\ buffer' = [buffer EXCEPT ![n][w] = NoItems]
                  /\ met' = [met EXCEPT ![n][w] = {}]
  BY DEF LastFlush, Due, Signalled, windows
<1>1. /\ Nodes' = Nodes /\ Subscriptions' = Subscriptions /\ Messages' = Messages
      /\ ProcessStates' = ProcessStates /\ Calls' = Calls /\ Publishers' = Publishers
      /\ Buffers' = Buffers /\ Triggers' = Triggers
  BY <1>0, SameGraph
<1>2. TypeOK
  BY DEF Inv
<1>3. \A s \in Subscriptions : SameCall(s)
  BY <1>0, CallKept
<1>4. CASE /\ node' = [node EXCEPT ![n] = "finish"]
           /\ UNCHANGED <<queue, published, sending, buffer, met>>
  <2>1. node' \in [Nodes -> NodeStates] /\ Loads'
    BY <1>0, <1>1, <1>2, <1>4 DEF TypeOK, Loads, Inv, NodeStates
  <2>2. TypeOK'
    BY <1>0, <1>1, <1>2, <1>4, <2>1 DEF TypeOK
  <2>3. \A k \in Nodes : SameChannel(k)
    BY <1>0, <1>4 DEF SameChannel
  <2> QED
    BY <1>0, <1>3, <2>1, <2>2, <2>3, AllChannels, Together
<1>5. ASSUME UNCHANGED node,
             NEW w \in Windows, Publish(n, <<n, 0>>, Group(w, buffer[n][w])),
             buffer' = [buffer EXCEPT ![n][w] = NoItems], met' = [met EXCEPT ![n][w] = {}]
      PROVE  Inv'
  <2>1. buffer[n][w].ids \in Seq(Ids)
    BY <1>2 DEF TypeOK, Buffers
  <2>2. Group(w, buffer[n][w]) \in Messages
    BY <2>1, GroupType
  <2>3. buffer' \in [Nodes -> Buffers]
    BY <1>2, <1>5, NoItemsType DEF TypeOK, Buffers
  <2>4. met' \in [Nodes -> Triggers]
    BY <1>2, <1>5 DEF TypeOK, Triggers
  <2>5. TypeOK'
    BY <1>0, <1>1, <1>2, <1>5, <2>2, <2>3, <2>4, Publishes DEF TypeOK
  <2>6. \A k \in Nodes : SameChannel(k)
    BY <1>0, <1>2, <1>5, <2>2, Publishes
  <2>7. Loads'
    BY <1>0, <1>1, <1>5 DEF Inv, Loads
  <2> QED
    BY <1>0, <1>3, <2>5, <2>6, <2>7, AllChannels, Together
<1> QED
  BY <1>0, <1>4, <1>5

-----------------------------------------------------------------------------
(* Steps of the subscriptions *)

LEMMA EmitStep ==
    ASSUME Inv, NEW s \in Subscriptions, Emit(s)
    PROVE  Inv'
<1>0. /\ UNCHANGED <<graph, launched, node, closed, process, subscribers, buffer, met>>
      /\ UNCHANGED <<cancelled, crashed, handled, joined, failed>>
      /\ sub[s].by # "none" /\ Publish(s[1], s, Head(sub[s].emit))
      /\ sub' = [sub EXCEPT ![s].emit = Tail(@),
                            ![s].by = IF Len(sub[s].emit) = 1 THEN "none" ELSE @]
  BY DEF Emit, windows
<1>1. /\ Nodes' = Nodes /\ Subscriptions' = Subscriptions /\ Messages' = Messages
      /\ ProcessStates' = ProcessStates /\ Calls' = Calls /\ Publishers' = Publishers
      /\ Buffers' = Buffers /\ Triggers' = Triggers
  BY <1>0, SameGraph
<1>2. TypeOK /\ s[1] \in Nodes /\ Source(s) \in Nodes
  BY Shape DEF Inv
<1>3. sub[s].emit # <<>> /\ sub[s].emit \in Seq(Messages)
  BY <1>0, <1>2, CallTypes DEF Inv, Channel, Handling
<1>4. Head(sub[s].emit) \in Messages /\ Tail(sub[s].emit) \in Seq(Messages)
      /\ (Len(sub[s].emit) # 1 => Tail(sub[s].emit) # <<>>)
  BY ONLY <1>3, TailOf
<1>5. sub' \in [Subscriptions -> Calls]
      /\ \A t \in Subscriptions : sub'[t].inputs = sub[t].inputs
  <2>1. sub \in [Subscriptions -> Calls]
    BY <1>2 DEF TypeOK
  <2> DEFINE c == [sub[s] EXCEPT !.emit = Tail(sub[s].emit),
                                 !.by = IF Len(sub[s].emit) = 1 THEN "none" ELSE sub[s].by]
  <2>2. c \in Calls /\ c.inputs = sub[s].inputs
    <3> PICK d, e, k : /\ d = sub[s] /\ e = Tail(sub[s].emit)
                       /\ k = IF Len(sub[s].emit) = 1 THEN "none" ELSE sub[s].by
      OBVIOUS
    <3>1. d \in Calls /\ e \in Seq(Messages)
      BY ONLY <1>4, <2>1, s \in Subscriptions, d = sub[s], e = Tail(sub[s].emit)
    <3>2. k \in {"none", "process", "worker"}
      BY <3>1 DEF Calls
    <3>3. /\ [d EXCEPT !.emit = e, !.by = k] \in Calls
          /\ [d EXCEPT !.emit = e, !.by = k].inputs = d.inputs
      BY ONLY <3>1, <3>2 DEF Calls
    <3>4. c = [d EXCEPT !.emit = e, !.by = k] /\ d.inputs = sub[s].inputs
      OBVIOUS
    <3> QED
      BY ONLY <3>3, <3>4
  <2>3. sub' = [sub EXCEPT ![s] = c]
    BY ONLY <1>0, <2>1, s \in Subscriptions DEF Calls
  <2> HIDE DEF c
  <2> QED
    BY ONLY <2>1, <2>2, <2>3, s \in Subscriptions
<1>6. TypeOK'
  BY <1>0, <1>1, <1>2, <1>4, <1>5, Publishes DEF TypeOK
<1>7. \A k \in Nodes : SameChannel(k)
  BY <1>0, <1>2, <1>4, Publishes
<1>8. ASSUME NEW t \in Subscriptions
      PROVE  SameCall(t)
  <2>1. CASE t = s
    <3>1. sub \in [Subscriptions -> Calls]
      BY <1>2 DEF TypeOK
    <3>2. /\ sub'[s].call = sub[s].call /\ sub'[s].shut = sub[s].shut
          /\ sub'[s].inputs = sub[s].inputs
          /\ sub'[s].by = IF Len(sub[s].emit) = 1 THEN "none" ELSE sub[s].by
          /\ sub'[s].emit = Tail(sub[s].emit)
      BY ONLY <1>0, <3>1, s \in Subscriptions DEF Calls
    <3> QED
      BY <1>0, <1>4, <2>1, <3>2 DEF SameCall
  <2>2. CASE t # s
    BY <1>0, <1>2, <2>2, CallKept DEF TypeOK
  <2> QED
    BY <2>1, <2>2
<1>9. Loads'
  BY <1>0, <1>1 DEF Inv, Loads
<1> QED
  BY <1>0, <1>6, <1>7, <1>8, <1>9, AllChannels, Together

\* Only the record of s changes.
LEMMA Updated ==
    ASSUME TypeOK, NEW s \in Subscriptions, NEW c \in Calls, Len(c.inputs) <= Capacity,
           sub' = [sub EXCEPT ![s] = c]
    PROVE  /\ sub' \in [Subscriptions -> Calls]
           /\ \A t \in Subscriptions : Len(sub'[t].inputs) <= Capacity
           /\ sub'[s] = c /\ \A t \in Subscriptions \ {s} : sub'[t] = sub[t]
BY DEF TypeOK

\* A step that changes nothing but the record of a subscription, and a process.
LEMMA SubscriptionTypes ==
    ASSUME Inv, NEW s \in Subscriptions, NEW c \in Calls, Len(c.inputs) <= Capacity,
           sub' = [sub EXCEPT ![s] = c], process' \in [Nodes -> ProcessStates],
           failed' \in BOOLEAN, handled' \in [Subscriptions -> Seq(Messages)],
           UNCHANGED <<graph, launched, node, queue, closed, subscribers>>,
           UNCHANGED <<buffer, met, cancelled, sending, crashed, published, joined>>
    PROVE  TypeOK' /\ Loads'
<1>1. /\ Nodes' = Nodes /\ Subscriptions' = Subscriptions /\ Messages' = Messages
      /\ ProcessStates' = ProcessStates /\ Calls' = Calls /\ Publishers' = Publishers
      /\ Buffers' = Buffers /\ Triggers' = Triggers
  BY SameGraph
<1>2. TypeOK /\ Loads
  BY DEF Inv
<1>3. /\ sub' \in [Subscriptions -> Calls]
      /\ \A t \in Subscriptions : Len(sub'[t].inputs) <= Capacity
  BY <1>2, Updated
<1>4. TypeOK'
  BY <1>1, <1>2, <1>3 DEF TypeOK
<1>5. Loads'
  BY <1>1, <1>2 DEF Loads
<1> QED
  BY <1>4, <1>5

\* One that is no more than SameCall allows.
LEMMA QuietCall ==
    ASSUME Inv, NEW s \in Subscriptions, NEW c \in Calls, Len(c.inputs) <= Capacity,
           sub' = [sub EXCEPT ![s] = c], failed' \in BOOLEAN, SameCall(s),
           UNCHANGED <<graph, launched, node, queue, closed, process, subscribers>>,
           UNCHANGED <<buffer, met, cancelled, sending, crashed, published, handled, joined>>
    PROVE  Inv'
<1>1. TypeOK
  BY DEF Inv
<1>2. process' \in [Nodes -> ProcessStates] /\ handled' \in [Subscriptions -> Seq(Messages)]
  BY <1>1 DEF TypeOK
<1>3. TypeOK' /\ Loads'
  BY <1>2, SubscriptionTypes
<1>4. \A k \in Nodes : SameChannel(k)
  BY DEF SameChannel
<1>5. ASSUME NEW t \in Subscriptions
      PROVE  SameCall(t)
  BY <1>1, Updated, CallKept
<1> QED
  BY <1>3, <1>4, <1>5, AllChannels, Together

LEMMA CallOf ==
    ASSUME TypeOK, NEW s \in Subscriptions
    PROVE  /\ sub[s] \in Calls /\ Len(sub[s].inputs) <= Capacity
           /\ \A c : sub' = [sub EXCEPT ![s] = c] => sub'[s] = c
BY DEF TypeOK

LEMMA CheckStep ==
    ASSUME Inv, NEW s \in Subscriptions, Check(s)
    PROVE  Inv'
<1> DEFINE c == IF cancelled \/ closed[Source(s)]
                THEN [sub[s] EXCEPT !.call = "returned", !.result = "error"]
                ELSE [sub[s] EXCEPT !.call = "add", !.worker = "running"]
<1>1. TypeOK /\ Source(s) \in Nodes
  BY Shape DEF Inv
<1>2. sub[s] \in Calls /\ Len(sub[s].inputs) <= Capacity
  BY <1>1, CallOf
<1>3. /\ c \in Calls /\ c.inputs = sub[s].inputs /\ c.shut = sub[s].shut
      /\ c.by = sub[s].by /\ c.emit = sub[s].emit /\ c.call \in {"add", "returned"}
  BY ONLY <1>2 DEF Calls
<1>4. sub' = [sub EXCEPT ![s] = c] /\ sub[s].call = "check"
  <2>1. sub \in [Subscriptions -> Calls]
    BY <1>1 DEF TypeOK
  <2> QED
    BY <2>1 DEF Check, Calls
<1>5. UNCHANGED <<graph, launched, node, queue, closed, process, subscribers>>
      /\ UNCHANGED <<buffer, met, cancelled, sending, crashed>>
      /\ UNCHANGED <<published, handled, joined, failed>>
  BY DEF Check, channels, windows, history
<1> HIDE DEF c
<1>6. SameCall(s)
  <2>1. sub'[s] = c
    BY <1>1, <1>4, CallOf
  <2>2. Handling(s)
    BY <1>1 DEF Inv, Channel
  <2> QED
    BY <1>3, <1>4, <1>5, <2>1, <2>2 DEF SameCall, Handling
<1>7. failed' \in BOOLEAN
  BY <1>1, <1>5 DEF TypeOK
<1> QED
  BY <1>2, <1>3, <1>4, <1>5, <1>6, <1>7, QuietCall

LEMMA WorkerEndsStep ==
    ASSUME Inv, NEW s \in Subscriptions, WorkerEnds(s)
    PROVE  Inv'
<1> DEFINE c == [sub[s] EXCEPT !.worker = "ended"]
<1>1. TypeOK /\ Source(s) \in Nodes
  BY Shape DEF Inv
<1>2. sub[s] \in Calls /\ Len(sub[s].inputs) <= Capacity
  BY <1>1, CallOf
<1>3. /\ c \in Calls /\ c.inputs = sub[s].inputs /\ c.shut = sub[s].shut
      /\ c.by = sub[s].by /\ c.emit = sub[s].emit /\ c.call = sub[s].call
  BY ONLY <1>2 DEF Calls
<1>4. sub' = [sub EXCEPT ![s] = c]
  <2>1. sub \in [Subscriptions -> Calls]
    BY <1>1 DEF TypeOK
  <2> QED
    BY <2>1 DEF WorkerEnds, Calls
<1>5. UNCHANGED <<graph, launched, node, queue, closed, process, subscribers>>
      /\ UNCHANGED <<buffer, met, cancelled, sending, crashed>>
      /\ UNCHANGED <<published, handled, joined, failed>>
  BY DEF WorkerEnds, channels, windows, history
<1> HIDE DEF c
<1>6. SameCall(s)
  <2>1. sub'[s] = c
    BY <1>1, <1>4, CallOf
  <2>2. Handling(s)
    BY <1>1 DEF Inv, Channel
  <2> QED
    BY <1>3, <1>5, <2>1, <2>2 DEF SameCall, Handling
<1>7. failed' \in BOOLEAN
  BY <1>1, <1>5 DEF TypeOK
<1> QED
  BY <1>2, <1>3, <1>4, <1>5, <1>6, <1>7, QuietCall

LEMMA StillQueued ==
    ASSUME TypeOK, NEW n \in Nodes, Queued(n),
           queue'[n] = queue[n], published'[n] = published[n]
    PROVE  /\ Queued(n)' /\ Taken(n)' = Taken(n)
           /\ Taken(n) \in Nat /\ Taken(n) <= Len(published[n])
<1>1. queue[n] \in Seq(Messages) /\ published[n] \in Seq(Messages)
  BY ChannelTypes
<1>2. Taken(n) \in Nat /\ Taken(n) <= Len(published[n])
  BY ONLY <1>1, Queued(n), Remains DEF Queued, Taken, EndOf
<1> QED
  BY <1>2 DEF Queued, Taken

LEMMA FollowedStill ==
    ASSUME TypeOK, graph' = graph, NEW n \in Nodes, NEW s \in Subscriptions,
           Source(s) = n, Followed(s), Queued(n),
           queue'[n] = queue[n], published'[n] = published[n],
           sub'[s].inputs = sub[s].inputs,
           handled'[s] = handled[s], joined'[s] = joined[s],
           sub'[s].call \in {"check", "add"} => sub[s].call \in {"check", "add"},
           sub'[s].call \in Listening => sub[s].call \in Listening /\ (Owed(s)' <=> Owed(s))
    PROVE  Followed(s)'
<1>1. /\ Taken(n)' = Taken(n) /\ Taken(n) \in Nat /\ Taken(n) <= Len(published[n])
      /\ \A i \in 1 .. Len(published[n]) : published'[n][i] = published[n][i]
  BY StillQueued
<1> QED
  BY <1>1, FollowedKept

\* The only subscriber, called by Process, has failed.
LEMMA SettleChannel ==
    ASSUME Inv, NEW n \in Nodes, NEW s \in Subscriptions, Source(s) = n,
           sub[s].by = "process", ~sub[s].shut,
           UNCHANGED <<graph, queue, published, subscribers, handled, joined>>,
           process'[n].pc = "settle", process'[n].rest = <<s>>,
           \A t \in Subscriptions \ {s} : sub'[t] = sub[t],
           sub'[s].call = sub[s].call, sub'[s].inputs = sub[s].inputs,
           sub'[s].shut, sub'[s].by = "none"
    PROVE  Channel(n)'
<1>1. Nodes' = Nodes /\ Subscriptions' = Subscriptions /\ \A t : Source(t)' = Source(t)
  BY SameGraph DEF Source
<1>2. TypeOK
  BY DEF Inv
<1>3. Channel(n)
  BY <1>2 DEF Inv
<1>4. process[n].pc = "receive" /\ subscribers[n] = <<s>>
  BY <1>3 DEF Channel, Handling
<1>5. sub[s].inputs = <<>>
  BY <1>3, <1>4 DEF Channel, OneHandler
<1>6. \A t \in Subscriptions : In(t, subscribers[n]) <=> t = s
  BY <1>4 DEF In
<1>7. sub[s].call = "wait"
  <2>1. sub[s].call \in Listening
    BY <1>3, <1>6 DEF Channel, Listed
  <2>2. sub[s].call # "remove"
    BY <1>3, <1>4 DEF Channel, Leaving
  <2> QED
    BY <2>1, <2>2 DEF Listening
<1>8. Queued(n)'
  BY <1>2, <1>3, StillQueued DEF Channel
<1>9. Listed(n)'
  <2>1. Listed(n)
    BY <1>3 DEF Channel
  <2>2. \A t \in Subscriptions : sub'[t].call = sub[t].call
    OBVIOUS
  <2>3. subscribers' = subscribers
    OBVIOUS
  <2> QED
    BY ONLY <1>1, <2>1, <2>2, <2>3 DEF Listed, OneOfEach, In
<1>10. Processing(n)'
  BY <1>1, <1>4, <1>5, <1>7 DEF Processing
<1>11. OneHandler(n)'
  BY DEF OneHandler
<1>12. ASSUME NEW t \in Subscriptions, Source(t) = n
       PROVE  Followed(t)' /\ Handling(t)' /\ Leaving(t)'
  <2>1. Followed(t) /\ Handling(t)
    BY <1>3, <1>12 DEF Channel
  <2>2. sub'[t].call = sub[t].call /\ sub'[t].inputs = sub[t].inputs
    OBVIOUS
  <2>3. ~Owed(t) /\ ~Owed(t)'
    BY <1>1, <1>4, <1>12 DEF Owed
  <2>4. Followed(t)'
    BY <1>2, <1>3, <1>12, <2>1, <2>2, <2>3, FollowedStill DEF Channel
  <2>5. Handling(t)'
    <3>1. CASE t = s
      BY <1>7, <3>1 DEF Handling
    <3>2. CASE t # s
      BY <1>1, <1>4, <1>12, <2>1, <3>2 DEF Handling
    <3> QED
      BY <3>1, <3>2
  <2>6. Leaving(t)'
    BY <1>1, <1>12 DEF Leaving
  <2> QED
    BY <2>4, <2>5, <2>6
<1> QED
  BY <1>1, <1>8, <1>9, <1>10, <1>11, <1>12 DEF Channel

LEMMA EmitFailsStep ==
    ASSUME Inv, NEW s \in Subscriptions, EmitFails(s)
    PROVE  Inv'
<1> PICK n \in Nodes : Source(s) = n
  BY Shape DEF Inv
<1> DEFINE w == IF sub[s].by = "worker" THEN "stuck" ELSE sub[s].worker
           c == [sub[s] EXCEPT !.shut = TRUE, !.by = "none", !.emit = <<>>, !.worker = w]
<1>1. TypeOK /\ sub \in [Subscriptions -> Calls]
      /\ process \in [Nodes -> ProcessStates]
  BY Shape DEF Inv, TypeOK
<1>2. CASE Panic
  BY <1>1, <1>2, QuietSteps DEF QuietStep
<1>3. CASE /\ Fail(s, sub[s].by, sub, process)
           /\ UNCHANGED <<graph, launched, node, queue, closed, subscribers, windows,
                          cancelled, sending, crashed, published, handled, joined>>
  <2>1. sub[s] \in Calls /\ Len(sub[s].inputs) <= Capacity
    BY <1>1, CallOf
  <2>2. /\ c \in Calls /\ c.inputs = sub[s].inputs /\ c.shut /\ c.by = "none"
        /\ c.call = sub[s].call
    <3>1. w \in {"off", "running", "ended", "stuck"}
      BY <2>1 DEF Calls
    <3>2. <<>> \in Seq(Messages)
      OBVIOUS
    <3> HIDE DEF w
    <3>3. c \in Calls
      BY ONLY <2>1, <3>1, <3>2 DEF Calls
    <3> QED
      BY ONLY <2>1, <3>3 DEF Calls
  <2>3. sub' = [sub EXCEPT ![s] = c]
    <3>1. CASE sub[s].by = "worker"
      BY ONLY <1>1, <1>3, <3>1, s \in Subscriptions DEF Fail, Calls
    <3>2. CASE sub[s].by # "worker"
      BY ONLY <1>1, <1>3, <3>2, s \in Subscriptions DEF Fail, Calls
    <3> QED
      BY <3>1, <3>2
  <2>4. sub[s].by \in {"process", "worker"}
    BY <2>1 DEF EmitFails, Calls
  <2> HIDE DEF c
  <2>5. sub'[s] = c
    BY <1>1, <2>3, CallOf
  <2>6. failed' \in BOOLEAN /\ UNCHANGED <<graph, launched, node, queue, closed, subscribers>>
        /\ UNCHANGED <<buffer, met, cancelled, sending, crashed, published, handled, joined>>
    BY <1>3 DEF Fail, windows
  <2>7. CASE process' = process
    <3>1. Handling(s)
      BY <1>1 DEF Inv, Channel
    <3>2. SameCall(s)
      BY <2>2, <2>4, <2>5, <2>6, <3>1 DEF SameCall, Handling
    <3> QED
      BY <2>1, <2>2, <2>3, <2>6, <2>7, <3>2, QuietCall
  <2>8. CASE sub[s].by = "process" /\ ~sub[s].shut
    <3>1. process' = [process EXCEPT ![n].pc = "settle", ![n].rest = <<s>>]
      BY <1>3, <2>8 DEF Fail
    <3>2. /\ process' \in [Nodes -> ProcessStates]
          /\ process'[n].pc = "settle" /\ process'[n].rest = <<s>>
          /\ \A k \in Nodes \ {n} : process'[k] = process[k]
      <4>1. <<s>> \in Seq(Subscriptions)
        OBVIOUS
      <4> QED
        BY ONLY <1>1, <3>1, <4>1 DEF ProcessStates
    <3>3. \A t \in Subscriptions \ {s} : sub'[t] = sub[t]
      BY <1>1, <2>1, <2>2, <2>3, Updated
    <3>4. Channel(n)'
      BY <2>2, <2>5, <2>6, <2>8, <3>2, <3>3, SettleChannel
    <3>5. \A k \in Nodes \ {n} : SameChannel(k)
      BY <2>6, <3>2 DEF SameChannel
    <3>6. handled' \in [Subscriptions -> Seq(Messages)]
      BY <1>1, <2>6 DEF TypeOK
    <3>7. TypeOK' /\ Loads'
      BY <2>1, <2>2, <2>3, <2>6, <3>2, <3>6, SubscriptionTypes
    <3>8. \A k \in Nodes : Channel(k)'
      BY <1>1, <2>6, <3>3, <3>4, <3>5, OtherChannels
    <3> QED
      BY <2>6, <3>7, <3>8, Together
  <2> QED
    BY <1>3, <2>4, <2>7, <2>8 DEF Fail
<1> QED
  BY <1>2, <1>3 DEF EmitFails

LEMMA Removed ==
    ASSUME NEW S, NEW q \in Seq(S), NEW i \in 1 .. Len(q), OneOfEach(q)
    PROVE  /\ RemoveAt(q, i) \in Seq(S) /\ OneOfEach(RemoveAt(q, i))
           /\ \A x : In(x, RemoveAt(q, i)) <=> In(x, q) /\ x # q[i]
<1> PICK r : r = RemoveAt(q, i)
  OBVIOUS
<1>1. Len(q) \in Nat /\ i \in Nat
  OBVIOUS
<1> DEFINE a == SubSeq(q, 1, i - 1)
           b == SubSeq(q, i + 1, Len(q))
<1>a. a \in Seq(S) /\ Len(a) = i - 1 /\ \A k \in 1 .. i - 1 : a[k] = q[k]
  OBVIOUS
<1>b. b \in Seq(S) /\ Len(b) = Len(q) - i /\ \A k \in 1 .. Len(q) - i : b[k] = q[i + k]
  OBVIOUS
<1>r. r = a \o b
  BY DEF RemoveAt
<1> HIDE DEF a, b
<1>2. r \in Seq(S) /\ Len(r) = Len(q) - 1
  BY <1>1, <1>a, <1>b, <1>r
<1>3. ASSUME NEW k \in 1 .. Len(q) - 1
      PROVE  r[k] = IF k < i THEN q[k] ELSE q[k + 1]
  <2>1. CASE k < i
    BY <1>1, <1>a, <1>b, <1>r, <2>1
  <2>2. CASE ~(k < i)
    <3>1. /\ k \in Len(a) + 1 .. Len(a) + Len(b) /\ k - Len(a) \in 1 .. Len(b)
          /\ i + (k - Len(a)) = k + 1
      BY <1>1, <1>a, <1>b, <2>2
    <3>2. r[k] = b[k - Len(a)]
      <4>1. a \in Seq(S) /\ b \in Seq(S) /\ r = a \o b
        BY ONLY <1>a, <1>b, <1>r
      <4>2. Len(a) \in Nat /\ Len(b) \in Nat
        BY ONLY <4>1, LenProperties
      <4>3. k \in 1 .. Len(a) + Len(b) /\ ~(k <= Len(a))
        BY ONLY <3>1, <4>2
      <4>4. \A j \in 1 .. Len(a) + Len(b) :
               r[j] = IF j <= Len(a) THEN a[j] ELSE b[j - Len(a)]
        BY ONLY <4>1, ConcatProperties
      <4> QED
        BY ONLY <4>3, <4>4
    <3> QED
      BY <1>b, <2>2, <3>1, <3>2
  <2> QED
    BY <2>1, <2>2
<1>4. OneOfEach(r)
  BY <1>1, <1>2, <1>3 DEF OneOfEach
<1>5. ASSUME NEW x
      PROVE  In(x, r) <=> In(x, q) /\ x # q[i]
  <2>1. ASSUME NEW k \in 1 .. Len(r), r[k] = x
        PROVE  In(x, q) /\ x # q[i]
    <3>1. CASE k < i
      <4>1. k \in 1 .. Len(q) /\ k \in 1 .. Len(q) - 1 /\ k # i
        BY <1>1, <1>2, <3>1
      <4> QED
        BY <1>3, <2>1, <3>1, <4>1 DEF In, OneOfEach
    <3>2. CASE ~(k < i)
      <4>1. k + 1 \in 1 .. Len(q) /\ k + 1 # i
        BY <1>1, <1>2, <3>2
      <4> QED
        BY <1>1, <1>2, <1>3, <2>1, <3>2, <4>1 DEF In, OneOfEach
    <3> QED
      BY <3>1, <3>2
  <2>2. ASSUME NEW k \in 1 .. Len(q), q[k] = x, x # q[i]
        PROVE  In(x, r)
    <3>1. CASE k < i
      BY <1>1, <1>2, <1>3, <2>2, <3>1 DEF In
    <3>2. CASE k > i
      <4>1. k - 1 \in 1 .. Len(q) - 1 /\ ~(k - 1 < i) /\ (k - 1) + 1 = k
        BY <1>1, <3>2
      <4> QED
        BY <1>2, <1>3, <2>2, <4>1 DEF In
    <3> QED
      BY <1>1, <2>2, <3>1, <3>2
  <2> QED
    BY <2>1, <2>2 DEF In
<1> QED
  BY <1>2, <1>4, <1>5

LEMMA Added ==
    ASSUME NEW S, NEW q \in Seq(S), NEW e \in S, OneOfEach(q), ~In(e, q)
    PROVE  /\ Append(q, e) \in Seq(S) /\ OneOfEach(Append(q, e))
           /\ q # <<>> => Append(q, e)[1] = q[1]
           /\ \A x : In(x, Append(q, e)) <=> In(x, q) \/ x = e
           /\ Len(Append(q, e)) = 1 => Append(q, e)[1] = e
<1> DEFINE r == Append(q, e)
<1>1. /\ Len(q) \in Nat /\ r \in Seq(S) /\ Len(r) = Len(q) + 1 /\ r[Len(q) + 1] = e
      /\ \A k \in 1 .. Len(q) : r[k] = q[k]
  OBVIOUS
<1> HIDE DEF r
<1>2. OneOfEach(r)
  <2>1. ASSUME NEW i \in 1 .. Len(r), NEW j \in 1 .. Len(r), r[i] = r[j]
        PROVE  i = j
    <3>1. /\ i = Len(q) + 1 \/ i \in 1 .. Len(q)
          /\ j = Len(q) + 1 \/ j \in 1 .. Len(q)
      BY <1>1
    <3> QED
      BY <1>1, <2>1, <3>1 DEF OneOfEach, In
  <2> QED
    BY <2>1 DEF OneOfEach
<1>3. \A x : In(x, r) <=> In(x, q) \/ x = e
  BY <1>1 DEF In
<1>4. q # <<>> => r[1] = q[1]
  <2>1. q # <<>> => 1 \in 1 .. Len(q)
    OBVIOUS
  <2> QED
    BY <1>1, <2>1
<1>5. Len(r) = 1 => r[1] = e
  BY <1>1
<1> QED
  BY <1>1, <1>2, <1>3, <1>4, <1>5 DEF r

\* Where Unlocked(n) holds, no subscriber is called by Process.
LEMMA UnlockedMeans ==
    ASSUME NEW k, Unlocked(k), NEW t \in Subscriptions, Source(t) = k
    PROVE  process[k].pc \in {"receive", "done"} /\ sub[t].by # "process"
BY DEF Unlocked

LEMMA AddStep ==
    ASSUME Inv, NEW s \in Subscriptions, Add(s)
    PROVE  Inv'
<1> DEFINE c == [sub[s] EXCEPT !.call = "wait"]
<1> PICK n \in Nodes : Source(s) = n
  BY Shape DEF Inv
<1>1. /\ Nodes' = Nodes /\ Subscriptions' = Subscriptions /\ Messages' = Messages
      /\ ProcessStates' = ProcessStates /\ Calls' = Calls /\ Publishers' = Publishers
      /\ Buffers' = Buffers /\ Triggers' = Triggers /\ \A t : Source(t)' = Source(t)
  BY SameGraph DEF Add, Source
<1>2. TypeOK /\ Loads /\ Channel(n)
  BY DEF Inv
<1>3. /\ UNCHANGED <<graph, launched, node, queue, closed, process, buffer, met>>
      /\ UNCHANGED <<cancelled, sending, crashed, published, handled, failed>>
      /\ sub[s].call = "add" /\ process[n].pc \in {"receive", "done"}
      /\ \A t \in Subscriptions : Source(t) = n => sub[t].by # "process"
  BY UnlockedMeans DEF Add, windows
<1>4. sub[s] \in Calls /\ Len(sub[s].inputs) <= Capacity
  BY <1>2, CallOf
<1>5. /\ c \in Calls /\ c.inputs = sub[s].inputs /\ c.shut = sub[s].shut
      /\ c.by = sub[s].by /\ c.emit = sub[s].emit /\ c.call = "wait"
  BY ONLY <1>4 DEF Calls
<1>6. sub' = [sub EXCEPT ![s] = c]
  <2>1. sub \in [Subscriptions -> Calls]
    BY <1>2 DEF TypeOK
  <2> QED
    BY <2>1 DEF Add, Calls
<1> HIDE DEF c
<1>7. /\ sub' \in [Subscriptions -> Calls]
      /\ \A t \in Subscriptions : Len(sub'[t].inputs) <= Capacity
      /\ sub'[s] = c /\ \A t \in Subscriptions \ {s} : sub'[t] = sub[t]
  BY <1>2, <1>4, <1>5, <1>6, Updated
<1>8. /\ subscribers[n] \in Seq(Subscriptions) /\ OneOfEach(subscribers[n])
      /\ ~In(s, subscribers[n])
  BY <1>2, <1>3, ChannelTypes DEF Channel, Listed, Listening
<1>9. /\ subscribers' \in [Nodes -> Seq(Subscriptions)]
      /\ subscribers'[n] = Append(subscribers[n], s)
      /\ \A k \in Nodes \ {n} : subscribers'[k] = subscribers[k]
  BY <1>2 DEF Add, TypeOK
<1>10. /\ OneOfEach(subscribers'[n])
       /\ subscribers[n] # <<>> => subscribers'[n][1] = subscribers[n][1]
       /\ \A x : In(x, subscribers'[n]) <=> In(x, subscribers[n]) \/ x = s
       /\ Len(subscribers'[n]) = 1 => subscribers'[n][1] = s
  <2>1. /\ OneOfEach(Append(subscribers[n], s))
        /\ subscribers[n] # <<>> => Append(subscribers[n], s)[1] = subscribers[n][1]
        /\ \A x : In(x, Append(subscribers[n], s)) <=> In(x, subscribers[n]) \/ x = s
        /\ Len(Append(subscribers[n], s)) = 1 => Append(subscribers[n], s)[1] = s
    BY ONLY <1>8, s \in Subscriptions, Added
  <2> QED
    BY ONLY <1>9, <2>1
<1>11. /\ Queued(n)' /\ Taken(n)' = Taken(n) /\ Taken(n) \in Nat
  BY <1>2, <1>3, StillQueued DEF Channel
<1>12. /\ joined' \in [Subscriptions -> Nat \cup {-1}] /\ joined'[s] = Taken(n)
       /\ \A t \in Subscriptions \ {s} : joined'[t] = joined[t]
  BY <1>2, <1>11 DEF Add, TypeOK
<1>13. /\ handled[s] = <<>> /\ sub[s].inputs = <<>> /\ ~sub[s].shut /\ sub[s].by = "none"
  BY <1>2, <1>3 DEF Channel, Followed, Handling
<1>14. TypeOK' /\ Loads'
  <2>1. TypeOK'
    BY <1>1, <1>2, <1>3, <1>7, <1>9, <1>12 DEF TypeOK
  <2> QED
    BY <1>1, <1>2, <1>3, <2>1 DEF Loads
<1>15. Listed(n)'
  <2>1. \A t \in Subscriptions :
           In(t, subscribers'[n]) <=> Source(t) = n /\ sub'[t].call \in Listening
    BY <1>2, <1>5, <1>7, <1>10 DEF Channel, Listed, Listening
  <2> QED
    BY <1>1, <1>10, <2>1 DEF Listed
<1>16. Processing(n)'
  BY <1>3 DEF Processing
<1>17. OneHandler(n)'
  BY <1>5, <1>7, <1>10, <1>13 DEF OneHandler
<1>18. ASSUME NEW t \in Subscriptions, Source(t) = n
       PROVE  Followed(t)' /\ Handling(t)' /\ Leaving(t)'
  <2>1. Followed(t) /\ Handling(t) /\ Leaving(t)
    BY <1>2, <1>18 DEF Channel
  <2>2. ~Owed(t) /\ ~Owed(t)'
    BY <1>1, <1>3, <1>18 DEF Owed
  <2>3. Followed(t)'
    <3>1. CASE t = s
      <4>1. /\ sub'[s].inputs = <<>> /\ handled'[s] = <<>> /\ sub'[s].call = "wait"
            /\ joined'[s] = Taken(n) /\ Taken(Source(s))' = Taken(n)
        BY <1>1, <1>3, <1>5, <1>7, <1>11, <1>12, <1>13 DEF Taken
      <4>2. Len(<<>>) = 0
        OBVIOUS
      <4> QED
        BY <1>1, <1>11, <2>2, <3>1, <4>1, <4>2 DEF Followed, Follows
    <3>2. CASE t # s
      <4>1. sub'[t] = sub[t] /\ joined'[t] = joined[t] /\ handled'[t] = handled[t]
        BY <1>3, <1>7, <1>12, <3>2
      <4> QED
        BY <1>2, <1>3, <1>18, <2>1, <2>2, <4>1, FollowedStill DEF Channel
    <3> QED
      BY <3>1, <3>2
  <2>4. Handling(t)'
    <3>1. CASE t = s
      BY <1>5, <1>7, <1>13, <3>1 DEF Handling
    <3>2. CASE t # s
      BY <1>3, <1>7, <1>18, <2>1, <3>2 DEF Handling
    <3> QED
      BY <3>1, <3>2
  <2>5. Leaving(t)'
    <3> SUFFICES ASSUME sub'[t].call = "remove", process'[n].pc \in {"receive", "fanout"}
                 PROVE  Leaving(t)'
      BY <1>1, <1>18 DEF Leaving
    <3>1. t # s /\ sub'[t] = sub[t] /\ process[n].pc = "receive" /\ process'[n].pc = "receive"
      BY <1>3, <1>5, <1>7
    <3>2. /\ subscribers[n] # <<>> /\ subscribers[n][1] = t /\ sub[t].shut
          /\ \A u \in Subscriptions :
                In(u, subscribers[n]) => sub[u].inputs = <<>> /\ sub[u].by # "worker"
      BY <1>18, <2>1, <3>1 DEF Leaving
    <3>3. subscribers'[n] # <<>>
      BY <1>9, <1>8
    <3>4. \A u \in Subscriptions :
             In(u, subscribers'[n]) => sub'[u].inputs = <<>> /\ sub'[u].by # "worker"
      BY <1>5, <1>7, <1>10, <1>13, <3>2
    <3> QED
      BY <1>1, <1>10, <1>18, <3>1, <3>2, <3>3, <3>4 DEF Leaving
  <2> QED
    BY <2>3, <2>4, <2>5
<1>19. Channel(n)'
  BY <1>1, <1>11, <1>15, <1>16, <1>17, <1>18 DEF Channel
<1>20. \A k \in Nodes \ {n} : SameChannel(k)
  BY <1>3, <1>9 DEF SameChannel
<1>21. \A k \in Nodes : Channel(k)'
  BY <1>3, <1>7, <1>12, <1>19, <1>20, OtherChannels
<1> QED
  BY <1>3, <1>14, <1>21, Together

LEMMA UnsubscribeStep ==
    ASSUME Inv, NEW s \in Subscriptions, Unsubscribe(s)
    PROVE  Inv'
<1> DEFINE c == [sub[s] EXCEPT !.call = "returned"]
<1> PICK n \in Nodes : Source(s) = n
  BY Shape DEF Inv
<1>1. /\ Nodes' = Nodes /\ Subscriptions' = Subscriptions /\ Messages' = Messages
      /\ ProcessStates' = ProcessStates /\ Calls' = Calls /\ Publishers' = Publishers
      /\ Buffers' = Buffers /\ Triggers' = Triggers /\ \A t : Source(t)' = Source(t)
  BY SameGraph DEF Unsubscribe, Source
<1>2. TypeOK /\ Loads /\ Channel(n)
  BY DEF Inv
<1>3. /\ UNCHANGED <<graph, launched, node, queue, closed, process, buffer, met>>
      /\ UNCHANGED <<cancelled, sending, crashed, published, handled, joined, failed>>
      /\ sub[s].call = "remove" /\ process[n].pc \in {"receive", "done"}
      /\ \A t \in Subscriptions : Source(t) = n => sub[t].by # "process"
  BY UnlockedMeans DEF Unsubscribe, windows, history
<1>4. sub[s] \in Calls /\ Len(sub[s].inputs) <= Capacity
  BY <1>2, CallOf
<1>5. /\ c \in Calls /\ c.inputs = sub[s].inputs /\ c.shut = sub[s].shut
      /\ c.by = sub[s].by /\ c.emit = sub[s].emit /\ c.call = "returned"
  BY ONLY <1>4 DEF Calls
<1>6. sub' = [sub EXCEPT ![s] = c]
  <2>1. sub \in [Subscriptions -> Calls]
    BY <1>2 DEF TypeOK
  <2> QED
    BY <2>1 DEF Unsubscribe, Calls
<1> HIDE DEF c
<1>7. /\ sub' \in [Subscriptions -> Calls]
      /\ \A t \in Subscriptions : Len(sub'[t].inputs) <= Capacity
      /\ sub'[s] = c /\ \A t \in Subscriptions \ {s} : sub'[t] = sub[t]
  BY <1>2, <1>4, <1>5, <1>6, Updated
<1>8. subscribers[n] \in Seq(Subscriptions) /\ OneOfEach(subscribers[n])
  BY <1>2, ChannelTypes DEF Channel, Listed
<1>9. PICK i \in 1 .. Len(subscribers[n]) :
         /\ subscribers[n][i] = s
         /\ subscribers' = [subscribers EXCEPT ![n] = RemoveAt(subscribers[n], i)]
  <2>1. DOMAIN subscribers[n] = 1 .. Len(subscribers[n])
    BY <1>8
  <2> QED
    BY <2>1 DEF Unsubscribe
<1>10. /\ RemoveAt(subscribers[n], i) \in Seq(Subscriptions)
       /\ OneOfEach(RemoveAt(subscribers[n], i))
       /\ \A x : In(x, RemoveAt(subscribers[n], i)) <=> In(x, subscribers[n]) /\ x # s
  <2>1. i \in 1 .. Len(subscribers[n])
    OBVIOUS
  <2> QED
    BY ONLY <1>8, <1>9, <2>1, Removed
<1>11. /\ subscribers' \in [Nodes -> Seq(Subscriptions)]
       /\ subscribers'[n] = RemoveAt(subscribers[n], i)
       /\ \A k \in Nodes \ {n} : subscribers'[k] = subscribers[k]
  <2>1. subscribers \in [Nodes -> Seq(Subscriptions)]
    BY <1>2 DEF TypeOK
  <2> QED
    BY <1>9, <1>10, <2>1
<1>12. TypeOK' /\ Loads'
  <2>1. TypeOK'
    BY <1>1, <1>2, <1>3, <1>7, <1>11 DEF TypeOK
  <2> QED
    BY <1>1, <1>2, <1>3, <2>1 DEF Loads
<1>13. Queued(n)'
  BY <1>2, <1>3, StillQueued DEF Channel
<1>14. Listed(n)'
  <2>1. \A t \in Subscriptions :
           In(t, subscribers'[n]) <=> Source(t) = n /\ sub'[t].call \in Listening
    BY <1>2, <1>5, <1>7, <1>10, <1>11 DEF Channel, Listed, Listening
  <2> QED
    BY <1>1, <1>10, <1>11, <2>1 DEF Listed
<1>15. Processing(n)'
  BY <1>3 DEF Processing
<1>16. OneHandler(n)'
  <2> SUFFICES ASSUME Len(subscribers'[n]) = 1, process'[n].pc = "receive"
               PROVE  /\ sub'[subscribers'[n][1]].by # "worker"
                      /\ sub'[subscribers'[n][1]].inputs = <<>>
    BY DEF OneHandler
  <2>1. PICK t \in Subscriptions : t = subscribers'[n][1] /\ In(t, subscribers'[n])
    BY <1>10, <1>11 DEF In
  <2>2. In(t, subscribers[n]) /\ t # s
    BY <1>10, <1>11, <2>1
  <2>3. sub[t].inputs = <<>> /\ sub[t].by # "worker"
    BY <1>2, <1>3, <2>2 DEF Channel, Leaving
  <2> QED
    BY <1>7, <2>1, <2>2, <2>3
<1>17. ASSUME NEW t \in Subscriptions, Source(t) = n
       PROVE  Followed(t)' /\ Handling(t)' /\ Leaving(t)'
  <2>1. Followed(t) /\ Handling(t) /\ Leaving(t) /\ Leaving(s)
    BY <1>2, <1>17 DEF Channel
  <2>2. ~Owed(t) /\ ~Owed(t)'
    BY <1>1, <1>3, <1>17 DEF Owed
  <2>3. Followed(t)'
    <3>1. /\ sub'[t].inputs = sub[t].inputs
          /\ sub'[t].call \in {"check", "add"} => sub[t].call \in {"check", "add"}
          /\ sub'[t].call \in Listening => sub[t].call \in Listening
      BY <1>5, <1>7 DEF Listening
    <3> QED
      BY <1>2, <1>3, <1>17, <2>1, <2>2, <3>1, FollowedStill DEF Channel
  <2>4. Handling(t)'
    <3>1. CASE t = s
      BY <1>3, <1>5, <1>7, <1>17, <2>1, <3>1 DEF Handling
    <3>2. CASE t # s
      BY <1>3, <1>7, <1>17, <2>1, <3>2 DEF Handling
    <3> QED
      BY <3>1, <3>2
  <2>5. Leaving(t)'
    <3> SUFFICES ASSUME sub'[t].call = "remove", process'[n].pc \in {"receive", "fanout"}
                 PROVE  FALSE
      BY <1>1, <1>17 DEF Leaving
    <3>1. t # s /\ sub'[t] = sub[t] /\ process[n].pc = "receive"
      BY <1>3, <1>5, <1>7
    <3> QED
      BY <1>3, <1>17, <2>1, <3>1 DEF Leaving
  <2> QED
    BY <2>3, <2>4, <2>5
<1>18. Channel(n)'
  BY <1>1, <1>13, <1>14, <1>15, <1>16, <1>17 DEF Channel
<1>19. \A k \in Nodes \ {n} : SameChannel(k)
  BY <1>3, <1>11 DEF SameChannel
<1>20. \A k \in Nodes : Channel(k)'
  BY <1>3, <1>7, <1>18, <1>19, OtherChannels
<1> QED
  BY <1>3, <1>12, <1>20, Together

-----------------------------------------------------------------------------
(* Steps of Process *)

LEMMA FollowsPushed ==
    ASSUME NEW M, NEW p, NEW j \in Nat, NEW h \in Seq(M), NEW x \in Seq(M), NEW m \in M,
           Follows(p, j, h, x), m = p[j + Len(h) + Len(x) + 1]
    PROVE  Follows(p, j, h, Append(x, m))
<1> PICK y : y = Append(x, m)
  OBVIOUS
<1>1. /\ y \in Seq(M) /\ Len(y) = Len(x) + 1 /\ y[Len(x) + 1] = m
      /\ \A i \in 1 .. Len(x) : y[i] = x[i]
  OBVIOUS
<1>2. Len(x) \in Nat /\ Len(h) \in Nat
  OBVIOUS
<1>3. ASSUME NEW i \in 1 .. Len(y)
      PROVE  y[i] = p[j + Len(h) + i]
  <2>1. CASE i = Len(x) + 1
    <3>1. j + Len(h) + i = j + Len(h) + Len(x) + 1
      BY <1>2, <2>1
    <3> QED
      BY <1>1, <2>1, <3>1
  <2>2. CASE i \in 1 .. Len(x)
    BY <1>1, <2>2 DEF Follows
  <2>3. i = Len(x) + 1 \/ i \in 1 .. Len(x)
    BY <1>1, <1>2
  <2> QED
    BY <2>1, <2>2, <2>3
<1> QED
  BY <1>3 DEF Follows

LEMMA TailIn ==
    ASSUME NEW S, NEW q \in Seq(S), q # <<>>
    PROVE  /\ In(Head(q), q)
           /\ \A x : In(x, q) <=> x = Head(q) \/ In(x, Tail(q))
           /\ OneOfEach(q) => OneOfEach(Tail(q)) /\ ~In(Head(q), Tail(q))
<1> PICK r : r = Tail(q)
  OBVIOUS
<1>1. /\ Len(q) \in Nat /\ Len(q) >= 1 /\ Len(r) = Len(q) - 1 /\ Head(q) = q[1]
      /\ \A i \in 1 .. Len(q) - 1 : r[i] = q[i + 1]
  BY TailOf
<1>2. ASSUME NEW i \in 1 .. Len(r)
      PROVE  i + 1 \in 1 .. Len(q) /\ i + 1 # 1 /\ r[i] = q[i + 1]
  BY <1>1
<1>3. ASSUME NEW x, In(x, q), x # q[1]
      PROVE  In(x, r)
  <2>1. PICK i \in 1 .. Len(q) : q[i] = x
    BY <1>3 DEF In
  <2>2. i - 1 \in 1 .. Len(q) - 1 /\ (i - 1) + 1 = i
    BY <1>1, <1>3, <2>1
  <2> QED
    BY <1>1, <2>1, <2>2 DEF In
<1>4. ASSUME NEW x, In(x, r)
      PROVE  In(x, q)
  BY <1>2, <1>4 DEF In
<1>5. 1 \in 1 .. Len(q)
  BY <1>1
<1>6. OneOfEach(q) => ~In(q[1], r)
  BY <1>2, <1>5 DEF OneOfEach, In
<1>7. OneOfEach(q) => OneOfEach(r)
  <2> SUFFICES ASSUME OneOfEach(q), NEW i \in 1 .. Len(r), NEW j \in 1 .. Len(r), r[i] = r[j]
               PROVE  i = j
    BY DEF OneOfEach
  <2>1. i + 1 = j + 1
    BY <1>2 DEF OneOfEach
  <2> QED
    BY <1>1, <2>1
<1> QED
  BY <1>1, <1>3, <1>4, <1>5, <1>6, <1>7 DEF In

LEMMA NextOf ==
    ASSUME TypeOK, NEW n \in Nodes, NEW pc \in {"receive", "done"}, NextSubscriber(n, pc),
           process[n].rest # <<>>
    PROVE  /\ process' \in [Nodes -> ProcessStates]
           /\ process'[n].rest = Tail(process[n].rest) /\ process'[n].msg = process[n].msg
           /\ process'[n].pc = IF Len(process[n].rest) = 1 THEN pc ELSE process[n].pc
           /\ \A k \in Nodes \ {n} : process'[k] = process[k]
<1>1. process \in [Nodes -> ProcessStates] /\ Tail(process[n].rest) \in Seq(Subscriptions)
  BY ChannelTypes, TailOf DEF TypeOK
<1> DEFINE d == [process[n] EXCEPT !.rest = Tail(process[n].rest),
                    !.pc = IF Len(process[n].rest) = 1 THEN pc ELSE process[n].pc]
<1>2. /\ d \in ProcessStates /\ d.rest = Tail(process[n].rest) /\ d.msg = process[n].msg
      /\ d.pc = IF Len(process[n].rest) = 1 THEN pc ELSE process[n].pc
  BY ONLY <1>1, n \in Nodes, pc \in {"receive", "done"} DEF ProcessStates
<1>3. process' = [process EXCEPT ![n] = d]
  BY <1>1 DEF NextSubscriber, ProcessStates
<1> HIDE DEF d
<1> QED
  BY <1>1, <1>2, <1>3

LEMMA PushStep ==
    ASSUME Inv, NEW n \in Nodes, Push(n)
    PROVE  Inv'
<1> DEFINE rest == process[n].rest
           m == process[n].msg
<1>1. /\ Nodes' = Nodes /\ Subscriptions' = Subscriptions /\ \A t : Source(t)' = Source(t)
  BY SameGraph DEF Push, Source
<1>2. TypeOK /\ Channel(n) /\ process[n].pc = "fanout"
  BY DEF Inv, Push
<1>3. /\ rest \in Seq(Subscriptions) /\ rest # <<>> /\ OneOfEach(rest) /\ m \in Messages
      /\ \A t \in Subscriptions : In(t, rest) => In(t, subscribers[n])
      /\ Len(subscribers[n]) > 1
      /\ Taken(n) > 0 /\ m = published[n][Taken(n)]
  BY <1>2, ChannelTypes DEF Channel, Processing
<1> PICK s \in Subscriptions : s = Head(rest)
  BY <1>3, TailOf
<1> DEFINE c == [sub[s] EXCEPT !.inputs = Append(sub[s].inputs, m)]
<1>4. In(s, rest) /\ Source(s) = n /\ sub[s].call \in Listening
  BY <1>2, <1>3, TailIn DEF Channel, Listed
<1>5. /\ UNCHANGED <<graph, launched, node, queue, closed, subscribers, buffer, met>>
      /\ UNCHANGED <<cancelled, sending, crashed, published, handled, joined, failed>>
      /\ ~sub[s].shut /\ Len(sub[s].inputs) < Capacity
      /\ NextSubscriber(n, "receive")
  BY DEF Push, windows, history
<1>6. sub[s] \in Calls /\ sub[s].inputs \in Seq(Messages) /\ Len(sub[s].inputs) \in Nat
  BY <1>2, CallOf, CallTypes
<1>7. /\ c \in Calls /\ c.inputs = Append(sub[s].inputs, m) /\ c.shut = sub[s].shut
      /\ c.by = sub[s].by /\ c.emit = sub[s].emit /\ c.call = sub[s].call
  <2>1. Append(sub[s].inputs, m) \in Seq(Messages)
    BY ONLY <1>3, <1>6
  <2>2. c \in Calls
    BY ONLY <1>6, <2>1 DEF Calls
  <2> QED
    BY ONLY <1>6, <2>2 DEF Calls
<1>8. Len(c.inputs) = Len(sub[s].inputs) + 1 /\ Len(c.inputs) <= Capacity
  <2>1. Len(c.inputs) = Len(sub[s].inputs) + 1
    BY ONLY <1>3, <1>6, <1>7
  <2> QED
    BY <1>5, <1>6, <2>1, CapacityAssumption
<1>9. sub' = [sub EXCEPT ![s] = c]
  <2>1. sub \in [Subscriptions -> Calls]
    BY <1>2 DEF TypeOK
  <2> QED
    BY <2>1 DEF Push, Calls
<1> HIDE DEF c
<1>10. sub'[s] = c /\ \A t \in Subscriptions \ {s} : sub'[t] = sub[t]
  BY <1>2, <1>7, <1>8, <1>9, Updated
<1>11. /\ process' \in [Nodes -> ProcessStates]
       /\ process'[n].rest = Tail(rest) /\ process'[n].msg = m
       /\ process'[n].pc = IF Len(rest) = 1 THEN "receive" ELSE "fanout"
       /\ \A k \in Nodes \ {n} : process'[k] = process[k]
  BY <1>2, <1>3, <1>5, NextOf
<1>12. /\ Len(rest) # 1 => Tail(rest) # <<>>
       /\ Len(rest) = 1 => Tail(rest) = <<>>
       /\ OneOfEach(Tail(rest)) /\ ~In(s, Tail(rest))
       /\ \A x : In(x, rest) <=> x = s \/ In(x, Tail(rest))
  BY <1>3, TailOf, TailIn
<1>13. Queued(n)' /\ Taken(n)' = Taken(n) /\ Taken(n) \in Nat
  BY <1>2, <1>5, StillQueued DEF Channel
<1>14. Listed(n)'
  <2>1. Listed(n)
    BY <1>2 DEF Channel
  <2>2. \A t \in Subscriptions : sub'[t].call = sub[t].call
    BY <1>7, <1>10
  <2> QED
    BY ONLY <1>1, <1>5, <2>1, <2>2 DEF Listed, OneOfEach, In
<1>15. Processing(n)'
  BY <1>1, <1>3, <1>5, <1>11, <1>12, <1>13 DEF Processing
<1>16. OneHandler(n)'
  BY <1>3, <1>5 DEF OneHandler
<1>17. ASSUME NEW t \in Subscriptions, Source(t) = n
       PROVE  Followed(t)' /\ Handling(t)' /\ Leaving(t)'
  <2>1. Followed(t) /\ Handling(t) /\ Leaving(t)
    BY <1>2, <1>17 DEF Channel
  <2>2. Owed(t) <=> In(t, rest)
    BY <1>2, <1>17 DEF Owed
  <2>3. Owed(t)' <=> In(t, Tail(rest))
    <3>1. Owed(t)' <=> process'[n].pc = "fanout" /\ In(t, process'[n].rest)
      BY <1>1, <1>17 DEF Owed
    <3>2. ~In(t, <<>>)
      BY DEF In
    <3> QED
      BY <1>11, <1>12, <3>1, <3>2
  <2>4. Followed(t)'
    <3>1. CASE t # s
      <4>1. sub'[t] = sub[t] /\ (Owed(t)' <=> Owed(t))
        BY <1>10, <1>12, <2>2, <2>3, <3>1
      <4> QED
        BY <1>2, <1>5, <1>17, <2>1, <3>1, <4>1, FollowedStill DEF Channel
    <3>2. CASE t = s
      <4> DEFINE h == handled[s]
                 x == sub[s].inputs
                 j == joined[s]
      <4>1. Owed(s) /\ ~Owed(s)'
        BY <1>4, <1>12, <2>2, <2>3, <3>2
      <4>2. /\ j \in Nat /\ h \in Seq(Messages)
            /\ j + Len(h) + Len(x) + 1 = Taken(n)
            /\ Follows(published[n], j, h, x)
        BY <1>2, <1>4, <2>1, <3>2, <4>1, CallTypes DEF Followed
      <4>3. Follows(published[n], j, h, Append(x, m))
        <5>1. m = published[n][j + Len(h) + Len(x) + 1]
          BY <1>3, <4>2
        <5> QED
          BY ONLY <1>3, <1>6, <4>2, <5>1, FollowsPushed
      <4>4. /\ sub'[s].inputs = Append(x, m) /\ sub'[s].call = sub[s].call
            /\ handled'[s] = h /\ joined'[s] = j /\ published'[n] = published[n]
            /\ Len(sub'[s].inputs) = Len(x) + 1 /\ Source(s)' = n
            /\ Taken(Source(s))' = Taken(n)
        BY <1>1, <1>4, <1>5, <1>7, <1>8, <1>10, <1>13 DEF Taken
      <4>5. Len(h) \in Nat /\ j + Len(h) + (Len(x) + 1) = Taken(n)
        <5>1. Len(h) \in Nat
          BY ONLY <4>2
        <5>2. PICK a \in Nat, b \in Nat : a = Len(h) /\ b = Len(x)
          BY ONLY <1>6, <5>1
        <5>3. j \in Nat /\ j + a + b + 1 = Taken(n)
          BY ONLY <4>2, <5>2
        <5>4. j + a + (b + 1) = j + a + b + 1
          BY <5>3
        <5> QED
          BY ONLY <5>1, <5>2, <5>3, <5>4
      <4> HIDE DEF h, x, j
      <4>6. Followed(s)'
        BY ONLY <1>4, <1>13, <4>1, <4>2, <4>3, <4>4, <4>5 DEF Followed, Listening
      <4> QED
        BY <3>2, <4>6
    <3> QED
      BY <3>1, <3>2
  <2>5. Handling(t)'
    <3>1. /\ sub'[t].call = sub[t].call /\ sub'[t].by = sub[t].by
          /\ sub'[t].emit = sub[t].emit /\ sub'[t].shut = sub[t].shut
      BY <1>7, <1>10
    <3> QED
      BY <1>2, <1>17, <2>1, <3>1 DEF Handling
  <2>6. Leaving(t)'
    <3> SUFFICES ASSUME sub'[t].call = "remove"
                 PROVE  FALSE
      BY DEF Leaving
    <3>1. sub[t].call = "remove"
      BY <1>7, <1>10
    <3>2. t = subscribers[n][1] /\ sub[t].shut /\ rest = subscribers[n]
      BY <1>2, <1>17, <2>1, <3>1 DEF Leaving
    <3>3. Head(rest) = rest[1]
      BY <1>3, TailOf
    <3> QED
      BY <1>5, <3>2, <3>3
  <2> QED
    BY <2>4, <2>5, <2>6
<1>18. Channel(n)'
  BY <1>1, <1>13, <1>14, <1>15, <1>16, <1>17 DEF Channel
<1>19. \A k \in Nodes \ {n} : SameChannel(k)
  BY <1>5, <1>11 DEF SameChannel
<1>20. \A k \in Nodes : Channel(k)'
  BY <1>4, <1>5, <1>10, <1>18, <1>19, OtherChannels
<1>21. failed' \in BOOLEAN /\ handled' \in [Subscriptions -> Seq(Messages)]
  BY <1>2, <1>5 DEF TypeOK
<1>22. TypeOK' /\ Loads'
  BY <1>5, <1>7, <1>8, <1>9, <1>11, <1>21, SubscriptionTypes
<1> QED
  BY <1>5, <1>20, <1>22, Together

\* Process begins to close the subscribers, or goes on with it.
LEMMA ClosingChannel ==
    ASSUME Inv, NEW n \in Nodes,
           UNCHANGED <<graph, queue, published, subscribers, handled, joined>>,
           process[n].pc \in {"receive", "closing"}, process'[n].pc \in {"closing", "done"},
           process'[n].pc = "closing" =>
              /\ process'[n].rest # <<>>
              /\ \A t \in Subscriptions : In(t, process'[n].rest) => In(t, subscribers[n]),
           \A t \in Subscriptions : Source(t) = n =>
              /\ sub[t].by # "process"
              /\ sub'[t].by = sub[t].by /\ sub'[t].emit = sub[t].emit
              /\ sub'[t].inputs = sub[t].inputs /\ sub'[t].shut = sub[t].shut
              /\ \/ sub'[t].call = sub[t].call
                 \/ sub[t].call = "wait" /\ sub'[t].call = "remove"
    PROVE  Channel(n)'
<1>1. Nodes' = Nodes /\ Subscriptions' = Subscriptions /\ \A t : Source(t)' = Source(t)
  BY SameGraph DEF Source
<1>2. TypeOK /\ Channel(n)
  BY DEF Inv
<1>3. Queued(n)'
  BY <1>2, StillQueued DEF Channel
<1>4. Listed(n)'
  <2>1. Listed(n) /\ subscribers' = subscribers
    BY <1>2 DEF Channel
  <2>2. \A t \in Subscriptions :
           Source(t) = n => (sub'[t].call \in Listening <=> sub[t].call \in Listening)
    BY DEF Listening
  <2> QED
    BY ONLY <1>1, <2>1, <2>2 DEF Listed, OneOfEach, In
<1>5. Processing(n)'
  BY <1>1 DEF Processing
<1>6. OneHandler(n)'
  BY DEF OneHandler
<1>7. ASSUME NEW t \in Subscriptions, Source(t) = n
      PROVE  Followed(t)' /\ Handling(t)' /\ Leaving(t)'
  <2>1. Followed(t) /\ Handling(t)
    BY <1>2, <1>7 DEF Channel
  <2>2. ~Owed(t) /\ ~Owed(t)'
    BY <1>1, <1>7 DEF Owed
  <2>3. /\ sub'[t].call \in {"check", "add"} => sub[t].call \in {"check", "add"}
        /\ sub'[t].call \in Listening => sub[t].call \in Listening
    BY <1>7 DEF Listening
  <2>4. Followed(t)'
    BY <1>2, <1>7, <2>1, <2>2, <2>3, FollowedStill DEF Channel
  <2>5. Handling(t)'
    BY <1>7, <2>1, <2>3 DEF Handling
  <2>6. Leaving(t)'
    BY <1>1, <1>7 DEF Leaving
  <2> QED
    BY <2>4, <2>5, <2>6
<1> QED
  BY <1>1, <1>3, <1>4, <1>5, <1>6, <1>7 DEF Channel

LEMMA DrainStep ==
    ASSUME Inv, NEW n \in Nodes, Drain(n)
    PROVE  Inv'
<1>1. /\ Nodes' = Nodes /\ Subscriptions' = Subscriptions /\ Messages' = Messages
      /\ ProcessStates' = ProcessStates /\ Calls' = Calls /\ Publishers' = Publishers
      /\ Buffers' = Buffers /\ Triggers' = Triggers
  BY SameGraph DEF Drain
<1>2. TypeOK /\ Loads
  BY DEF Inv
<1>3. /\ UNCHANGED <<graph, launched, node, queue, closed, subscribers, sub, buffer, met>>
      /\ UNCHANGED <<cancelled, sending, crashed, published, handled, joined, failed>>
      /\ process[n].pc = "receive"
      /\ \A t \in Subscriptions : Source(t) = n => sub[t].by # "process"
  BY DEF Drain, Unlocked, windows, history
<1>4. process \in [Nodes -> ProcessStates] /\ subscribers[n] \in Seq(Subscriptions)
  BY <1>2, ChannelTypes DEF TypeOK
<1> DEFINE pc == IF subscribers[n] = <<>> THEN "done" ELSE "closing"
           d == [process[n] EXCEPT !.pc = pc, !.rest = subscribers[n]]
<1>5. d \in ProcessStates /\ d.pc = pc /\ d.rest = subscribers[n]
  BY ONLY <1>4, n \in Nodes DEF ProcessStates
<1>6. process' = [process EXCEPT ![n] = d]
  BY <1>4 DEF Drain, ProcessStates
<1> HIDE DEF d
<1>7. /\ process' \in [Nodes -> ProcessStates] /\ process'[n] = d
      /\ \A k \in Nodes \ {n} : process'[k] = process[k]
  BY <1>4, <1>5, <1>6
<1>8. Channel(n)'
  BY <1>3, <1>5, <1>7, ClosingChannel
<1>9. \A k \in Nodes \ {n} : SameChannel(k)
  BY <1>3, <1>7 DEF SameChannel
<1>10. \A k \in Nodes : Channel(k)'
  BY <1>3, <1>8, <1>9, OtherChannels
<1>11. TypeOK'
  BY <1>1, <1>2, <1>3, <1>7 DEF TypeOK
<1>12. Loads'
  BY <1>1, <1>2, <1>3 DEF Loads
<1> QED
  BY <1>3, <1>10, <1>11, <1>12, Together

LEMMA ShutStep ==
    ASSUME Inv, NEW n \in Nodes, Shut(n)
    PROVE  Inv'
<1> DEFINE rest == process[n].rest
<1>1. TypeOK /\ Loads /\ Channel(n) /\ process[n].pc = "closing"
  BY DEF Inv, Shut
<1>2. /\ rest \in Seq(Subscriptions) /\ rest # <<>>
      /\ \A t \in Subscriptions : In(t, rest) => In(t, subscribers[n])
  BY <1>1, ChannelTypes DEF Channel, Processing
<1> PICK s \in Subscriptions : s = Head(rest)
  BY <1>2, TailOf
<1>3. Source(s) = n /\ sub[s].call \in Listening
  BY <1>1, <1>2, TailIn DEF Channel, Listed
<1>4. /\ UNCHANGED <<graph, launched, node, queue, closed, subscribers, buffer, met>>
      /\ UNCHANGED <<cancelled, sending, crashed, published, handled, joined, failed>>
  BY DEF Shut, windows, history
<1>5. failed' \in BOOLEAN
  BY <1>1, <1>4 DEF TypeOK
<1>6. CASE sub' = [sub EXCEPT ![s].shut = TRUE] /\ UNCHANGED process
  <2> DEFINE c == [sub[s] EXCEPT !.shut = TRUE]
  <2>1. sub[s] \in Calls /\ Len(sub[s].inputs) <= Capacity
    BY <1>1, CallOf
  <2>2. /\ c \in Calls /\ c.inputs = sub[s].inputs /\ c.shut
        /\ c.by = sub[s].by /\ c.emit = sub[s].emit /\ c.call = sub[s].call
    BY ONLY <2>1 DEF Calls
  <2>3. sub' = [sub EXCEPT ![s] = c]
    BY <1>1, <1>6 DEF TypeOK, Calls
  <2> HIDE DEF c
  <2>4. sub'[s] = c
    BY <1>1, <2>3, CallOf
  <2>5. SameCall(s)
    BY <1>1, <1>3, <1>4, <2>2, <2>4 DEF SameCall, Listening, Channel, Handling
  <2> QED
    BY <1>4, <1>5, <1>6, <2>1, <2>2, <2>3, <2>5, QuietCall
<1>7. CASE NextSubscriber(n, "done") /\ UNCHANGED sub
  <2>1. /\ process' \in [Nodes -> ProcessStates] /\ process'[n].rest = Tail(rest)
        /\ process'[n].pc = IF Len(rest) = 1 THEN "done" ELSE "closing"
        /\ \A k \in Nodes \ {n} : process'[k] = process[k]
    BY <1>1, <1>2, <1>7, NextOf
  <2>2. /\ Len(rest) # 1 => Tail(rest) # <<>>
        /\ \A x : In(x, Tail(rest)) => In(x, rest)
    BY <1>2, TailOf, TailIn
  <2>3. \A t \in Subscriptions : Source(t) = n => sub[t].by # "process"
    BY <1>1 DEF Channel, Handling
  <2>4. Channel(n)'
    BY <1>1, <1>2, <1>4, <1>7, <2>1, <2>2, <2>3, ClosingChannel
  <2>5. \A k \in Nodes \ {n} : SameChannel(k)
    BY <1>4, <2>1 DEF SameChannel
  <2>6. \A k \in Nodes : Channel(k)'
    BY <1>4, <1>7, <2>4, <2>5, OtherChannels
  <2>7. /\ Nodes' = Nodes /\ Subscriptions' = Subscriptions /\ Messages' = Messages
        /\ ProcessStates' = ProcessStates /\ Calls' = Calls /\ Publishers' = Publishers
        /\ Buffers' = Buffers /\ Triggers' = Triggers
    BY <1>4, SameGraph
  <2>8. TypeOK'
    BY <1>1, <1>4, <1>7, <2>1, <2>7 DEF TypeOK
  <2>9. Loads'
    BY <1>1, <1>4, <2>7 DEF Loads
  <2> QED
    BY <1>4, <2>6, <2>8, <2>9, Together
<1> QED
  BY <1>6, <1>7 DEF Shut

LEMMA SettleStep ==
    ASSUME Inv, NEW n \in Nodes, Settle(n)
    PROVE  Inv'
<1> DEFINE rest == process[n].rest
           err == process[n].pc = "settle"
<1>1. TypeOK /\ Loads /\ Channel(n) /\ process[n].pc \in {"closing", "settle"}
  BY DEF Inv, Settle
<1>2. /\ rest \in Seq(Subscriptions) /\ rest # <<>>
      /\ \A t \in Subscriptions : In(t, rest) => In(t, subscribers[n])
  <2>1. CASE process[n].pc = "closing"
    BY <1>1, <2>1, ChannelTypes DEF Channel, Processing
  <2>2. CASE process[n].pc = "settle"
    <3>1. PICK t \in Subscriptions : rest = <<t>> /\ subscribers[n] = <<t>>
      BY <1>1, <2>2 DEF Channel, Processing
    <3> QED
      BY <1>1, <3>1, ChannelTypes
  <2> QED
    BY <1>1, <2>1, <2>2
<1> PICK s \in Subscriptions : s = Head(rest)
  BY <1>2, TailOf
<1>3. Source(s) = n
  BY <1>1, <1>2, TailIn DEF Channel, Listed
<1>4. /\ UNCHANGED <<graph, launched, node, queue, closed, subscribers, buffer, met>>
      /\ UNCHANGED <<cancelled, sending, crashed, published, handled, joined, failed>>
      /\ sub[s].call = "wait" /\ sub[s].shut
      /\ NextSubscriber(n, IF err THEN "receive" ELSE "done")
  BY DEF Settle, windows, history
<1> DEFINE c == [sub[s] EXCEPT !.call = "remove", !.result = IF err THEN "error" ELSE "nil"]
<1>5. sub[s] \in Calls /\ Len(sub[s].inputs) <= Capacity
  BY <1>1, CallOf
<1>6. /\ c \in Calls /\ c.inputs = sub[s].inputs /\ c.shut = sub[s].shut
      /\ c.by = sub[s].by /\ c.emit = sub[s].emit /\ c.call = "remove"
  BY ONLY <1>5 DEF Calls
<1>7. sub' = [sub EXCEPT ![s] = c]
  <2>1. sub \in [Subscriptions -> Calls]
    BY <1>1 DEF TypeOK
  <2> QED
    BY <2>1 DEF Settle, Calls
<1> HIDE DEF c
<1>8. sub'[s] = c /\ \A t \in Subscriptions \ {s} : sub'[t] = sub[t]
  BY <1>1, <1>5, <1>6, <1>7, Updated
<1>9. /\ process' \in [Nodes -> ProcessStates] /\ process'[n].rest = Tail(rest)
      /\ process'[n].pc = IF Len(rest) = 1 THEN (IF err THEN "receive" ELSE "done")
                          ELSE process[n].pc
      /\ \A k \in Nodes \ {n} : process'[k] = process[k]
  BY <1>1, <1>2, <1>4, NextOf
<1>10. Channel(n)'
  <2>1. CASE process[n].pc = "closing"
    <3>1. /\ Len(rest) # 1 => Tail(rest) # <<>>
          /\ \A x : In(x, Tail(rest)) => In(x, rest)
      BY <1>2, TailOf, TailIn
    <3>2. \A t \in Subscriptions : Source(t) = n => sub[t].by # "process"
      BY <1>1, <2>1 DEF Channel, Handling
    <3>3. \A t \in Subscriptions :
             /\ sub'[t].by = sub[t].by /\ sub'[t].emit = sub[t].emit
             /\ sub'[t].inputs = sub[t].inputs /\ sub'[t].shut = sub[t].shut
             /\ \/ sub'[t].call = sub[t].call
                \/ sub[t].call = "wait" /\ sub'[t].call = "remove"
      BY <1>4, <1>6, <1>8
    <3> QED
      BY <1>2, <1>4, <1>9, <2>1, <3>1, <3>2, <3>3, ClosingChannel
  <2>2. CASE process[n].pc = "settle"
    <3>1. /\ rest = <<s>> /\ subscribers[n] = <<s>>
          /\ sub[s].inputs = <<>> /\ sub[s].by = "none"
      BY <1>1, <2>2 DEF Channel, Processing
    <3>2. process'[n].pc = "receive"
      BY <1>9, <2>2, <3>1
    <3>3. Nodes' = Nodes /\ Subscriptions' = Subscriptions /\ \A t : Source(t)' = Source(t)
      BY <1>4, SameGraph DEF Source
    <3>4. Queued(n)'
      BY <1>1, <1>4, StillQueued DEF Channel
    <3>5. Listed(n)'
      <4>1. Listed(n)
        BY <1>1 DEF Channel
      <4>2. \A t \in Subscriptions : sub'[t].call \in Listening <=> sub[t].call \in Listening
        BY <1>4, <1>6, <1>8 DEF Listening
      <4> QED
        BY ONLY <1>4, <3>3, <4>1, <4>2 DEF Listed, OneOfEach, In
    <3>6. Processing(n)'
      BY <3>2 DEF Processing
    <3>7. OneHandler(n)'
      BY <1>4, <1>6, <1>8, <3>1 DEF OneHandler
    <3>8. ASSUME NEW t \in Subscriptions, Source(t) = n
          PROVE  Followed(t)' /\ Handling(t)' /\ Leaving(t)'
      <4>1. Followed(t) /\ Handling(t)
        BY <1>1, <3>8 DEF Channel
      <4>2. ~Owed(t) /\ ~Owed(t)'
        BY <2>2, <3>2, <3>3, <3>8 DEF Owed
      <4>3. Followed(t)'
        <5>1. /\ sub'[t].call \in {"check", "add"} => sub[t].call \in {"check", "add"}
              /\ sub'[t].call \in Listening => sub[t].call \in Listening
              /\ sub'[t].inputs = sub[t].inputs
          BY <1>4, <1>6, <1>8 DEF Listening
        <5> QED
          BY <1>1, <1>4, <3>8, <4>1, <4>2, <5>1, FollowedStill DEF Channel
      <4>4. Handling(t)'
        <5>1. CASE t = s
          BY <1>6, <1>8, <3>1, <5>1 DEF Handling
        <5>2. CASE t # s
          BY <1>8, <2>2, <3>8, <4>1, <5>2 DEF Handling
        <5> QED
          BY <5>1, <5>2
      <4>5. Leaving(t)'
        <5>1. \A u \in Subscriptions : In(u, subscribers[n]) <=> u = s
          BY <3>1 DEF In
        <5> SUFFICES ASSUME sub'[t].call = "remove"
                     PROVE  Leaving(t)'
          BY DEF Leaving
        <5>2. t = s
          <6>1. t # s => sub[t].call = "remove"
            BY <1>8
          <6> QED
            BY <1>1, <3>8, <5>1, <6>1 DEF Channel, Listed, Listening
        <5>3. /\ subscribers'[n] # <<>> /\ subscribers'[n][1] = s /\ sub'[s].shut
              /\ sub'[s].inputs = <<>> /\ sub'[s].by = "none"
          <6>1. subscribers'[n] = <<s>>
            BY <1>4, <3>1
          <6>2. sub'[s].shut /\ sub'[s].inputs = <<>> /\ sub'[s].by = "none"
            BY <1>4, <1>6, <1>8, <3>1
          <6> QED
            BY ONLY <6>1, <6>2
        <5> QED
          BY <1>3, <1>4, <3>2, <3>3, <5>1, <5>2, <5>3 DEF Leaving
      <4> QED
        BY <4>3, <4>4, <4>5
    <3> QED
      BY <3>3, <3>4, <3>5, <3>6, <3>7, <3>8 DEF Channel
  <2> QED
    BY <1>1, <2>1, <2>2
<1>11. \A k \in Nodes \ {n} : SameChannel(k)
  BY <1>4, <1>9 DEF SameChannel
<1>12. \A k \in Nodes : Channel(k)'
  BY <1>3, <1>4, <1>8, <1>10, <1>11, OtherChannels
<1>13. failed' \in BOOLEAN /\ handled' \in [Subscriptions -> Seq(Messages)]
  BY <1>1, <1>4 DEF TypeOK
<1>14. TypeOK' /\ Loads'
  BY <1>4, <1>5, <1>6, <1>7, <1>9, <1>13, SubscriptionTypes
<1> QED
  BY <1>4, <1>12, <1>14, Together

-----------------------------------------------------------------------------
(* Handlers *)

LEMMA FlushTypes ==
    ASSUME TypeOK, NEW n, NEW x, x.b \in Buffers, x.t \in Triggers, NEW o \in Flush(n, x)
    PROVE  o.emit \in Seq(Messages) /\ o.b \in Buffers /\ o.t \in Triggers
<1> DEFINE D == Due(n, x)
<1>1. D \in SUBSET Windows
  BY DEF Due
<1>2. Cardinality(D) \in Nat
  BY <1>1, WindowsAssumption, FS_Subset, FS_CardinalityType
<1>3. PICK ws \in SetToSeqs(D) :
         o = [emit |-> [k \in DOMAIN ws |-> Group(ws[k], x.b[ws[k]])],
              b |-> [w \in Windows |-> IF w \in D THEN NoItems ELSE x.b[w]],
              t |-> [w \in Windows |-> IF w \in D THEN {} ELSE x.t[w]]]
  BY DEF Flush
<1> HIDE DEF D
<1>4. ws \in [1 .. Cardinality(D) -> D]
  BY DEF SetToSeqs
<1>5. ASSUME NEW k \in 1 .. Cardinality(D)
      PROVE  Group(ws[k], x.b[ws[k]]) \in Messages
  <2>1. ws[k] \in Windows /\ x.b[ws[k]].ids \in Seq(Ids)
    BY <1>1, <1>4 DEF Buffers
  <2> QED
    BY <2>1, GroupType
<1>6. o.emit = [k \in 1 .. Cardinality(D) |-> Group(ws[k], x.b[ws[k]])]
  BY <1>3, <1>4
<1>7. o.emit \in Seq(Messages)
  BY <1>2, <1>5, <1>6
<1>8. o.b \in Buffers
  BY <1>3, NoItemsType DEF Buffers
<1>9. o.t \in Triggers
  BY <1>3 DEF Triggers
<1> QED
  BY <1>7, <1>8, <1>9

LEMMA OutcomeTypes ==
    ASSUME TypeOK, NEW n \in Nodes, NEW m \in Messages, NEW o \in Outcomes(n, m)
    PROVE  o.emit \in Seq(Messages) /\ o.b \in Buffers /\ o.t \in Triggers
<1>1. buffer[n] \in Buffers /\ met[n] \in Triggers
  BY DEF TypeOK
<1>2. CASE graph[n].kind # "window"
  <2>1. o = [emit |-> <<m>>, b |-> buffer[n], t |-> met[n]]
    BY <1>2 DEF Outcomes
  <2>2. <<m>> \in Seq(Messages)
    OBVIOUS
  <2> QED
    BY <1>1, <2>1, <2>2
<1>3. CASE graph[n].kind = "window" /\ ~IsWatermark(m)
  <2> DEFINE x == Appended(n, m)
             items == [items |-> buffer[n][m.at].items + 1, ids |-> buffer[n][m.at].ids \o m.ids]
  <2>1. m.at \in Windows /\ m.ids \in Seq(Ids)
    BY <1>3 DEF Messages, IsWatermark
  <2>2. items \in [items : Nat, ids : Seq(Ids)]
    <3>1. buffer[n][m.at].items \in Nat /\ buffer[n][m.at].ids \in Seq(Ids)
      BY <1>1, <2>1 DEF Buffers
    <3>2. buffer[n][m.at].ids \o m.ids \in Seq(Ids)
      BY ONLY <2>1, <3>1
    <3> QED
      BY <3>1, <3>2
  <2>3. x.b \in Buffers
    <3>1. x.b = [buffer[n] EXCEPT ![m.at] = items]
      BY DEF Appended
    <3> QED
      BY ONLY <1>1, <2>1, <2>2, <3>1 DEF Buffers
  <2>4. x.t \in Triggers
    BY <1>1, <2>1 DEF Appended, Triggers
  <2>5. o \in Flush(n, x)
    BY <1>3 DEF Outcomes
  <2> QED
    BY <2>3, <2>4, <2>5, FlushTypes
<1>4. CASE graph[n].kind = "window" /\ IsWatermark(m)
  <2> DEFINE x == Signalled(n)
  <2>1. x.b \in Buffers
    BY <1>1 DEF Signalled
  <2>2. x.t \in Triggers
    BY <1>1 DEF Signalled, Triggers
  <2>3. PICK f \in Flush(n, x) : o = [f EXCEPT !.emit = Append(@, Watermark)]
    BY <1>4 DEF Outcomes
  <2>4. f.emit \in Seq(Messages) /\ f.b \in Buffers /\ f.t \in Triggers
    BY <2>1, <2>2, FlushTypes
  <2>5. Watermark \in Messages
    BY DEF Messages
  <2>6. f = [emit |-> f.emit, b |-> f.b, t |-> f.t]
    <3>1. PICK e, b, t : f = [emit |-> e, b |-> b, t |-> t]
      BY DEF Flush
    <3> QED
      BY ONLY <3>1
  <2>7. /\ o.emit = Append(f.emit, Watermark) /\ o.b = f.b /\ o.t = f.t
    BY ONLY <2>3, <2>6
  <2> QED
    BY <2>4, <2>5, <2>7
<1> QED
  BY <1>2, <1>3, <1>4

LEMMA FollowsHandled ==
    ASSUME NEW M, NEW p, NEW j \in Nat, NEW h \in Seq(M), NEW x \in Seq(M),
           Follows(p, j, h, x), x # <<>>
    PROVE  /\ Follows(p, j, Append(h, Head(x)), Tail(x))
           /\ Len(Append(h, Head(x))) + Len(Tail(x)) = Len(h) + Len(x)
<1> PICK g : g = Append(h, Head(x))
  OBVIOUS
<1> PICK y : y = Tail(x)
  OBVIOUS
<1>1. /\ Len(x) \in Nat /\ Len(x) >= 1 /\ Len(y) = Len(x) - 1 /\ Head(x) = x[1]
      /\ \A i \in 1 .. Len(x) - 1 : y[i] = x[i + 1]
  BY TailOf
<1>2. /\ Len(h) \in Nat /\ Len(g) = Len(h) + 1 /\ g[Len(h) + 1] = Head(x)
      /\ \A i \in 1 .. Len(h) : g[i] = h[i]
  BY TailOf
<1>3. ASSUME NEW i \in 1 .. Len(g)
      PROVE  g[i] = p[j + i]
  <2>1. CASE i = Len(h) + 1
    <3>1. x[1] = p[j + Len(h) + 1]
      BY <1>1 DEF Follows
    <3>2. j + i = j + Len(h) + 1
      BY <1>2, <2>1
    <3> QED
      BY <1>1, <1>2, <2>1, <3>1, <3>2
  <2>2. CASE i \in 1 .. Len(h)
    BY <1>2, <2>2 DEF Follows
  <2>3. i = Len(h) + 1 \/ i \in 1 .. Len(h)
    BY <1>2
  <2> QED
    BY <2>1, <2>2, <2>3
<1>4. ASSUME NEW i \in 1 .. Len(y)
      PROVE  y[i] = p[j + Len(g) + i]
  <2>1. i + 1 \in 1 .. Len(x) /\ y[i] = x[i + 1]
    BY <1>1
  <2>2. x[i + 1] = p[j + Len(h) + (i + 1)]
    BY <2>1 DEF Follows
  <2>3. j + Len(h) + (i + 1) = j + Len(g) + i
    BY <1>1, <1>2
  <2> QED
    BY <2>1, <2>2, <2>3
<1>5. Len(g) + Len(y) = Len(h) + Len(x)
  BY <1>1, <1>2
<1> QED
  BY <1>3, <1>4, <1>5 DEF Follows

LEMMA FollowsDirect ==
    ASSUME NEW M, NEW p, NEW j \in Nat, NEW h \in Seq(M), NEW m \in M,
           Follows(p, j, h, <<>>), m = p[j + Len(h) + 1]
    PROVE  Follows(p, j, Append(h, m), <<>>) /\ Len(Append(h, m)) = Len(h) + 1
<1> PICK g : g = Append(h, m)
  OBVIOUS
<1>1. /\ Len(h) \in Nat /\ Len(g) = Len(h) + 1 /\ g[Len(h) + 1] = m
      /\ \A i \in 1 .. Len(h) : g[i] = h[i]
  OBVIOUS
<1>2. ASSUME NEW i \in 1 .. Len(g)
      PROVE  g[i] = p[j + i]
  <2>1. CASE i = Len(h) + 1
    <3>1. j + i = j + Len(h) + 1
      BY <1>1, <2>1
    <3> QED
      BY <1>1, <2>1, <3>1
  <2>2. CASE i \in 1 .. Len(h)
    BY <1>1, <2>2 DEF Follows
  <2>3. i = Len(h) + 1 \/ i \in 1 .. Len(h)
    BY <1>1
  <2> QED
    BY <2>1, <2>2, <2>3
<1>3. Len(<<>>) = 0
  OBVIOUS
<1> QED
  BY <1>1, <1>2, <1>3 DEF Follows

\* A worker calls its handler.
LEMMA WorkChannel ==
    ASSUME Inv, NEW n \in Nodes, NEW s \in Subscriptions, Source(s) = n,
           sub[s].inputs # <<>>, sub[s].by # "worker",
           UNCHANGED <<graph, queue, process, subscribers, published, joined>>,
           handled'[s] = Append(handled[s], Head(sub[s].inputs)),
           \A t \in Subscriptions \ {s} : sub'[t] = sub[t] /\ handled'[t] = handled[t],
           sub'[s].call = sub[s].call, sub[s].shut => sub'[s].shut,
           sub'[s].inputs = Tail(sub[s].inputs),
           sub'[s].by \in {"none", "worker"}, sub'[s].by # "none" => sub'[s].emit # <<>>
    PROVE  Channel(n)'
<1>1. Nodes' = Nodes /\ Subscriptions' = Subscriptions /\ \A t : Source(t)' = Source(t)
  BY SameGraph DEF Source
<1>2. TypeOK /\ Channel(n)
  BY DEF Inv
<1>3. subscribers[n] \in Seq(Subscriptions)
  BY <1>2, ChannelTypes
<1>4. joined[s] \in Nat /\ sub[s].call \notin {"check", "add"}
  BY <1>2, CallTypes DEF Channel, Followed
<1>5. ~(Len(subscribers[n]) = 1 /\ process[n].pc = "receive" /\ subscribers[n][1] = s)
  BY <1>2 DEF Channel, OneHandler
<1>6. Queued(n)' /\ Taken(n)' = Taken(n)
  BY <1>2, StillQueued DEF Channel
<1>7. Listed(n)'
  <2>1. Listed(n) /\ subscribers' = subscribers
    BY <1>2 DEF Channel
  <2>2. \A t \in Subscriptions : sub'[t].call = sub[t].call
    OBVIOUS
  <2> QED
    BY ONLY <1>1, <2>1, <2>2 DEF Listed, OneOfEach, In
<1>8. Processing(n)'
  <2>1. Processing(n) /\ process' = process /\ subscribers' = subscribers
        /\ published' = published
    BY <1>2 DEF Channel
  <2>2. process[n].pc \in {"fanout", "closing"} => Processing(n)'
    BY ONLY <1>1, <1>6, <2>1 DEF Processing
  <2>3. ASSUME process[n].pc = "settle"
        PROVE  Processing(n)'
    <3>1. PICK t \in Subscriptions :
             /\ process[n].rest = <<t>> /\ subscribers[n] = <<t>>
             /\ sub[t].call = "wait" /\ sub[t].shut
             /\ sub[t].inputs = <<>> /\ sub[t].by = "none"
      BY <2>1, <2>3 DEF Processing
    <3>2. sub'[t] = sub[t]
      BY <3>1
    <3> QED
      BY ONLY <1>1, <2>1, <2>3, <3>1, <3>2, t \in Subscriptions DEF Processing
  <2> QED
    BY <2>1, <2>2, <2>3 DEF Processing
<1>9. OneHandler(n)'
  <2>1. Len(subscribers[n]) = 1 => subscribers[n][1] \in Subscriptions
    BY <1>3
  <2> QED
    BY <1>2, <1>5, <2>1 DEF Channel, OneHandler
<1>10. ASSUME NEW t \in Subscriptions, Source(t) = n
       PROVE  Followed(t)' /\ Handling(t)' /\ Leaving(t)'
  <2>1. Followed(t) /\ Handling(t) /\ Leaving(t)
    BY <1>2, <1>10 DEF Channel
  <2>2. Owed(t)' <=> Owed(t)
    BY <1>1, <1>10 DEF Owed
  <2>3. Followed(t)'
    <3>1. CASE t # s
      BY <1>2, <1>10, <2>1, <2>2, <3>1, FollowedStill DEF Channel
    <3>2. CASE t = s
      <4> PICK h, x, j : h = handled[s] /\ x = sub[s].inputs /\ j = joined[s]
        OBVIOUS
      <4>1. /\ j \in Nat /\ h \in Seq(Messages) /\ x \in Seq(Messages) /\ x # <<>>
            /\ Follows(published[n], j, h, x) /\ j + Len(h) + Len(x) <= Taken(n)
            /\ sub[s].call \in Listening =>
                  j + Len(h) + Len(x) + (IF Owed(s) THEN 1 ELSE 0) = Taken(n)
        BY <1>2, <1>4, <1>10, <2>1, <3>2, CallTypes DEF Followed
      <4> PICK g, y : g = Append(h, Head(x)) /\ y = Tail(x)
        OBVIOUS
      <4>2. /\ Follows(published[n], j, g, y) /\ Len(g) + Len(y) = Len(h) + Len(x)
        <5>1. /\ Follows(published[n], j, Append(h, Head(x)), Tail(x))
              /\ Len(Append(h, Head(x))) + Len(Tail(x)) = Len(h) + Len(x)
          BY ONLY <4>1, FollowsHandled
        <5> QED
          BY <5>1
      <4>3. /\ Len(g) \in Nat /\ Len(y) \in Nat /\ Len(h) \in Nat /\ Len(x) \in Nat
        <5>1. Head(x) \in Messages /\ Tail(x) \in Seq(Messages)
          BY ONLY <4>1, TailOf
        <5>2. Append(h, Head(x)) \in Seq(Messages)
          BY ONLY <4>1, <5>1, AppendProperties
        <5>3. g \in Seq(Messages) /\ y \in Seq(Messages)
          BY <5>1, <5>2
        <5> QED
          BY ONLY <4>1, <5>3, LenProperties
      <4>4. j + Len(g) + Len(y) = j + Len(h) + Len(x)
        <5> PICK a, b, c, d : a = Len(g) /\ b = Len(y) /\ c = Len(h) /\ d = Len(x)
          OBVIOUS
        <5>1. /\ a \in Nat /\ b \in Nat /\ c \in Nat /\ d \in Nat /\ j \in Nat
              /\ a + b = c + d
          BY <4>1, <4>2, <4>3
        <5>2. j + a + b = j + c + d
          BY ONLY <5>1
        <5> QED
          BY <5>2
      <4>5. /\ handled'[s] = g /\ sub'[s].inputs = y /\ joined'[s] = j
            /\ sub'[s].call = sub[s].call /\ published'[n] = published[n]
            /\ Source(s)' = n /\ Taken(Source(s))' = Taken(n)
        BY <1>1, <1>6, <1>10, <3>2 DEF Taken
      <4>6. Followed(s)'
        <5>1. sub[s].call \notin {"check", "add"}
          BY <2>1, <3>2, <4>1 DEF Followed
        <5>2. j + Len(g) + Len(y) <= Taken(n) /\ Follows(published[n], j, g, y)
          BY ONLY <4>1, <4>2, <4>4
        <5>3. sub[s].call \in Listening =>
                 j + Len(g) + Len(y) + (IF Owed(s)' THEN 1 ELSE 0) = Taken(n)
          BY ONLY <2>2, <3>2, <4>1, <4>4
        <5>4. j # -1
          BY ONLY <4>1
        <5> QED
          BY ONLY <4>1, <4>5, <5>1, <5>2, <5>3, <5>4 DEF Followed, Listening
      <4> QED
        BY <3>2, <4>6
    <3> QED
      BY <3>1, <3>2
  <2>4. Handling(t)'
    <3>1. CASE t = s
      BY <1>4, <3>1 DEF Handling
    <3>2. CASE t # s
      BY <1>1, <1>10, <2>1, <3>2 DEF Handling
    <3> QED
      BY <3>1, <3>2
  <2>5. Leaving(t)'
    <3> SUFFICES ASSUME sub[t].call = "remove", process[n].pc \in {"receive", "fanout"}
                 PROVE  Leaving(t)'
      BY <1>1, <1>10 DEF Leaving
    <3>1. /\ subscribers[n] # <<>> /\ subscribers[n][1] = t /\ sub[t].shut
          /\ \A u \in Subscriptions :
                In(u, subscribers[n]) => sub[u].inputs = <<>> /\ sub[u].by # "worker"
          /\ process[n].pc = "fanout" => process[n].rest = subscribers[n]
      BY <1>10, <2>1 DEF Leaving
    <3>2. ~In(s, subscribers[n])
      BY <3>1
    <3>3. \A u \in Subscriptions :
             In(u, subscribers[n]) => sub'[u].inputs = <<>> /\ sub'[u].by # "worker"
      BY <3>1, <3>2
    <3>4. sub'[t].shut
      BY <3>1
    <3> QED
      BY <1>1, <1>10, <3>1, <3>3, <3>4 DEF Leaving
  <2> QED
    BY <2>3, <2>4, <2>5
<1> QED
  BY <1>1, <1>6, <1>7, <1>8, <1>9, <1>10 DEF Channel

\* Whoever calls the handler: its record is c, the window buffer is as typed.
LEMMA HandlerTypes ==
    ASSUME Inv, NEW s \in Subscriptions, NEW c \in Calls, Len(c.inputs) <= Capacity,
           sub' = [sub EXCEPT ![s] = c], process' \in [Nodes -> ProcessStates],
           queue' \in [Nodes -> Seq(Messages)], \A n \in Nodes : Len(queue'[n]) <= Capacity,
           buffer' \in [Nodes -> Buffers], met' \in [Nodes -> Triggers],
           failed' \in BOOLEAN, handled' \in [Subscriptions -> Seq(Messages)],
           UNCHANGED <<graph, launched, node, closed, subscribers>>,
           UNCHANGED <<cancelled, sending, crashed, published, joined>>
    PROVE  TypeOK' /\ Loads'
<1>1. /\ Nodes' = Nodes /\ Subscriptions' = Subscriptions /\ Messages' = Messages
      /\ ProcessStates' = ProcessStates /\ Calls' = Calls /\ Publishers' = Publishers
      /\ Buffers' = Buffers /\ Triggers' = Triggers
  BY SameGraph
<1>2. TypeOK /\ Loads
  BY DEF Inv
<1>3. /\ sub' \in [Subscriptions -> Calls]
      /\ \A t \in Subscriptions : Len(sub'[t].inputs) <= Capacity
  BY <1>2, Updated
<1>4. TypeOK'
  BY <1>1, <1>2, <1>3 DEF TypeOK
<1>5. Loads'
  BY <1>1, <1>2 DEF Loads
<1> QED
  BY <1>4, <1>5

LEMMA WorkStep ==
    ASSUME Inv, NEW s \in Subscriptions, Work(s)
    PROVE  Inv'
<1> PICK n \in Nodes : Source(s) = n
  BY Shape DEF Inv
<1> PICK x, m : x = sub[s].inputs /\ m = Head(x)
  OBVIOUS
<1> DEFINE taken == [sub EXCEPT ![s].inputs = Tail(@)]
<1>1. TypeOK /\ Channel(n) /\ s[1] \in Nodes
  BY Shape DEF Inv
<1>2. /\ UNCHANGED <<graph, launched, node, queue, closed, subscribers>>
      /\ UNCHANGED <<cancelled, sending, crashed, published, joined>>
      /\ sub[s].worker = "running" /\ sub[s].by # "worker" /\ x # <<>>
      /\ \/ Invoke(s, m, "worker", taken) /\ UNCHANGED <<process, failed>>
         \/ /\ Fail(s, "worker", taken, process)
            /\ handled' = [handled EXCEPT ![s] = Append(@, m)]
            /\ UNCHANGED <<buffer, met>>
  BY DEF Work, windows
<1>3. /\ sub \in [Subscriptions -> Calls] /\ process \in [Nodes -> ProcessStates]
      /\ sub[s] \in Calls /\ Len(x) <= Capacity /\ x \in Seq(Messages)
      /\ handled \in [Subscriptions -> Seq(Messages)]
      /\ buffer \in [Nodes -> Buffers] /\ met \in [Nodes -> Triggers]
  BY <1>1, CallOf, CallTypes DEF TypeOK
<1>4. /\ m \in Messages /\ Tail(x) \in Seq(Messages) /\ Len(Tail(x)) <= Capacity
  <2>1. /\ m \in Messages /\ Tail(x) \in Seq(Messages) /\ Len(Tail(x)) = Len(x) - 1
        /\ Len(x) \in Nat
    BY ONLY <1>2, <1>3, m = Head(x), TailOf
  <2> QED
    BY <1>3, <2>1, CapacityAssumption
<1>5. ASSUME NEW c \in Calls, sub' = [sub EXCEPT ![s] = c],
             c.inputs = Tail(x), c.call = sub[s].call, sub[s].shut => c.shut,
             c.by \in {"none", "worker"}, c.by # "none" => c.emit # <<>>,
             process' = process, failed' \in BOOLEAN,
             handled' = [handled EXCEPT ![s] = Append(@, m)],
             buffer' \in [Nodes -> Buffers], met' \in [Nodes -> Triggers]
      PROVE  Inv'
  <2>1. Len(c.inputs) <= Capacity
    BY <1>4, <1>5
  <2>2. sub'[s] = c /\ \A t \in Subscriptions \ {s} : sub'[t] = sub[t]
    BY <1>1, <1>5, <2>1, Updated
  <2>3. /\ handled' \in [Subscriptions -> Seq(Messages)]
        /\ handled'[s] = Append(handled[s], m)
        /\ \A t \in Subscriptions \ {s} : handled'[t] = handled[t]
    <3>1. Append(handled[s], m) \in Seq(Messages)
      BY <1>3, <1>4
    <3> QED
      BY <1>3, <1>5, <3>1
  <2>4. queue' \in [Nodes -> Seq(Messages)] /\ \A k \in Nodes : Len(queue'[k]) <= Capacity
    BY <1>1, <1>2 DEF TypeOK
  <2>5. process' \in [Nodes -> ProcessStates]
    BY <1>3, <1>5
  <2>6. TypeOK' /\ Loads'
    BY <1>2, <1>5, <2>1, <2>3, <2>4, <2>5, HandlerTypes
  <2>7. Channel(n)'
    BY <1>2, <1>5, <2>2, <2>3, WorkChannel
  <2>8. \A k \in Nodes \ {n} : SameChannel(k)
    BY <1>2, <1>5 DEF SameChannel
  <2>9. \A k \in Nodes : Channel(k)'
    BY <1>2, <2>2, <2>3, <2>7, <2>8, OtherChannels
  <2> QED
    BY <1>2, <2>6, <2>9, Together
<1>6. CASE Invoke(s, m, "worker", taken) /\ UNCHANGED <<process, failed>>
  <2>1. PICK o \in Outcomes(s[1], m) :
           /\ buffer' = [buffer EXCEPT ![s[1]] = o.b]
           /\ met' = [met EXCEPT ![s[1]] = o.t]
           /\ sub' = [taken EXCEPT ![s].emit = o.emit,
                                   ![s].by = IF o.emit = <<>> THEN "none" ELSE "worker"]
           /\ handled' = [handled EXCEPT ![s] = Append(@, m)]
    BY <1>6 DEF Invoke
  <2>2. o.emit \in Seq(Messages) /\ o.b \in Buffers /\ o.t \in Triggers
    BY <1>1, <1>4, OutcomeTypes
  <2> PICK b : b = IF o.emit = <<>> THEN "none" ELSE "worker"
    OBVIOUS
  <2> DEFINE c == [sub[s] EXCEPT !.inputs = Tail(x), !.emit = o.emit, !.by = b]
  <2>3. b \in {"none", "worker"} /\ (b # "none" => o.emit # <<>>)
    OBVIOUS
  <2>4. /\ c \in Calls /\ c.inputs = Tail(x) /\ c.call = sub[s].call
        /\ c.shut = sub[s].shut /\ c.by = b /\ c.emit = o.emit
    BY ONLY <1>3, <1>4, <2>2, <2>3 DEF Calls
  <2>5. sub' = [sub EXCEPT ![s] = c]
    BY ONLY <1>3, <2>1, s \in Subscriptions, x = sub[s].inputs,
       b = IF o.emit = <<>> THEN "none" ELSE "worker" DEF Calls
  <2> HIDE DEF c
  <2>6. buffer' \in [Nodes -> Buffers] /\ met' \in [Nodes -> Triggers]
    BY <1>1, <1>3, <2>1, <2>2
  <2>7. failed' \in BOOLEAN
    BY <1>1, <1>6 DEF TypeOK
  <2> QED
    BY <1>5, <1>6, <2>1, <2>3, <2>4, <2>5, <2>6, <2>7
<1>7. CASE /\ Fail(s, "worker", taken, process)
           /\ handled' = [handled EXCEPT ![s] = Append(@, m)]
           /\ UNCHANGED <<buffer, met>>
  <2> DEFINE c == [sub[s] EXCEPT !.inputs = Tail(x), !.shut = TRUE, !.by = "none",
                                 !.emit = <<>>, !.worker = "stuck"]
  <2>1. <<>> \in Seq(Messages)
    OBVIOUS
  <2>2. c \in Calls
    BY ONLY <1>3, <1>4, <2>1 DEF Calls
  <2>3. /\ c.inputs = Tail(x) /\ c.call = sub[s].call /\ c.shut /\ c.by = "none"
    BY ONLY <1>3, <2>2 DEF Calls
  <2>4. sub' = [sub EXCEPT ![s] = c]
    BY ONLY <1>3, <1>7, s \in Subscriptions, x = sub[s].inputs DEF Fail, Calls
  <2> HIDE DEF c
  <2>5. process' = process /\ failed' \in BOOLEAN
    BY <1>7 DEF Fail
  <2> QED
    BY <1>3, <1>5, <1>7, <2>2, <2>3, <2>4, <2>5
<1> QED
  BY <1>2, <1>6, <1>7

-----------------------------------------------------------------------------
(* Process takes a message off its channel *)

LEMMA EndOfTail ==
    ASSUME NEW M, NEW q \in Seq(M), NEW p \in Seq(M), EndOf(p, q), q # <<>>
    PROVE  /\ EndOf(p, Tail(q)) /\ Len(p) - Len(Tail(q)) = Len(p) - Len(q) + 1
           /\ Len(p) - Len(q) \in Nat /\ Len(p) - Len(q) + 1 <= Len(p)
           /\ Head(q) = p[Len(p) - Len(q) + 1]
<1> PICK y : y = Tail(q)
  OBVIOUS
<1>1. /\ Len(q) \in Nat /\ Len(q) >= 1 /\ Len(y) = Len(q) - 1 /\ Head(q) = q[1]
      /\ \A i \in 1 .. Len(q) - 1 : y[i] = q[i + 1]
  BY TailOf
<1>2. Len(p) \in Nat /\ Len(q) <= Len(p)
  BY DEF EndOf
<1>3. Len(p) - Len(y) = Len(p) - Len(q) + 1 /\ Len(y) <= Len(p)
  BY <1>1, <1>2
<1>4. ASSUME NEW i \in 1 .. Len(y)
      PROVE  y[i] = p[Len(p) - Len(y) + i]
  <2>1. i + 1 \in 1 .. Len(q) /\ y[i] = q[i + 1]
    BY <1>1
  <2>2. q[i + 1] = p[Len(p) - Len(q) + (i + 1)]
    BY <2>1 DEF EndOf
  <2>3. Len(p) - Len(q) + (i + 1) = Len(p) - Len(y) + i
    BY <1>1, <1>2
  <2> QED
    BY <2>1, <2>2, <2>3
<1>5. Head(q) = p[Len(p) - Len(q) + 1]
  BY <1>1 DEF EndOf
<1>6. Len(p) - Len(q) \in Nat /\ Len(p) - Len(q) + 1 <= Len(p)
  BY <1>1, <1>2
<1> QED
  BY <1>3, <1>4, <1>5, <1>6 DEF EndOf

LEMMA Taking ==
    ASSUME TypeOK, NEW n \in Nodes, Queued(n), queue[n] # <<>>,
           queue'[n] = Tail(queue[n]), published'[n] = published[n]
    PROVE  /\ Queued(n)' /\ Taken(n)' = Taken(n) + 1 /\ Taken(n) \in Nat
           /\ Head(queue[n]) = published[n][Taken(n) + 1]
<1>1. queue[n] \in Seq(Messages) /\ published[n] \in Seq(Messages)
  BY ChannelTypes
<1>2. EndOf(published[n], queue[n]) /\ queue[n] # <<>>
  BY DEF Queued
<1>3. /\ EndOf(published[n], Tail(queue[n]))
      /\ Len(published[n]) - Len(Tail(queue[n])) = Len(published[n]) - Len(queue[n]) + 1
      /\ Len(published[n]) - Len(queue[n]) \in Nat
      /\ Head(queue[n]) = published[n][Len(published[n]) - Len(queue[n]) + 1]
  BY ONLY <1>1, <1>2, EndOfTail
<1> QED
  BY <1>3 DEF Queued, Taken

\* One who gets the message later, or does not listen.
LEMMA FollowedBehind ==
    ASSUME TypeOK, graph' = graph, NEW n \in Nodes, NEW t \in Subscriptions, Source(t) = n,
           Followed(t), Taken(n)' = Taken(n) + 1, Taken(n) \in Nat, published'[n] = published[n],
           sub'[t].inputs = sub[t].inputs, sub'[t].call = sub[t].call,
           handled'[t] = handled[t], joined'[t] = joined[t],
           sub[t].call \in Listening => ~Owed(t) /\ Owed(t)'
    PROVE  Followed(t)'
<1>1. Source(t)' = n /\ Taken(Source(t))' = Taken(n) + 1
  BY DEF Source, Taken
<1> PICK h, x, j, k : /\ h = handled[t] /\ x = sub[t].inputs /\ j = joined[t]
                      /\ k = Taken(n)
  OBVIOUS
<1>2. h \in Seq(Messages) /\ x \in Seq(Messages) /\ k \in Nat /\ j \in Nat \cup {-1}
  BY CallTypes
<1>3. Len(h) \in Nat /\ Len(x) \in Nat
  BY ONLY <1>2
<1>4. CASE j = -1
  BY <1>1, <1>4 DEF Followed
<1>5. CASE j \in Nat
  <2>1. j + Len(h) + Len(x) <= k /\ Follows(published[n], j, h, x)
    BY <1>5 DEF Followed
  <2>2. j + Len(h) + Len(x) <= k + 1
    <3> PICK a, b : a = Len(h) /\ b = Len(x)
      OBVIOUS
    <3>1. a \in Nat /\ b \in Nat /\ j \in Nat /\ k \in Nat /\ j + a + b <= k
      BY <1>2, <1>3, <1>5, <2>1
    <3>2. j + a + b <= k + 1
      BY ONLY <3>1
    <3> QED
      BY <3>2
  <2>3. sub[t].call \in Listening => j + Len(h) + Len(x) + 1 = k + 1
    <3> SUFFICES ASSUME sub[t].call \in Listening
                 PROVE  j + Len(h) + Len(x) + 1 = k + 1
      OBVIOUS
    <3>1. j + Len(h) + Len(x) + 0 = k
      BY DEF Followed
    <3> QED
      BY <1>2, <1>3, <1>5, <3>1
  <2> QED
    BY <1>1, <1>5, <2>1, <2>2, <2>3 DEF Followed
<1> QED
  BY <1>2, <1>4, <1>5

LEMMA FollowedDirect ==
    ASSUME Inv, graph' = graph, NEW n \in Nodes, NEW s \in Subscriptions, Source(s) = n,
           Taken(n)' = Taken(n) + 1, Taken(n) \in Nat, published'[n] = published[n],
           NEW m \in Messages, m = published[n][Taken(n) + 1],
           sub[s].call \in Listening, ~Owed(s), ~Owed(s)', sub[s].inputs = <<>>,
           sub'[s].inputs = <<>>, sub'[s].call = sub[s].call,
           handled'[s] = Append(handled[s], m), joined'[s] = joined[s]
    PROVE  Followed(s)'
<1>1. Source(s)' = n /\ Taken(Source(s))' = Taken(n) + 1
  BY DEF Source, Taken
<1> PICK h, j, k : h = handled[s] /\ j = joined[s] /\ k = Taken(n)
  OBVIOUS
<1>2. h \in Seq(Messages) /\ k \in Nat
  BY CallTypes DEF Inv
<1>3. /\ j \in Nat /\ j + Len(h) + Len(<<>>) + 0 = k /\ Follows(published[n], j, h, <<>>)
  BY DEF Inv, Channel, Followed
<1>4. Len(h) \in Nat /\ Len(<<>>) = 0
  BY ONLY <1>2
<1>5. j + Len(h) + 1 = k + 1
  BY <1>2, <1>3, <1>4
<1>6. m = published[n][j + Len(h) + 1]
  BY <1>5
<1>7. Follows(published[n], j, Append(h, m), <<>>) /\ Len(Append(h, m)) = Len(h) + 1
  <2> PICK p : p = published[n]
    OBVIOUS
  <2>1. j \in Nat /\ Follows(p, j, h, <<>>) /\ m = p[j + Len(h) + 1] /\ m \in Messages
    BY <1>3, <1>6
  <2>2. Follows(p, j, Append(h, m), <<>>) /\ Len(Append(h, m)) = Len(h) + 1
    BY ONLY <1>2, <2>1, FollowsDirect
  <2> QED
    BY <2>2
<1>8. j + Len(Append(h, m)) + Len(<<>>) = k + 1
  <2> PICK a, b, z : a = Len(h) /\ b = Len(Append(h, m)) /\ z = Len(<<>>)
    OBVIOUS
  <2>1. a \in Nat /\ b = a + 1 /\ z = 0 /\ j + a + 1 = k + 1
    BY <1>4, <1>5, <1>7
  <2>2. j + b + z = k + 1
    BY ONLY <1>2, <1>3, <2>1
  <2> QED
    BY <2>2
<1>9. j + Len(Append(h, m)) + Len(<<>>) + 0 = k + 1 /\ k + 1 <= k + 1
  BY <1>2, <1>8
<1> QED
  BY <1>1, <1>3, <1>7, <1>8, <1>9 DEF Followed, Listening

\* Nothing happens on the channel of n but that Process takes a message.
Takes(n) ==
    /\ UNCHANGED <<graph, subscribers, published, joined>>
    /\ queue[n] # <<>> /\ queue'[n] = Tail(queue[n]) /\ process[n].pc = "receive"
    /\ \A t \in Subscriptions : Source(t) = n => sub[t].by # "process"

\* The message is dropped, or will be pushed to several subscribers.
LEMMA TakenChannel ==
    ASSUME Inv, NEW n \in Nodes, Takes(n), UNCHANGED <<sub, handled>>,
           \/ subscribers[n] = <<>> /\ process'[n] = process[n]
           \/ /\ Len(subscribers[n]) > 1 /\ process'[n].pc = "fanout"
              /\ process'[n].rest = subscribers[n] /\ process'[n].msg = Head(queue[n])
    PROVE  Channel(n)'
<1>1. Nodes' = Nodes /\ Subscriptions' = Subscriptions /\ \A t : Source(t)' = Source(t)
  BY SameGraph DEF Source, Takes
<1>2. TypeOK /\ Channel(n)
  BY DEF Inv
<1>3. /\ graph' = graph /\ subscribers' = subscribers /\ published' = published
      /\ joined' = joined /\ process[n].pc = "receive"
      /\ \A t \in Subscriptions : Source(t) = n => sub[t].by # "process"
  BY DEF Takes
<1>4. /\ Queued(n)' /\ Taken(n)' = Taken(n) + 1 /\ Taken(n) \in Nat
      /\ Head(queue[n]) = published[n][Taken(n) + 1]
  BY <1>2, Taking DEF Channel, Takes
<1>5. subscribers[n] \in Seq(Subscriptions)
  BY <1>2, ChannelTypes
<1>6. Listed(n)'
  <2>1. Listed(n) /\ sub' = sub
    BY <1>2 DEF Channel
  <2> QED
    BY ONLY <1>1, <1>3, <2>1 DEF Listed, OneOfEach, In
<1>7. Processing(n)'
  <2>1. CASE process'[n] = process[n]
    BY <1>3, <2>1 DEF Processing
  <2>2. CASE /\ Len(subscribers[n]) > 1 /\ process'[n].pc = "fanout"
             /\ process'[n].rest = subscribers[n] /\ process'[n].msg = Head(queue[n])
    <3>1. OneOfEach(process'[n].rest)
      BY <1>2, <2>2 DEF Channel, Listed
    <3>2. process'[n].rest # <<>>
      BY <1>5, <2>2
    <3>3. Taken(n)' > 0 /\ process'[n].msg = published'[n][Taken(n)']
      BY <1>3, <1>4, <2>2
    <3> QED
      BY <1>1, <1>3, <2>2, <3>1, <3>2, <3>3 DEF Processing
  <2> QED
    BY <2>1, <2>2
<1>8. OneHandler(n)'
  BY <1>3, <1>5 DEF OneHandler
<1>9. ASSUME NEW t \in Subscriptions, Source(t) = n
      PROVE  Followed(t)' /\ Handling(t)' /\ Leaving(t)'
  <2>1. Followed(t) /\ Handling(t) /\ Leaving(t)
    BY <1>2, <1>9 DEF Channel
  <2>2. sub[t].call \in Listening => In(t, subscribers[n])
    BY <1>2, <1>9 DEF Channel, Listed
  <2>3. sub[t].call \in Listening => ~Owed(t) /\ Owed(t)'
    <3>1. ~In(t, <<>>)
      BY DEF In
    <3> QED
      BY <1>1, <1>3, <1>9, <2>2, <3>1 DEF Owed
  <2>4. Followed(t)'
    BY <1>2, <1>3, <1>4, <1>9, <2>1, <2>3, FollowedBehind
  <2>5. Handling(t)'
    BY <1>1, <1>3, <1>9, <2>1 DEF Handling
  <2>6. Leaving(t)'
    BY <1>1, <1>3, <1>9, <2>1 DEF Leaving
  <2> QED
    BY <2>4, <2>5, <2>6
<1> QED
  BY <1>1, <1>4, <1>6, <1>7, <1>8, <1>9 DEF Channel

\* The only subscriber is called by Process; it may fail.
LEMMA DirectChannel ==
    ASSUME Inv, NEW n \in Nodes, NEW s \in Subscriptions, Source(s) = n, Takes(n),
           subscribers[n] = <<s>>, handled'[s] = Append(handled[s], Head(queue[n])),
           \A t \in Subscriptions \ {s} : sub'[t] = sub[t] /\ handled'[t] = handled[t],
           sub'[s].call = sub[s].call, sub'[s].inputs = sub[s].inputs,
           sub[s].shut => sub'[s].shut,
           sub'[s].by \in {"none", "process"}, sub'[s].by # "none" => sub'[s].emit # <<>>,
           \/ process'[n] = process[n]
           \/ /\ process'[n].pc = "settle" /\ process'[n].rest = <<s>>
              /\ ~sub[s].shut /\ sub'[s].shut /\ sub'[s].by = "none"
    PROVE  Channel(n)'
<1>1. Nodes' = Nodes /\ Subscriptions' = Subscriptions /\ \A t : Source(t)' = Source(t)
  BY SameGraph DEF Source, Takes
<1>2. TypeOK /\ Channel(n)
  BY DEF Inv
<1>3. /\ graph' = graph /\ subscribers' = subscribers /\ published' = published
      /\ joined' = joined /\ process[n].pc = "receive"
      /\ \A t \in Subscriptions : Source(t) = n => sub[t].by # "process"
  BY DEF Takes
<1>4. /\ Queued(n)' /\ Taken(n)' = Taken(n) + 1 /\ Taken(n) \in Nat
      /\ Head(queue[n]) = published[n][Taken(n) + 1] /\ Head(queue[n]) \in Messages
  <2>1. queue[n] \in Seq(Messages) /\ queue[n] # <<>>
    BY <1>2, ChannelTypes DEF Takes
  <2> QED
    BY <1>2, <2>1, Taking, TailOf DEF Channel, Takes
<1>5. \A t \in Subscriptions : Source(t) = n => (sub[t].call \in Listening <=> t = s)
  <2>1. \A t \in Subscriptions : In(t, subscribers[n]) <=> t = s
    BY DEF In
  <2> QED
    BY <1>2, <2>1 DEF Channel, Listed
<1>6. sub[s].inputs = <<>>
  BY <1>2, <1>3 DEF Channel, OneHandler
<1>7. process'[n].pc = "settle" => sub[s].call = "wait"
  <2>1. sub[s].call = "remove" => sub[s].shut
    BY <1>2, <1>3 DEF Channel, Leaving
  <2> QED
    BY <1>3, <1>5, <2>1 DEF Listening
<1>8. Listed(n)'
  <2>1. Listed(n)
    BY <1>2 DEF Channel
  <2>2. \A t \in Subscriptions : sub'[t].call = sub[t].call
    OBVIOUS
  <2> QED
    BY ONLY <1>1, <1>3, <2>1, <2>2 DEF Listed, OneOfEach, In
<1>9. Processing(n)'
  BY <1>1, <1>3, <1>6, <1>7 DEF Processing
<1>10. OneHandler(n)'
  BY <1>3, <1>6 DEF OneHandler
<1>11. ASSUME NEW t \in Subscriptions, Source(t) = n
       PROVE  Followed(t)' /\ Handling(t)' /\ Leaving(t)'
  <2>1. Followed(t) /\ Handling(t) /\ Leaving(t)
    BY <1>2, <1>11 DEF Channel
  <2>2. ~Owed(t) /\ ~Owed(t)'
    BY <1>1, <1>3, <1>11 DEF Owed
  <2>3. Followed(t)'
    <3>1. CASE t = s
      <4>1. sub[s].call \in Listening /\ sub'[s].inputs = <<>>
        BY <1>5, <1>6
      <4>2. joined'[s] = joined[s] /\ published'[n] = published[n]
        BY <1>3
      <4> QED
        BY <1>3, <1>4, <1>6, <2>2, <3>1, <4>1, <4>2, FollowedDirect
    <3>2. CASE t # s
      <4>1. sub'[t] = sub[t] /\ handled'[t] = handled[t] /\ joined'[t] = joined[t]
            /\ sub[t].call \notin Listening /\ published'[n] = published[n]
        BY <1>3, <1>5, <1>11, <3>2
      <4> QED
        BY <1>2, <1>3, <1>4, <1>11, <2>1, <4>1, FollowedBehind
    <3> QED
      BY <3>1, <3>2
  <2>4. Handling(t)'
    <3>1. CASE t = s
      BY <1>1, <1>3, <1>5, <1>11, <3>1 DEF Handling, Listening
    <3>2. CASE t # s
      BY <1>1, <1>3, <1>11, <2>1, <3>2 DEF Handling
    <3> QED
      BY <3>1, <3>2
  <2>5. Leaving(t)'
    <3> SUFFICES ASSUME sub'[t].call = "remove", process'[n].pc \in {"receive", "fanout"}
                 PROVE  Leaving(t)'
      BY <1>1, <1>11 DEF Leaving
    <3>1. t = s /\ process'[n] = process[n] /\ sub[t].call = "remove"
      BY <1>5, <1>11 DEF Listening
    <3>2. sub'[t].shut
      BY <1>3, <1>11, <2>1, <3>1 DEF Leaving
    <3>3. \A u \in Subscriptions :
             In(u, <<s>>) => sub'[u].inputs = <<>> /\ sub'[u].by # "worker"
      BY <1>6 DEF In
    <3> QED
      BY <1>1, <1>3, <1>11, <3>1, <3>2, <3>3 DEF Leaving
  <2> QED
    BY <2>3, <2>4, <2>5
<1> QED
  BY <1>1, <1>4, <1>8, <1>9, <1>10, <1>11 DEF Channel

LEMMA ReceiveStep ==
    ASSUME Inv, NEW n \in Nodes, Receive(n)
    PROVE  Inv'
<1> PICK m, s : m = Head(queue[n]) /\ s = subscribers[n][1]
  OBVIOUS
<1>1. TypeOK /\ Channel(n)
  BY DEF Inv
<1>2. /\ UNCHANGED <<graph, launched, node, closed, subscribers>>
      /\ UNCHANGED <<cancelled, sending, crashed, published, joined>>
      /\ queue[n] # <<>> /\ queue' = [queue EXCEPT ![n] = Tail(@)]
      /\ \/ /\ subscribers[n] = <<>>
            /\ UNCHANGED <<process, sub, buffer, met, handled, failed>>
         \/ /\ Len(subscribers[n]) = 1
            /\ Invoke(s, m, "process", sub)
            /\ UNCHANGED <<process, failed>>
         \/ /\ Len(subscribers[n]) = 1
            /\ Fail(s, "process", sub, process)
            /\ handled' = [handled EXCEPT ![s] = Append(@, m)]
            /\ UNCHANGED <<buffer, met>>
         \/ /\ Len(subscribers[n]) > 1
            /\ process' = [process EXCEPT ![n] =
                              [pc |-> "fanout", msg |-> m, rest |-> subscribers[n]]]
            /\ UNCHANGED <<sub, buffer, met, handled, failed>>
  BY DEF Receive, windows
<1>3. /\ Nodes' = Nodes /\ Subscriptions' = Subscriptions /\ Messages' = Messages
      /\ ProcessStates' = ProcessStates /\ Calls' = Calls /\ Publishers' = Publishers
      /\ Buffers' = Buffers /\ Triggers' = Triggers /\ \A t : Source(t)' = Source(t)
  BY <1>2, SameGraph DEF Source
<1>4. /\ sub \in [Subscriptions -> Calls] /\ process \in [Nodes -> ProcessStates]
      /\ handled \in [Subscriptions -> Seq(Messages)]
      /\ buffer \in [Nodes -> Buffers] /\ met \in [Nodes -> Triggers]
      /\ queue \in [Nodes -> Seq(Messages)] /\ subscribers[n] \in Seq(Subscriptions)
      /\ failed \in BOOLEAN
  BY <1>1 DEF TypeOK
<1>5. /\ m \in Messages /\ queue' \in [Nodes -> Seq(Messages)]
      /\ queue'[n] = Tail(queue[n]) /\ \A k \in Nodes \ {n} : queue'[k] = queue[k]
      /\ \A k \in Nodes : Len(queue'[k]) <= Capacity
  <2>1. queue[n] \in Seq(Messages) /\ Len(queue[n]) <= Capacity
    BY <1>1 DEF TypeOK
  <2>2. /\ m \in Messages /\ Tail(queue[n]) \in Seq(Messages)
        /\ Len(Tail(queue[n])) = Len(queue[n]) - 1 /\ Len(queue[n]) \in Nat
    BY ONLY <1>2, <2>1, m = Head(queue[n]), TailOf
  <2>3. Len(Tail(queue[n])) <= Capacity
    BY <2>1, <2>2, CapacityAssumption
  <2>4. /\ queue' \in [Nodes -> Seq(Messages)] /\ queue'[n] = Tail(queue[n])
        /\ \A k \in Nodes \ {n} : queue'[k] = queue[k]
    BY ONLY <1>2, <1>4, <2>2, n \in Nodes
  <2>5. \A k \in Nodes : Len(queue[k]) <= Capacity
    BY <1>1 DEF TypeOK
  <2> QED
    BY ONLY <2>2, <2>3, <2>4, <2>5
<1>6. Takes(n)
  <2>1. process[n].pc = "receive" /\ \A t \in Subscriptions : Source(t) = n =>
                                         sub[t].by # "process"
    <3>1. Unlocked(n) /\ process[n].pc = "receive"
      BY DEF Receive
    <3> QED
      BY <3>1, UnlockedMeans
  <2> QED
    BY <1>2, <1>5, <2>1 DEF Takes
\* No subscriber is called.
<1>7. ASSUME UNCHANGED <<sub, buffer, met, handled, failed>>,
             process' \in [Nodes -> ProcessStates], Channel(n)',
             \A k \in Nodes \ {n} : process'[k] = process[k]
      PROVE  Inv'
  <2>1. TypeOK'
    BY <1>1, <1>2, <1>3, <1>5, <1>7 DEF TypeOK
  <2>2. Loads'
    BY <1>2, <1>3 DEF Loads, Inv
  <2>3. \A k \in Nodes \ {n} : SameChannel(k)
    BY <1>2, <1>5, <1>7 DEF SameChannel
  <2>4. \A k \in Nodes : Channel(k)'
    BY <1>2, <1>7, <2>3, OtherChannels
  <2> QED
    BY <1>2, <2>1, <2>2, <2>4, Together
<1>8. CASE subscribers[n] = <<>> /\ UNCHANGED <<process, sub, buffer, met, handled, failed>>
  <2>1. Channel(n)'
    BY <1>6, <1>8, TakenChannel
  <2> QED
    BY <1>4, <1>7, <1>8, <2>1
<1>9. CASE /\ Len(subscribers[n]) > 1
           /\ process' = [process EXCEPT ![n] =
                             [pc |-> "fanout", msg |-> m, rest |-> subscribers[n]]]
           /\ UNCHANGED <<sub, buffer, met, handled, failed>>
  <2> DEFINE p == [pc |-> "fanout", msg |-> m, rest |-> subscribers[n]]
  <2>1. p \in ProcessStates
    BY <1>4, <1>5 DEF ProcessStates
  <2>2. /\ process' \in [Nodes -> ProcessStates] /\ process'[n] = p
        /\ \A k \in Nodes \ {n} : process'[k] = process[k]
    BY <1>4, <1>9, <2>1
  <2>3. Channel(n)'
    BY <1>6, <1>9, <2>2, TakenChannel
  <2> QED
    BY <1>7, <1>9, <2>2, <2>3
\* The only subscriber is called.
<1>10. ASSUME Len(subscribers[n]) = 1
       PROVE  s \in Subscriptions /\ Source(s) = n /\ subscribers[n] = <<s>> /\ s[1] \in Nodes
  <2>1. s \in Subscriptions /\ subscribers[n] = <<s>>
    BY <1>4, <1>10
  <2>2. Source(s) = n
    BY <1>1, <1>10, <2>1 DEF Channel, Listed, In
  <2> QED
    BY <1>1, <2>1, <2>2, Shape
<1>11. ASSUME Len(subscribers[n]) = 1, NEW c \in Calls, sub' = [sub EXCEPT ![s] = c],
              c.inputs = sub[s].inputs, c.call = sub[s].call, sub[s].shut => c.shut,
              c.by \in {"none", "process"}, c.by # "none" => c.emit # <<>>,
              process' \in [Nodes -> ProcessStates],
              \/ process'[n] = process[n]
              \/ /\ process'[n].pc = "settle" /\ process'[n].rest = <<s>>
                 /\ ~sub[s].shut /\ c.shut /\ c.by = "none",
              \A k \in Nodes \ {n} : process'[k] = process[k], failed' \in BOOLEAN,
              handled' = [handled EXCEPT ![s] = Append(@, m)],
              buffer' \in [Nodes -> Buffers], met' \in [Nodes -> Triggers]
       PROVE  Inv'
  <2>1. s \in Subscriptions /\ Source(s) = n /\ subscribers[n] = <<s>>
    BY <1>10, <1>11
  <2>2. Len(c.inputs) <= Capacity
    BY <1>1, <1>11, <2>1, CallOf
  <2>3. sub'[s] = c /\ \A t \in Subscriptions \ {s} : sub'[t] = sub[t]
    BY <1>1, <1>11, <2>1, <2>2, Updated
  <2>4. /\ handled' \in [Subscriptions -> Seq(Messages)]
        /\ handled'[s] = Append(handled[s], m)
        /\ \A t \in Subscriptions \ {s} : handled'[t] = handled[t]
    <3>1. Append(handled[s], m) \in Seq(Messages)
      BY <1>4, <1>5, <2>1
    <3> QED
      BY <1>4, <1>11, <2>1, <3>1
  <2>5. TypeOK' /\ Loads'
    BY <1>2, <1>5, <1>11, <2>1, <2>2, <2>4, HandlerTypes
  <2>6. Channel(n)'
    <3>1. /\ sub'[s].call = sub[s].call /\ sub'[s].inputs = sub[s].inputs
          /\ sub[s].shut => sub'[s].shut
          /\ sub'[s].by \in {"none", "process"} /\ (sub'[s].by # "none" => sub'[s].emit # <<>>)
          /\ \/ process'[n] = process[n]
             \/ /\ process'[n].pc = "settle" /\ process'[n].rest = <<s>>
                /\ ~sub[s].shut /\ sub'[s].shut /\ sub'[s].by = "none"
      BY <1>11, <2>3
    <3>2. handled'[s] = Append(handled[s], Head(queue[n]))
      BY <2>4
    <3> QED
      BY ONLY Inv, n \in Nodes, <1>6, <2>1, <2>3, <2>4, <3>1, <3>2, DirectChannel
  <2>7. \A k \in Nodes \ {n} : SameChannel(k)
    BY <1>2, <1>5, <1>11 DEF SameChannel
  <2>8. \A t \in Subscriptions : Source(t) # n =>
           sub'[t] = sub[t] /\ handled'[t] = handled[t] /\ joined'[t] = joined[t]
    BY <1>2, <2>1, <2>3, <2>4
  <2>9. \A k \in Nodes : Channel(k)'
    BY <1>2, <2>6, <2>7, <2>8, OtherChannels
  <2> QED
    BY <1>2, <2>5, <2>9, Together
<1>12. CASE /\ Len(subscribers[n]) = 1 /\ Invoke(s, m, "process", sub)
            /\ UNCHANGED <<process, failed>>
  <2>1. PICK o \in Outcomes(s[1], m) :
           /\ buffer' = [buffer EXCEPT ![s[1]] = o.b]
           /\ met' = [met EXCEPT ![s[1]] = o.t]
           /\ sub' = [sub EXCEPT ![s].emit = o.emit,
                                 ![s].by = IF o.emit = <<>> THEN "none" ELSE "process"]
           /\ handled' = [handled EXCEPT ![s] = Append(@, m)]
    BY <1>12 DEF Invoke
  <2>2. s \in Subscriptions /\ s[1] \in Nodes /\ sub[s] \in Calls
    BY <1>4, <1>10, <1>12
  <2>3. o.emit \in Seq(Messages) /\ o.b \in Buffers /\ o.t \in Triggers
    BY <1>1, <1>5, <2>2, OutcomeTypes
  <2> PICK b : b = IF o.emit = <<>> THEN "none" ELSE "process"
    OBVIOUS
  <2> DEFINE c == [sub[s] EXCEPT !.emit = o.emit, !.by = b]
  <2>4. b \in {"none", "process"} /\ (b # "none" => o.emit # <<>>)
    OBVIOUS
  <2>5. /\ c \in Calls /\ c.inputs = sub[s].inputs /\ c.call = sub[s].call
        /\ c.shut = sub[s].shut /\ c.by = b /\ c.emit = o.emit
    BY ONLY <2>2, <2>3, <2>4 DEF Calls
  <2>6. sub' = [sub EXCEPT ![s] = c]
    BY ONLY <1>4, <2>1, <2>2, b = IF o.emit = <<>> THEN "none" ELSE "process" DEF Calls
  <2> HIDE DEF c
  <2>7. buffer' \in [Nodes -> Buffers] /\ met' \in [Nodes -> Triggers]
    BY <1>4, <2>1, <2>2, <2>3
  <2>8. process' \in [Nodes -> ProcessStates] /\ process' = process /\ failed' \in BOOLEAN
    BY <1>4, <1>12
  <2> QED
    BY <1>11, <1>12, <2>1, <2>4, <2>5, <2>6, <2>7, <2>8
<1>13. CASE /\ Len(subscribers[n]) = 1 /\ Fail(s, "process", sub, process)
            /\ handled' = [handled EXCEPT ![s] = Append(@, m)] /\ UNCHANGED <<buffer, met>>
  <2>1. s \in Subscriptions /\ Source(s) = n /\ sub[s] \in Calls
    BY <1>4, <1>10, <1>13
  <2>2. /\ failed' = TRUE
        /\ sub' = [sub EXCEPT ![s].shut = TRUE, ![s].by = "none", ![s].emit = <<>>]
        /\ process' = IF sub[s].shut THEN process
                      ELSE [process EXCEPT ![n].pc = "settle", ![n].rest = <<s>>]
    BY <1>13, <2>1 DEF Fail
  <2> DEFINE c == [sub[s] EXCEPT !.shut = TRUE, !.by = "none", !.emit = <<>>]
  <2>3. <<>> \in Seq(Messages) /\ <<s>> \in Seq(Subscriptions)
    BY <2>1
  <2>4. /\ c \in Calls /\ c.inputs = sub[s].inputs /\ c.call = sub[s].call
        /\ c.shut /\ c.by = "none"
    BY ONLY <2>1, <2>3 DEF Calls
  <2>5. sub' = [sub EXCEPT ![s] = c]
    BY ONLY <1>4, <2>1, <2>2 DEF Calls
  <2> HIDE DEF c
  <2> DEFINE p == [process[n] EXCEPT !.pc = "settle", !.rest = <<s>>]
  <2>6. p \in ProcessStates /\ p.pc = "settle" /\ p.rest = <<s>>
    BY <1>4, <2>3 DEF ProcessStates
  <2>7. process' = IF sub[s].shut THEN process ELSE [process EXCEPT ![n] = p]
    BY <1>4, <2>2 DEF ProcessStates
  <2> HIDE DEF p
  <2>8. /\ process' \in [Nodes -> ProcessStates]
        /\ \A k \in Nodes \ {n} : process'[k] = process[k]
        /\ process'[n] = IF sub[s].shut THEN process[n] ELSE p
    BY <1>4, <2>6, <2>7
  <2>9. \/ process'[n] = process[n]
        \/ /\ process'[n].pc = "settle" /\ process'[n].rest = <<s>>
           /\ ~sub[s].shut /\ c.shut /\ c.by = "none"
    BY <2>4, <2>6, <2>8
  <2>10. buffer' \in [Nodes -> Buffers] /\ met' \in [Nodes -> Triggers] /\ failed' \in BOOLEAN
    BY <1>4, <1>13, <2>2
  <2> QED
    BY <1>11, <1>13, <2>4, <2>5, <2>8, <2>9, <2>10
<1> QED
  BY <1>2, <1>8, <1>9, <1>12, <1>13

-----------------------------------------------------------------------------
(* The invariant, and what follows from it *)

LEMMA InitInv == Init => Inv
<1> SUFFICES ASSUME Init
             PROVE  Inv
  OBVIOUS
<1>1. <<>> \in Seq(Messages) /\ <<>> \in Seq(Subscriptions) /\ <<>> \in Seq(Ids) /\ Len(<<>>) = 0
  OBVIOUS
<1>2. Watermark \in Messages
  BY DEF Messages
<1>3. graph \in Graphs /\ Len(graph) \in Nat
  BY GraphsAssumption DEF Init
<1>4. /\ launched = 0 /\ node \in [Nodes -> NodeStates]
      /\ \A n \in Nodes : node[n] = "new"
  BY DEF Init, NodeStates
<1>5. /\ queue \in [Nodes -> Seq(Messages)] /\ published \in [Nodes -> Seq(Messages)]
      /\ \A n \in Nodes : queue[n] = <<>> /\ published[n] = <<>>
      /\ closed \in [Nodes -> BOOLEAN]
  BY <1>1 DEF Init
<1>6. /\ process \in [Nodes -> ProcessStates]
      /\ \A n \in Nodes : process[n].pc = "receive"
  <2>1. [pc |-> "receive", msg |-> Watermark, rest |-> <<>>] \in ProcessStates
    BY <1>1, <1>2 DEF ProcessStates
  <2> QED
    BY <2>1 DEF Init
<1>7. /\ subscribers \in [Nodes -> Seq(Subscriptions)]
      /\ \A n \in Nodes : subscribers[n] = <<>>
  BY <1>1 DEF Init
<1>8. /\ sub \in [Subscriptions -> Calls]
      /\ \A s \in Subscriptions :
            /\ sub[s].call = "check" /\ ~sub[s].shut
            /\ sub[s].by = "none" /\ sub[s].inputs = <<>>
  <2>1. NewSub \in Calls
    BY <1>1 DEF NewSub, Calls
  <2>2. sub = [s \in Subscriptions |-> NewSub]
    BY DEF Init
  <2>3. NewSub.call = "check" /\ ~NewSub.shut /\ NewSub.by = "none" /\ NewSub.inputs = <<>>
    BY DEF NewSub
  <2> QED
    BY ONLY <2>1, <2>2, <2>3
<1>9. buffer \in [Nodes -> Buffers] /\ met \in [Nodes -> Triggers]
  <2>1. [w \in Windows |-> NoItems] \in Buffers
    BY NoItemsType DEF Buffers
  <2>2. [w \in Windows |-> {}] \in Triggers
    BY DEF Triggers
  <2> QED
    BY <2>1, <2>2 DEF Init
<1>10. /\ handled \in [Subscriptions -> Seq(Messages)]
       /\ joined \in [Subscriptions -> Nat \cup {-1}]
       /\ \A s \in Subscriptions : handled[s] = <<>> /\ joined[s] = -1
  BY <1>1 DEF Init
<1>11. /\ cancelled \in BOOLEAN /\ crashed \in BOOLEAN /\ failed \in BOOLEAN
       /\ sending \subseteq Publishers
  BY DEF Init
<1>12. TypeOK
  <2>1. launched \in 0 .. Len(graph)
    BY <1>3, <1>4
  <2>2. 0 <= Capacity
    BY CapacityAssumption
  <2> QED
    BY <1>1, <1>3, <1>4, <1>5, <1>6, <1>7, <1>8, <1>9, <1>10, <1>11, <2>1, <2>2 DEF TypeOK
<1>13. Loads
  BY <1>4 DEF Loads
<1>14. ASSUME NEW n \in Nodes
       PROVE  Channel(n)
  <2>1. Queued(n) /\ Taken(n) = 0
    BY <1>1, <1>5 DEF Queued, EndOf, Taken
  <2>2. Listed(n)
    BY <1>1, <1>7, <1>8 DEF Listed, OneOfEach, In, Listening
  <2>3. Processing(n) /\ OneHandler(n)
    BY <1>1, <1>6, <1>7 DEF Processing, OneHandler
  <2>4. \A s \in Subscriptions : Source(s) = n => Followed(s) /\ Handling(s) /\ Leaving(s)
    BY <1>8, <1>10 DEF Followed, Handling, Leaving, Listening
  <2> QED
    BY <2>1, <2>2, <2>3, <2>4 DEF Channel
<1> QED
  BY <1>12, <1>13, <1>14 DEF Inv

LEMMA StutterInv ==
    ASSUME Inv, UNCHANGED vars
    PROVE  Inv'
<1>1. /\ UNCHANGED <<graph, launched, node, queue, closed, process, subscribers, sub>>
      /\ UNCHANGED <<buffer, met, cancelled, sending, crashed>>
      /\ UNCHANGED <<published, handled, joined, failed>>
  BY DEF vars, channels, windows, history
<1>2. /\ Nodes' = Nodes /\ Subscriptions' = Subscriptions /\ Messages' = Messages
      /\ ProcessStates' = ProcessStates /\ Calls' = Calls /\ Publishers' = Publishers
      /\ Buffers' = Buffers /\ Triggers' = Triggers
  BY <1>1, SameGraph
<1>3. TypeOK' /\ Loads'
  BY <1>1, <1>2 DEF Inv, TypeOK, Loads
<1>4. \A n \in Nodes : SameChannel(n)
  BY <1>1 DEF SameChannel
<1>5. \A s \in Subscriptions : SameCall(s)
  BY <1>1, CallKept
<1> QED
  BY <1>1, <1>3, <1>4, <1>5, AllChannels, Together

LEMMA NextInv == Inv /\ [Next]_vars => Inv'
<1> SUFFICES ASSUME Inv, [Next]_vars
             PROVE  Inv'
  OBVIOUS
<1>1. ASSUME NEW n \in Nodes, NodeStep(n) \/ ProcessStep(n)
      PROVE  Inv'
  <2>1. CASE \/ Launch(n) \/ LoadFails(n) \/ Subscribed(n) \/ LastFlushPanics(n)
             \/ Finish(n) \/ FinishPanics(n) \/ Return(n) \/ PushPanics(n)
    BY <2>1, QuietSteps DEF QuietStep
  <2>2. CASE Load(n)
    BY <2>2, LoadStep
  <2>3. CASE LastFlush(n)
    BY <2>3, LastFlushStep
  <2>4. CASE Receive(n)
    BY <2>4, ReceiveStep
  <2>5. CASE Push(n)
    BY <2>5, PushStep
  <2>6. CASE Drain(n)
    BY <2>6, DrainStep
  <2>7. CASE Shut(n)
    BY <2>7, ShutStep
  <2>8. CASE Settle(n)
    BY <2>8, SettleStep
  <2> QED
    BY <1>1, <2>1, <2>2, <2>3, <2>4, <2>5, <2>6, <2>7, <2>8 DEF NodeStep, ProcessStep
<1>2. ASSUME NEW s \in Subscriptions, SubscriptionStep(s)
      PROVE  Inv'
  <2>1. CASE Check(s)
    BY <2>1, CheckStep
  <2>2. CASE Add(s)
    BY <2>2, AddStep
  <2>3. CASE Unsubscribe(s)
    BY <2>3, UnsubscribeStep
  <2>4. CASE Emit(s)
    BY <2>4, EmitStep
  <2>5. CASE EmitFails(s)
    BY <2>5, EmitFailsStep
  <2>6. CASE Work(s)
    BY <2>6, WorkStep
  <2>7. CASE WorkerEnds(s)
    BY <2>7, WorkerEndsStep
  <2> QED
    BY <1>2, <2>1, <2>2, <2>3, <2>4, <2>5, <2>6, <2>7 DEF SubscriptionStep
<1>3. CASE UNCHANGED vars
  BY <1>3, StutterInv
<1> QED
  BY <1>1, <1>2, <1>3 DEF Next, Alive, AliveSubscriptions

LEMMA Invariant == FairSpec => []Inv
BY InitInv, NextInv, PTL DEF FairSpec

\* Every value that the engine holds is of its type: no channel and no buffer
\* has more messages than its capacity, and only the inputs that a graph has
\* are subscribed to.
THEOREM TypeCorrect == FairSpec => []TypeOK
<1>1. Inv => TypeOK
  BY DEF Inv
<1> QED
  BY <1>1, Invariant, PTL

LEMMA PartOf ==
    ASSUME NEW M, NEW p \in Seq(M), NEW h \in Seq(M), NEW j \in Nat, j + Len(h) <= Len(p),
           \A i \in 1 .. Len(h) : h[i] = p[j + i]
    PROVE  h = SubSeq(p, j + 1, j + Len(h))
<1> PICK a : a = Len(h)
  OBVIOUS
<1> DEFINE r == SubSeq(p, j + 1, j + a)
<1>1. a \in Nat /\ j + a <= Len(p) /\ Len(p) \in Nat
  OBVIOUS
<1>2. r \in Seq(M) /\ Len(r) = a /\ \A i \in 1 .. a : r[i] = p[j + i]
  BY ONLY <1>1, p \in Seq(M), j \in Nat
<1> HIDE DEF r
<1>3. r = h
  BY <1>2, SeqEqual
<1> QED
  BY <1>3 DEF r

LEMMA InOrder ==
    ASSUME Inv, NEW s \in Subscriptions, handled[s] # <<>>
    PROVE  handled[s] = SubSeq(published[Source(s)], joined[s] + 1,
                               joined[s] + Len(handled[s]))
<1> PICK n \in Nodes : Source(s) = n
  BY Shape DEF Inv
<1>1. TypeOK /\ Queued(n) /\ Followed(s)
  BY DEF Inv, Channel
<1> PICK h, p, j : h = handled[s] /\ p = published[n] /\ j = joined[s]
  OBVIOUS
<1>2. /\ h \in Seq(Messages) /\ p \in Seq(Messages) /\ j \in Nat
      /\ sub[s].inputs \in Seq(Messages)
  BY <1>1, ChannelTypes, CallTypes DEF Followed
<1>3. /\ j + Len(h) + Len(sub[s].inputs) <= Taken(n)
      /\ \A i \in 1 .. Len(h) : h[i] = p[j + i]
  BY <1>1, <1>2 DEF Followed, Follows
<1>4. Taken(n) \in Nat /\ Taken(n) <= Len(p)
  <2>1. queue[n] \in Seq(Messages)
    BY <1>1, ChannelTypes
  <2>2. Len(queue[n]) <= Len(p)
    BY <1>1 DEF Queued, EndOf
  <2> QED
    BY <1>2, <2>1, <2>2, Remains DEF Taken
<1>5. Len(h) \in Nat /\ Len(p) \in Nat /\ j + Len(h) <= Len(p)
  <2> PICK a, b, c, t : /\ a = Len(h) /\ b = Len(sub[s].inputs) /\ c = Len(p)
                        /\ t = Taken(n)
    OBVIOUS
  <2>1. a \in Nat /\ b \in Nat /\ c \in Nat /\ t \in Nat /\ j + a + b <= t /\ t <= c
    BY <1>2, <1>3, <1>4
  <2>2. j + a <= c
    BY ONLY <1>2, <2>1
  <2> QED
    BY <2>1, <2>2
<1>6. h = SubSeq(p, j + 1, j + Len(h))
  BY ONLY <1>2, <1>3, <1>5, PartOf
<1> QED
  BY <1>6

\* A subscriber is called with the messages of the channel it subscribed to in
\* their order, from the first one that was taken off after it subscribed,
\* none left out and none twice: whether the goroutine of the channel calls it
\* or its own worker does, and although that changes as others come and go.
THEOREM Delivered == FairSpec => []DeliveredInOrder
<1>1. Inv => DeliveredInOrder
  BY InOrder DEF DeliveredInOrder
<1> QED
  BY <1>1, Invariant, PTL

\* While the goroutine of a channel would call its only subscriber itself, the
\* worker of that subscriber neither runs the handler nor has messages for it:
\* the handlers, which have no locks, are never called twice at a time.
THEOREM OneAtATime == FairSpec => []OneHandlerAtATime
<1>1. Inv => OneHandlerAtATime
  BY DEF Inv, Channel, OneHandler, OneHandlerAtATime
<1> QED
  BY <1>1, Invariant, PTL

-----------------------------------------------------------------------------
(* The end of a channel *)

\* How far the channel of n is. Without failures it is empty when it ends.
Ends(n) ==
    /\ node[n] = "returned" => cancelled \/ process[n].pc = "done"
    /\ closed[n] => node[n] \in {"closing", "returned"}
    /\ process[n].pc \in {"closing", "done"} => closed[n]
    /\ ~failed => /\ process[n].pc # "settle"
                  /\ process[n].pc \in {"closing", "done"} => queue[n] = <<>>

\* A subscriber that waits has still to be closed, or came after the end.
Waits(s) ==
    sub[s].call = "wait" =>
        /\ process[Source(s)].pc = "closing" => In(s, process[Source(s)].rest)
        /\ process[Source(s)].pc = "done" => joined[s] = Taken(Source(s))

\* How far the call of Subscribe and the worker are.
Calling(s) ==
    /\ sub[s].result # "none" => sub[s].call \in {"remove", "returned"}
    /\ node[s[1]] # "subscribe" => sub[s].call \in {"check", "returned"}
    /\ sub[s].by = "worker" => sub[s].worker = "running"
    /\ sub[s].call = "check" => sub[s].worker = "off"

\* Without failures, subscribers are closed only at the end of the channel, and
\* Subscribe returns when the worker has handled everything.
Served(s) ==
    ~failed =>
        /\ sub[s].shut => process[Source(s)].pc \in {"closing", "done"}
        /\ sub[s].worker # "stuck"
        /\ sub[s].worker = "ended" => sub[s].shut /\ sub[s].inputs = <<>>
        /\ sub[s].call \in {"remove", "returned"} =>
              /\ sub[s].worker \in {"off", "ended"}
              /\ joined[s] \in Nat =>
                    /\ sub[s].worker = "ended"
                    /\ joined[s] + Len(handled[s]) = Taken(Source(s))

Progress ==
    /\ \A n \in Nodes : n > launched => node[n] = "new"
    /\ cancelled => \E s \in Subscriptions : sub[s].result = "error"
    /\ \A n \in Nodes : Ends(n)
    /\ \A s \in Subscriptions : Waits(s) /\ Calling(s) /\ Served(s)

LEMMA EndsKept ==
    ASSUME NEW n \in Nodes, Ends(n), node'[n] = node[n], closed'[n] = closed[n],
           process'[n].pc = process[n].pc, queue'[n] = queue[n],
           cancelled => cancelled', failed => failed'
    PROVE  Ends(n)'
BY DEF Ends

\* The goroutines of t may end their handler, and nothing else.
SameStage(t) ==
    /\ sub'[t].call = sub[t].call /\ sub'[t].result = sub[t].result
    /\ sub'[t].worker = sub[t].worker /\ sub'[t].inputs = sub[t].inputs
    /\ sub'[t].shut = sub[t].shut /\ sub'[t].by \in {sub[t].by, "none"}
    /\ handled'[t] = handled[t] /\ joined'[t] = joined[t]

LEMMA StageKept ==
    ASSUME graph' = graph, NEW t \in Subscriptions, NEW n, Source(t) = n, SameStage(t),
           process'[n] = process[n], Taken(n)' = Taken(n), failed => failed',
           Waits(t), Calling(t), Served(t),
           node'[t[1]] # "subscribe" => sub[t].call \in {"check", "returned"}
    PROVE  Waits(t)' /\ Calling(t)' /\ Served(t)'
<1>1. Source(t)' = n /\ Taken(Source(t))' = Taken(n)
  BY DEF Source, Taken
<1>2. Waits(t)'
  BY <1>1 DEF Waits, SameStage
<1>3. Calling(t)'
  BY DEF Calling, SameStage
<1>4. Served(t)'
  BY <1>1 DEF Served, SameStage
<1> QED
  BY <1>2, <1>3, <1>4

\* What is left to prove of a step of a node.
LEMMA NodeProgress ==
    ASSUME Inv, Progress, graph' = graph, NEW n \in Nodes,
           UNCHANGED <<process, failed>>, \A k \in Nodes : Taken(k)' = Taken(k),
           \A k \in Nodes \ {n} :
              node'[k] = node[k] /\ closed'[k] = closed[k] /\ queue'[k] = queue[k],
           Ends(n)', cancelled => cancelled', \A t \in Subscriptions : SameStage(t),
           \A k \in Nodes : k > launched' => node'[k] = "new",
           cancelled' => \E t \in Subscriptions : sub[t].result = "error",
           node'[n] # "subscribe" =>
              \A t \in Subscriptions : t[1] = n => sub[t].call \in {"check", "returned"}
    PROVE  Progress'
<1>1. Nodes' = Nodes /\ Subscriptions' = Subscriptions
  BY SameGraph
<1>2. \A k \in Nodes : Ends(k)'
  BY EndsKept DEF Progress
<1>3. cancelled' => \E t \in Subscriptions : sub'[t].result = "error"
  BY DEF SameStage
<1>4. ASSUME NEW t \in Subscriptions
      PROVE  Waits(t)' /\ Calling(t)' /\ Served(t)'
  <2>1. PICK k \in Nodes : Source(t) = k
    BY Shape DEF Inv
  <2>2. t[1] \in Nodes
    BY Shape DEF Inv
  <2>3. node'[t[1]] # "subscribe" => sub[t].call \in {"check", "returned"}
    BY <2>2 DEF Progress, Calling
  <2> QED
    BY <2>1, <2>3, StageKept DEF Progress
<1> QED
  BY <1>1, <1>2, <1>3, <1>4 DEF Progress

\* What is left to prove of a step of the channel of n or a subscription to it.
LEMMA ChannelProgress ==
    ASSUME Inv, Progress, NEW n \in Nodes,
           UNCHANGED <<graph, launched, node, closed, published, cancelled>>,
           failed => failed', Ends(n)',
           \A k \in Nodes \ {n} : process'[k] = process[k] /\ queue'[k] = queue[k],
           \A t \in Subscriptions : Source(t) # n =>
              sub'[t] = sub[t] /\ handled'[t] = handled[t] /\ joined'[t] = joined[t],
           \A t \in Subscriptions : sub[t].result = "error" => sub'[t].result = "error",
           \A t \in Subscriptions : Source(t) = n => Waits(t)' /\ Calling(t)' /\ Served(t)'
    PROVE  Progress'
<1>1. Nodes' = Nodes /\ Subscriptions' = Subscriptions
  BY SameGraph
<1>2. \A k \in Nodes : Ends(k)'
  BY EndsKept DEF Progress
<1>3. cancelled' => \E t \in Subscriptions : sub'[t].result = "error"
  BY DEF Progress
<1>4. ASSUME NEW t \in Subscriptions, Source(t) # n
      PROVE  Waits(t)' /\ Calling(t)' /\ Served(t)'
  <2>1. PICK k \in Nodes : Source(t) = k
    BY Shape DEF Inv
  <2>2. Taken(k)' = Taken(k) /\ process'[k] = process[k]
    BY <1>4, <2>1 DEF Taken
  <2>3. node'[t[1]] # "subscribe" => sub[t].call \in {"check", "returned"}
    BY DEF Progress, Calling
  <2>4. SameStage(t)
    BY <1>4 DEF SameStage
  <2> QED
    BY <2>1, <2>2, <2>3, <2>4, StageKept DEF Progress
<1> QED
  BY <1>1, <1>2, <1>3, <1>4 DEF Progress

\* What is left to prove of a step of the subscription s alone.
LEMMA CallProgress ==
    ASSUME Inv, Progress, NEW s \in Subscriptions,
           UNCHANGED <<graph, launched, node, queue, closed, process, published, cancelled>>,
           failed => failed',
           \A t \in Subscriptions \ {s} :
              sub'[t] = sub[t] /\ handled'[t] = handled[t] /\ joined'[t] = joined[t],
           sub[s].result = "error" => sub'[s].result = "error",
           Waits(s)', Calling(s)', Served(s)'
    PROVE  Progress'
<1>1. PICK n \in Nodes : Source(s) = n
  BY Shape DEF Inv
<1>2. Ends(n)'
  BY EndsKept DEF Progress
<1>3. ASSUME NEW t \in Subscriptions \ {s}, Source(t) = n
      PROVE  Waits(t)' /\ Calling(t)' /\ Served(t)'
  <2>1. Taken(n)' = Taken(n)
    BY DEF Taken
  <2>2. node'[t[1]] # "subscribe" => sub[t].call \in {"check", "returned"}
    BY DEF Progress, Calling
  <2>3. SameStage(t)
    BY DEF SameStage
  <2> QED
    BY <1>3, <2>1, <2>2, <2>3, StageKept DEF Progress
<1>4. \A t \in Subscriptions : Source(t) = n => Waits(t)' /\ Calling(t)' /\ Served(t)'
  BY <1>3
<1> QED
  BY <1>1, <1>2, <1>4, ChannelProgress

-----------------------------------------------------------------------------
(* Steps of the nodes, and the end *)

\* Nothing is put on a channel, and no call goes on.
LEMMA QuietProgress ==
    ASSUME Inv, Progress, NEW n \in Nodes,
           UNCHANGED <<graph, queue, process, sub, published, handled, joined, failed>>,
           \A k \in Nodes \ {n} : node'[k] = node[k] /\ closed'[k] = closed[k],
           Ends(n)', cancelled => cancelled',
           \A k \in Nodes : k > launched' => node'[k] = "new",
           cancelled' => \E t \in Subscriptions : sub[t].result = "error",
           node'[n] # "subscribe" =>
              \A t \in Subscriptions : t[1] = n => sub[t].call \in {"check", "returned"}
    PROVE  Progress'
<1>1. \A k \in Nodes : Taken(k)' = Taken(k)
  BY DEF Taken
<1>2. \A t \in Subscriptions : SameStage(t)
  BY DEF SameStage
<1>3. \A k \in Nodes \ {n} : queue'[k] = queue[k]
  OBVIOUS
<1> QED
  BY <1>1, <1>2, <1>3, NodeProgress

LEMMA LaunchEnds ==
    ASSUME Inv, Progress, NEW n \in Nodes, Launch(n)
    PROVE  Progress'
<1>1. /\ UNCHANGED <<graph, queue, process, sub, published, handled, joined, failed>>
      /\ UNCHANGED <<closed, cancelled>> /\ n = launched + 1 /\ launched' = n
      /\ node' = [node EXCEPT ![n] =
                     IF cancelled THEN "returned"
                     ELSE IF graph[n].kind = "load" THEN "load" ELSE "subscribe"]
  BY DEF Launch, channels, history
<1>2. launched \in Nat /\ \A k \in Nodes : k \in Nat
  <2>1. Len(graph) \in Nat /\ Nodes = 1 .. Len(graph) /\ launched \in 0 .. Len(graph)
    BY Shape DEF Inv, TypeOK
  <2> QED
    BY ONLY <2>1
<1>3. node[n] = "new" /\ Ends(n)
  BY <1>1, <1>2 DEF Progress
<1>4. /\ node'[n] = IF cancelled THEN "returned"
                    ELSE IF graph[n].kind = "load" THEN "load" ELSE "subscribe"
      /\ \A k \in Nodes \ {n} : node'[k] = node[k]
  BY <1>1 DEF Inv, TypeOK
<1>5. Ends(n)'
  BY <1>1, <1>3, <1>4 DEF Ends
<1>6. \A k \in Nodes : k > launched' => node'[k] = "new"
  BY <1>1, <1>2, <1>4 DEF Progress
<1>7. \A t \in Subscriptions : t[1] = n => sub[t].call \in {"check", "returned"}
  BY <1>3 DEF Progress, Calling
<1>8. cancelled' => \E t \in Subscriptions : sub[t].result = "error"
  BY <1>1 DEF Progress
<1>9. \A k \in Nodes \ {n} : node'[k] = node[k] /\ closed'[k] = closed[k]
  BY <1>1, <1>4
<1> QED
  BY <1>1, <1>5, <1>6, <1>7, <1>8, <1>9, QuietProgress

\* A node that goes on after it was started.
LEMMA NodeGoesOn ==
    ASSUME Inv, Progress, NEW n \in Nodes, NEW pc, node[n] # "new",
           node' = [node EXCEPT ![n] = pc], launched' = launched
    PROVE  /\ node'[n] = pc /\ \A k \in Nodes \ {n} : node'[k] = node[k]
           /\ \A k \in Nodes : k > launched' => node'[k] = "new"
<1>1. node'[n] = pc /\ \A k \in Nodes \ {n} : node'[k] = node[k]
  BY DEF Inv, TypeOK
<1> QED
  BY <1>1 DEF Progress

LEMMA LoadFailsEnds ==
    ASSUME Inv, Progress, NEW n \in Nodes, LoadFails(n)
    PROVE  Progress'
<1>1. /\ UNCHANGED <<graph, queue, process, sub, published, handled, joined, failed>>
      /\ UNCHANGED <<launched, closed, cancelled>> /\ node[n] = "load" /\ cancelled
      /\ node' = [node EXCEPT ![n] = "finish"]
  BY DEF LoadFails, Refused, channels, history
<1>2. /\ node'[n] = "finish" /\ \A k \in Nodes \ {n} : node'[k] = node[k]
      /\ \A k \in Nodes : k > launched' => node'[k] = "new"
  BY <1>1, NodeGoesOn
<1>3. Ends(n)'
  BY <1>1, <1>2 DEF Progress, Ends
<1>4. \A t \in Subscriptions : t[1] = n => sub[t].call \in {"check", "returned"}
  BY <1>1 DEF Progress, Calling
<1>5. cancelled' => \E t \in Subscriptions : sub[t].result = "error"
  BY <1>1 DEF Progress
<1> QED
  BY <1>1, <1>2, <1>3, <1>4, <1>5, QuietProgress

LEMMA SubscribedEnds ==
    ASSUME Inv, Progress, NEW n \in Nodes, Subscribed(n)
    PROVE  Progress'
<1> DEFINE calls == {s \in Subscriptions : s[1] = n}
           err == graph[n].kind # "join" /\ \E s \in calls : sub[s].result = "error"
<1> PICK pc : pc = IF err THEN "returned"
                   ELSE IF graph[n].kind = "window" THEN "flush" ELSE "finish"
  OBVIOUS
<1>1. /\ UNCHANGED <<graph, queue, process, sub, published, handled, joined, failed>>
      /\ UNCHANGED <<launched, closed>> /\ node[n] = "subscribe"
      /\ \A s \in calls : sub[s].call = "returned"
      /\ node' = [node EXCEPT ![n] = pc] /\ cancelled' = (cancelled \/ err)
  BY DEF Subscribed, channels, history
<1>2. err => \E t \in Subscriptions : sub[t].result = "error"
  OBVIOUS
<1>3. pc \in {"returned", "flush", "finish"} /\ (pc = "returned" => err)
  OBVIOUS
<1>4. \A t \in Subscriptions : t[1] = n => sub[t].call \in {"check", "returned"}
  BY <1>1
<1> HIDE DEF calls, err
<1>5. /\ node'[n] = pc /\ \A k \in Nodes \ {n} : node'[k] = node[k]
      /\ \A k \in Nodes : k > launched' => node'[k] = "new"
  <2>1. node[n] # "new" /\ node' = [node EXCEPT ![n] = pc] /\ launched' = launched
    BY <1>1
  <2> QED
    BY ONLY <2>1, Inv, Progress, n \in Nodes, NodeGoesOn
<1>6. Ends(n)'
  BY <1>1, <1>3, <1>5 DEF Progress, Ends
<1>7. (cancelled => cancelled') /\
      (cancelled' => \E t \in Subscriptions : sub[t].result = "error")
  BY <1>1, <1>2 DEF Progress
<1> QED
  BY <1>1, <1>4, <1>5, <1>6, <1>7, QuietProgress

LEMMA FinishEnds ==
    ASSUME Inv, Progress, NEW n \in Nodes, Finish(n)
    PROVE  Progress'
<1>1. /\ UNCHANGED <<graph, queue, process, sub, published, handled, joined, failed>>
      /\ UNCHANGED <<launched, cancelled>> /\ node[n] = "finish"
      /\ node' = [node EXCEPT ![n] = "closing"] /\ closed' = [closed EXCEPT ![n] = TRUE]
  BY DEF Finish, history
<1>2. /\ node'[n] = "closing" /\ \A k \in Nodes \ {n} : node'[k] = node[k]
      /\ \A k \in Nodes : k > launched' => node'[k] = "new"
  BY <1>1, NodeGoesOn
<1>3. closed'[n] /\ \A k \in Nodes \ {n} : closed'[k] = closed[k]
  BY <1>1 DEF Inv, TypeOK
<1>4. Ends(n)'
  BY <1>1, <1>2, <1>3 DEF Progress, Ends
<1>5. \A t \in Subscriptions : t[1] = n => sub[t].call \in {"check", "returned"}
  BY <1>1 DEF Progress, Calling
<1>6. cancelled' => \E t \in Subscriptions : sub[t].result = "error"
  BY <1>1 DEF Progress
<1> QED
  BY <1>1, <1>2, <1>3, <1>4, <1>5, <1>6, QuietProgress

LEMMA ReturnEnds ==
    ASSUME Inv, Progress, NEW n \in Nodes, Return(n)
    PROVE  Progress'
<1>1. /\ UNCHANGED <<graph, queue, process, sub, published, handled, joined, failed>>
      /\ UNCHANGED <<launched, closed, cancelled>> /\ node[n] = "closing"
      /\ process[n].pc = "done" /\ node' = [node EXCEPT ![n] = "returned"]
  BY DEF Return, channels, history
<1>2. /\ node'[n] = "returned" /\ \A k \in Nodes \ {n} : node'[k] = node[k]
      /\ \A k \in Nodes : k > launched' => node'[k] = "new"
  BY <1>1, NodeGoesOn
<1>3. Ends(n)'
  BY <1>1, <1>2 DEF Progress, Ends
<1>4. \A t \in Subscriptions : t[1] = n => sub[t].call \in {"check", "returned"}
  BY <1>1 DEF Progress, Calling
<1>5. cancelled' => \E t \in Subscriptions : sub[t].result = "error"
  BY <1>1 DEF Progress
<1> QED
  BY <1>1, <1>2, <1>3, <1>4, <1>5, QuietProgress

\* A panic, or no step at all.
LEMMA StoppedEnds ==
    ASSUME Inv, Progress,
           UNCHANGED <<graph, launched, node, queue, closed, process, sub>>,
           UNCHANGED <<cancelled, published, handled, joined, failed>>
    PROVE  Progress'
<1>1. /\ Nodes' = Nodes /\ Subscriptions' = Subscriptions /\ \A t : Source(t)' = Source(t)
      /\ \A k : Taken(k)' = Taken(k)
  BY SameGraph DEF Source, Taken
<1>2. \A k \in Nodes : Ends(k)'
  BY DEF Progress, Ends
<1>3. ASSUME NEW t \in Subscriptions
      PROVE  Waits(t)' /\ Calling(t)' /\ Served(t)'
  <2>1. Waits(t)'
    BY <1>1 DEF Progress, Waits
  <2>2. Calling(t)'
    BY DEF Progress, Calling
  <2>3. Served(t)'
    BY <1>1 DEF Progress, Served
  <2> QED
    BY <2>1, <2>2, <2>3
<1> QED
  BY <1>1, <1>2, <1>3 DEF Progress

LEMMA SameLength ==
    ASSUME NEW M, NEW p \in Seq(M), NEW q \in Seq(M), NEW m
    PROVE  Len(Append(p, m)) - Len(Append(q, m)) = Len(p) - Len(q)
<1>1. p \in Seq(M \cup {m}) /\ q \in Seq(M \cup {m})
  BY SeqMonotonic
<1>2. Len(Append(p, m)) = Len(p) + 1 /\ Len(Append(q, m)) = Len(q) + 1
  BY <1>1
<1> QED
  BY <1>2

LEMMA StillTaken ==
    ASSUME TypeOK, NEW n \in Nodes, NEW p, NEW m, Publish(n, p, m)
    PROVE  /\ \A k \in Nodes : Taken(k)' = Taken(k)
           /\ \A k \in Nodes \ {n} : queue'[k] = queue[k]
<1>1. /\ \A k \in Nodes \ {n} : queue'[k] = queue[k] /\ published'[k] = published[k]
      /\ queue'[n] = Append(queue[n], m) /\ published'[n] = Append(published[n], m)
  BY DEF Publish, TypeOK
<1>2. queue[n] \in Seq(Messages) /\ published[n] \in Seq(Messages)
  BY ChannelTypes
<1>3. Taken(n)' = Taken(n)
  <2>1. Len(Append(published[n], m)) - Len(Append(queue[n], m))
           = Len(published[n]) - Len(queue[n])
    BY ONLY <1>2, SameLength
  <2> QED
    BY ONLY <1>1, <2>1 DEF Taken
<1> QED
  BY <1>1, <1>3 DEF Taken

\* Nobody publishes on a channel that is being closed.
LEMMA StillOpen ==
    ASSUME Progress, NEW n \in Nodes, node[n] \notin {"closing", "returned"}
    PROVE  process[n].pc \notin {"closing", "done"}
BY DEF Progress, Ends

LEMMA LoadEnds ==
    ASSUME Inv, Progress, NEW n \in Nodes, Load(n)
    PROVE  Progress'
<1> PICK pc : pc = IF Loaded(n) = graph[n].items THEN "finish" ELSE "load"
  OBVIOUS
<1> PICK m : m = IF Loaded(n) < graph[n].items
                 THEN Item(n, Loaded(n) + 1) ELSE Watermark
  OBVIOUS
<1>1. /\ UNCHANGED <<graph, process, sub, handled, joined, failed>>
      /\ UNCHANGED <<launched, closed, cancelled>> /\ node[n] = "load"
      /\ node' = [node EXCEPT ![n] = pc] /\ pc \in {"finish", "load"}
      /\ Publish(n, <<n, 0>>, m)
  BY DEF Load
<1>2. /\ node'[n] = pc /\ \A k \in Nodes \ {n} : node'[k] = node[k]
      /\ \A k \in Nodes : k > launched' => node'[k] = "new"
  BY <1>1, NodeGoesOn
<1>3. /\ \A k \in Nodes : Taken(k)' = Taken(k)
      /\ \A k \in Nodes \ {n} :
            node'[k] = node[k] /\ closed'[k] = closed[k] /\ queue'[k] = queue[k]
  BY <1>1, <1>2, StillTaken DEF Inv
<1>4. Ends(n)'
  <2>1. Ends(n) /\ process[n].pc \notin {"closing", "done"}
    BY <1>1, StillOpen DEF Progress
  <2> QED
    BY <1>1, <1>2, <2>1 DEF Ends
<1>5. \A t \in Subscriptions : t[1] = n => sub[t].call \in {"check", "returned"}
  BY <1>1 DEF Progress, Calling
<1>6. cancelled' => \E t \in Subscriptions : sub[t].result = "error"
  BY <1>1 DEF Progress
<1>7. \A t \in Subscriptions : SameStage(t)
  BY <1>1 DEF SameStage
<1> QED
  BY <1>1, <1>2, <1>3, <1>4, <1>5, <1>6, <1>7, NodeProgress

LEMMA LastFlushEnds ==
    ASSUME Inv, Progress, NEW n \in Nodes, LastFlush(n)
    PROVE  Progress'
<1>1. /\ UNCHANGED <<graph, process, sub, handled, joined, failed>>
      /\ UNCHANGED <<launched, closed, cancelled>> /\ node[n] = "flush"
      /\ \/ node' = [node EXCEPT ![n] = "finish"] /\ UNCHANGED <<queue, published>>
         \/ UNCHANGED node /\ \E w \in Windows : Publish(n, <<n, 0>>, Group(w, buffer[n][w]))
  BY DEF LastFlush, Due, Signalled, windows
<1>2. \A t \in Subscriptions : t[1] = n => sub[t].call \in {"check", "returned"}
  BY <1>1 DEF Progress, Calling
<1>3. CASE node' = [node EXCEPT ![n] = "finish"] /\ UNCHANGED <<queue, published>>
  <2>1. /\ node'[n] = "finish" /\ \A k \in Nodes \ {n} : node'[k] = node[k]
        /\ \A k \in Nodes : k > launched' => node'[k] = "new"
    BY <1>1, <1>3, NodeGoesOn
  <2>2. Ends(n)'
    BY <1>1, <1>3, <2>1 DEF Progress, Ends
  <2>3. cancelled' => \E t \in Subscriptions : sub[t].result = "error"
    BY <1>1 DEF Progress
  <2> QED
    BY <1>1, <1>2, <1>3, <2>1, <2>2, <2>3, QuietProgress
<1>4. ASSUME UNCHANGED node, NEW w \in Windows, Publish(n, <<n, 0>>, Group(w, buffer[n][w]))
      PROVE  Progress'
  <2>1. /\ \A k \in Nodes : Taken(k)' = Taken(k)
        /\ \A k \in Nodes \ {n} :
              node'[k] = node[k] /\ closed'[k] = closed[k] /\ queue'[k] = queue[k]
    BY <1>1, <1>4, StillTaken DEF Inv
  <2>2. Ends(n)'
    <3>1. Ends(n) /\ process[n].pc \notin {"closing", "done"}
      BY <1>1, StillOpen DEF Progress
    <3> QED
      BY <1>1, <1>4, <3>1 DEF Ends
  <2>3. cancelled' => \E t \in Subscriptions : sub[t].result = "error"
    BY <1>1 DEF Progress
  <2>4. \A k \in Nodes : k > launched' => node'[k] = "new"
    BY <1>1, <1>4 DEF Progress
  <2>5. \A t \in Subscriptions : SameStage(t)
    BY <1>1 DEF SameStage
  <2> QED
    BY <1>1, <1>2, <1>4, <2>1, <2>2, <2>3, <2>4, <2>5, NodeProgress
<1> QED
  BY <1>1, <1>3, <1>4

\* A call that has returned has left nobody behind who would call the handler.
LEMMA Quiet ==
    ASSUME Inv, Progress, ~failed, NEW s \in Subscriptions,
           sub[s].call \in {"check", "returned"}
    PROVE  sub[s].by = "none"
<1> PICK n \in Nodes : Source(s) = n
  BY Shape DEF Inv
<1>1. TypeOK /\ Handling(s) /\ Listed(n) /\ Calling(s) /\ Served(s)
  BY DEF Inv, Channel, Progress
<1>2. sub[s].by \in {"none", "process", "worker"}
  BY <1>1 DEF TypeOK, Calls
<1>3. sub[s].by # "worker"
  BY <1>1 DEF Handling, Calling, Served
<1>4. sub[s].by # "process"
  <2> SUFFICES ASSUME sub[s].by = "process" PROVE FALSE
    OBVIOUS
  <2>1. subscribers[n] = <<s>>
    BY <1>1 DEF Handling
  <2>2. In(s, subscribers[n])
    BY <2>1 DEF In
  <2> QED
    BY <1>1, <2>2 DEF Listed, Listening
<1> QED
  BY <1>2, <1>3, <1>4

LEMMA EmitEnds ==
    ASSUME Inv, Progress, NEW s \in Subscriptions, Emit(s)
    PROVE  Progress'
<1> PICK n \in Nodes : s[1] = n
  BY Shape DEF Inv
<1>1. /\ UNCHANGED <<graph, process, handled, joined, failed>>
      /\ UNCHANGED <<launched, node, closed, cancelled>>
      /\ sub[s].by # "none" /\ Publish(n, s, Head(sub[s].emit))
      /\ sub' = [sub EXCEPT ![s].emit = Tail(@),
                            ![s].by = IF Len(sub[s].emit) = 1 THEN "none" ELSE @]
  BY DEF Emit
<1>2. /\ \A k \in Nodes : Taken(k)' = Taken(k)
      /\ \A k \in Nodes \ {n} :
            node'[k] = node[k] /\ closed'[k] = closed[k] /\ queue'[k] = queue[k]
  BY <1>1, StillTaken DEF Inv
<1>3. ~failed => process[n].pc \notin {"closing", "done"}
  <2> SUFFICES ASSUME ~failed
               PROVE  process[n].pc \notin {"closing", "done"}
    OBVIOUS
  <2>1. sub[s].call \notin {"check", "returned"}
    BY <1>1, Quiet
  <2>2. node[n] = "subscribe"
    BY <2>1 DEF Progress, Calling
  <2> QED
    BY <2>2, StillOpen
<1>4. Ends(n)'
  BY <1>1, <1>3 DEF Progress, Ends
<1>5. \A t \in Subscriptions : SameStage(t)
  <2>1. sub \in [Subscriptions -> Calls]
    BY DEF Inv, TypeOK
  <2>2. /\ sub'[s].call = sub[s].call /\ sub'[s].result = sub[s].result
        /\ sub'[s].worker = sub[s].worker /\ sub'[s].inputs = sub[s].inputs
        /\ sub'[s].shut = sub[s].shut /\ sub'[s].by \in {sub[s].by, "none"}
        /\ \A t \in Subscriptions \ {s} : sub'[t] = sub[t]
    BY ONLY <1>1, <2>1, s \in Subscriptions DEF Calls
  <2> QED
    BY <1>1, <2>2 DEF SameStage
<1>6. cancelled' => \E t \in Subscriptions : sub[t].result = "error"
  BY <1>1 DEF Progress
<1>7. \A k \in Nodes : k > launched' => node'[k] = "new"
  BY <1>1 DEF Progress
<1>8. node'[n] # "subscribe" =>
         \A t \in Subscriptions : t[1] = n => sub[t].call \in {"check", "returned"}
  BY <1>1 DEF Progress, Calling
<1> QED
  BY <1>1, <1>2, <1>4, <1>5, <1>6, <1>7, <1>8, NodeProgress

-----------------------------------------------------------------------------
(* Steps of the subscriptions, and the end *)

LEMMA CheckEnds ==
    ASSUME Inv, Progress, NEW s \in Subscriptions, Check(s)
    PROVE  Progress'
<1>1. /\ UNCHANGED <<graph, launched, node, queue, closed, process, published>>
      /\ UNCHANGED <<cancelled, handled, joined, failed>>
      /\ node[s[1]] = "subscribe" /\ sub[s].call = "check"
      /\ \/ sub' = [sub EXCEPT ![s].call = "returned", ![s].result = "error"]
         \/ sub' = [sub EXCEPT ![s].call = "add", ![s].worker = "running"]
  BY DEF Check, channels, history
<1>2. \A t : Source(t)' = Source(t)
  BY <1>1 DEF Source
<1>3. /\ TypeOK /\ Followed(s) /\ Handling(s) /\ Calling(s) /\ Served(s)
      /\ joined[s] \notin Nat
  BY <1>1, Shape DEF Inv, Channel, Progress, Followed
<1>4. /\ \A t \in Subscriptions \ {s} : sub'[t] = sub[t]
      /\ sub'[s].call \in {"returned", "add"} /\ sub'[s].by = sub[s].by
      /\ sub'[s].shut = sub[s].shut /\ sub'[s].inputs = sub[s].inputs
      /\ sub'[s].call = "returned" => sub'[s].worker = sub[s].worker
      /\ sub'[s].call = "add" => sub'[s].worker = "running" /\ sub'[s].result = sub[s].result
  <2>1. sub \in [Subscriptions -> Calls]
    BY <1>3 DEF TypeOK
  <2> QED
    BY ONLY <1>1, <2>1, s \in Subscriptions DEF Calls
<1>5. sub[s].by = "none" /\ ~sub[s].shut /\ sub[s].worker = "off" /\ sub[s].result = "none"
  <2>1. sub[s].result \in {"none", "nil", "error"}
    BY <1>3 DEF TypeOK, Calls
  <2> QED
    BY <1>1, <1>3, <2>1 DEF Handling, Calling
<1>6. Waits(s)'
  BY <1>4 DEF Waits
<1>7. Calling(s)'
  BY <1>1, <1>4, <1>5 DEF Calling
<1>8. Served(s)'
  BY <1>1, <1>3, <1>4, <1>5 DEF Served
<1> QED
  BY <1>1, <1>4, <1>5, <1>6, <1>7, <1>8, CallProgress

LEMMA AddEnds ==
    ASSUME Inv, Progress, NEW s \in Subscriptions, Add(s)
    PROVE  Progress'
<1> PICK n \in Nodes : Source(s) = n
  BY Shape DEF Inv
<1>1. /\ UNCHANGED <<graph, launched, node, queue, closed, process, published>>
      /\ UNCHANGED <<cancelled, handled, failed>> /\ sub[s].call = "add"
      /\ process[n].pc # "closing" /\ sub' = [sub EXCEPT ![s].call = "wait"]
      /\ joined' = [joined EXCEPT ![s] = Taken(n)]
  BY UnlockedMeans DEF Add
<1>2. \A t : Source(t)' = Source(t) /\ Taken(t)' = Taken(t)
  BY <1>1 DEF Source, Taken
<1>3. TypeOK /\ Handling(s) /\ Calling(s) /\ Served(s)
  BY <1>1, Shape DEF Inv, Channel, Progress
<1>4. /\ \A t \in Subscriptions \ {s} : sub'[t] = sub[t] /\ joined'[t] = joined[t]
      /\ sub'[s].call = "wait" /\ sub'[s].by = sub[s].by /\ sub'[s].result = sub[s].result
      /\ sub'[s].shut = sub[s].shut /\ sub'[s].inputs = sub[s].inputs
      /\ sub'[s].worker = sub[s].worker /\ joined'[s] = Taken(n)
  <2>1. sub \in [Subscriptions -> Calls] /\ joined \in [Subscriptions -> Nat \cup {-1}]
    BY <1>3 DEF TypeOK
  <2> QED
    BY ONLY <1>1, <2>1, s \in Subscriptions DEF Calls
<1>5. Waits(s)'
  BY <1>1, <1>2, <1>4 DEF Waits
<1>6. Calling(s)'
  BY <1>1, <1>3, <1>4 DEF Calling
<1>7. Served(s)'
  BY <1>1, <1>2, <1>3, <1>4 DEF Served
<1> QED
  BY <1>1, <1>4, <1>5, <1>6, <1>7, CallProgress

LEMMA UnsubscribeEnds ==
    ASSUME Inv, Progress, NEW s \in Subscriptions, Unsubscribe(s)
    PROVE  Progress'
<1>1. /\ UNCHANGED <<graph, launched, node, queue, closed, process, published>>
      /\ UNCHANGED <<cancelled, handled, joined, failed>> /\ sub[s].call = "remove"
      /\ sub' = [sub EXCEPT ![s].call = "returned"]
  BY DEF Unsubscribe, history
<1>2. \A t : Source(t)' = Source(t) /\ Taken(t)' = Taken(t)
  BY <1>1 DEF Source, Taken
<1>3. Calling(s) /\ Served(s)
  BY DEF Progress
<1>4. /\ \A t \in Subscriptions \ {s} : sub'[t] = sub[t]
      /\ sub'[s].call = "returned" /\ sub'[s].by = sub[s].by /\ sub'[s].result = sub[s].result
      /\ sub'[s].shut = sub[s].shut /\ sub'[s].inputs = sub[s].inputs
      /\ sub'[s].worker = sub[s].worker
  <2>1. sub \in [Subscriptions -> Calls]
    BY DEF Inv, TypeOK
  <2> QED
    BY ONLY <1>1, <2>1, s \in Subscriptions DEF Calls
<1>5. Waits(s)'
  BY <1>4 DEF Waits
<1>6. Calling(s)'
  BY <1>3, <1>4 DEF Calling
<1>7. Served(s)'
  BY <1>1, <1>2, <1>3, <1>4 DEF Served
<1> QED
  BY <1>1, <1>4, <1>5, <1>6, <1>7, CallProgress

LEMMA WorkerStops ==
    ASSUME Inv, Progress, NEW s \in Subscriptions, WorkerEnds(s)
    PROVE  Progress'
<1>1. /\ UNCHANGED <<graph, launched, node, queue, closed, process, published>>
      /\ UNCHANGED <<cancelled, handled, joined, failed>>
      /\ sub[s].worker = "running" /\ sub[s].by # "worker" /\ sub[s].inputs = <<>>
      /\ sub[s].shut /\ sub' = [sub EXCEPT ![s].worker = "ended"]
  BY DEF WorkerEnds, channels, history
<1>2. \A t : Source(t)' = Source(t) /\ Taken(t)' = Taken(t)
  BY <1>1 DEF Source, Taken
<1>3. Waits(s) /\ Calling(s) /\ Served(s)
  BY DEF Progress
<1>4. /\ \A t \in Subscriptions \ {s} : sub'[t] = sub[t]
      /\ sub'[s].call = sub[s].call /\ sub'[s].by = sub[s].by
      /\ sub'[s].result = sub[s].result /\ sub'[s].shut = sub[s].shut
      /\ sub'[s].inputs = sub[s].inputs /\ sub'[s].worker = "ended"
  <2>1. sub \in [Subscriptions -> Calls]
    BY DEF Inv, TypeOK
  <2> QED
    BY ONLY <1>1, <2>1, s \in Subscriptions DEF Calls
<1>5. Waits(s)'
  BY <1>1, <1>2, <1>3, <1>4 DEF Waits
<1>6. Calling(s)'
  BY <1>1, <1>3, <1>4 DEF Calling
<1>7. Served(s)'
  BY <1>1, <1>2, <1>3, <1>4 DEF Served
<1> QED
  BY <1>1, <1>4, <1>5, <1>6, <1>7, CallProgress

\* The worker of s calls the handler, and may fail.
LEMMA WorkEnds ==
    ASSUME Inv, Progress, NEW s \in Subscriptions, Work(s)
    PROVE  Progress'
<1> PICK x : x = Tail(sub[s].inputs)
  OBVIOUS
<1> DEFINE taken == [sub EXCEPT ![s].inputs = x]
<1>1. /\ UNCHANGED <<graph, launched, node, queue, closed, process, published>>
      /\ UNCHANGED <<cancelled, joined>> /\ sub[s].worker = "running"
      /\ handled' = [handled EXCEPT ![s] = Append(@, Head(sub[s].inputs))]
      /\ \/ /\ failed' = failed
            /\ \E e \in Seq(Messages) :
                  sub' = [taken EXCEPT ![s].emit = e,
                                       ![s].by = IF e = <<>> THEN "none" ELSE "worker"]
         \/ /\ failed' = TRUE
            /\ sub' = [taken EXCEPT ![s].shut = TRUE, ![s].by = "none", ![s].emit = <<>>,
                                    ![s].worker = "stuck"]
  <2>1. /\ UNCHANGED <<graph, launched, node, queue, closed, published>>
        /\ UNCHANGED <<cancelled, joined>> /\ sub[s].worker = "running"
        /\ sub[s].inputs # <<>>
        /\ \/ Invoke(s, Head(sub[s].inputs), "worker", taken) /\ UNCHANGED <<process, failed>>
           \/ /\ Fail(s, "worker", taken, process)
              /\ handled' = [handled EXCEPT ![s] = Append(@, Head(sub[s].inputs))]
    BY DEF Work
  <2>2. TypeOK /\ s[1] \in Nodes /\ Head(sub[s].inputs) \in Messages
    <3>1. TypeOK /\ s[1] \in Nodes
      BY Shape DEF Inv
    <3>2. sub[s].inputs \in Seq(Messages)
      BY <3>1, CallTypes
    <3> QED
      BY <2>1, <3>1, <3>2, TailOf
  <2>3. \A o \in Outcomes(s[1], Head(sub[s].inputs)) : o.emit \in Seq(Messages)
    BY <2>2, OutcomeTypes
  <2> HIDE DEF taken
  <2>4. CASE Invoke(s, Head(sub[s].inputs), "worker", taken) /\ UNCHANGED <<process, failed>>
    BY <2>1, <2>3, <2>4 DEF Invoke
  <2>5. CASE /\ Fail(s, "worker", taken, process)
             /\ handled' = [handled EXCEPT ![s] = Append(@, Head(sub[s].inputs))]
    BY <2>1, <2>5 DEF Fail
  <2> QED
    BY <2>1, <2>4, <2>5
<1>2. \A t : Source(t)' = Source(t) /\ Taken(t)' = Taken(t)
  BY <1>1 DEF Source, Taken
<1>3. Waits(s) /\ Calling(s) /\ Served(s)
  BY DEF Progress
<1>4. \A t \in Subscriptions \ {s} : handled'[t] = handled[t]
  BY <1>1 DEF Inv, TypeOK
<1>5. /\ \A t \in Subscriptions \ {s} : sub'[t] = sub[t]
      /\ sub'[s].call = sub[s].call /\ sub'[s].result = sub[s].result
      /\ \/ /\ failed' = failed /\ sub'[s].shut = sub[s].shut
            /\ sub'[s].worker = "running"
         \/ failed' = TRUE /\ sub'[s].by = "none"
  <2>1. sub \in [Subscriptions -> Calls]
    BY DEF Inv, TypeOK
  <2>2. ASSUME NEW e \in Seq(Messages), failed' = failed,
               sub' = [taken EXCEPT ![s].emit = e,
                                    ![s].by = IF e = <<>> THEN "none" ELSE "worker"]
        PROVE  /\ \A t \in Subscriptions \ {s} : sub'[t] = sub[t]
               /\ sub'[s].call = sub[s].call /\ sub'[s].result = sub[s].result
               /\ sub'[s].shut = sub[s].shut /\ sub'[s].worker = sub[s].worker
    BY ONLY <2>1, <2>2, s \in Subscriptions DEF Calls
  <2>3. ASSUME failed' = TRUE,
               sub' = [taken EXCEPT ![s].shut = TRUE, ![s].by = "none", ![s].emit = <<>>,
                                    ![s].worker = "stuck"]
        PROVE  /\ \A t \in Subscriptions \ {s} : sub'[t] = sub[t]
               /\ sub'[s].call = sub[s].call /\ sub'[s].result = sub[s].result
               /\ sub'[s].by = "none"
    BY ONLY <2>1, <2>3, s \in Subscriptions DEF Calls
  <2> HIDE DEF taken
  <2> QED
    BY <1>1, <2>2, <2>3
<1>6. Waits(s)'
  BY <1>1, <1>2, <1>3, <1>5 DEF Waits
<1>7. Calling(s)'
  BY <1>1, <1>3, <1>5 DEF Calling
<1>8. Served(s)'
  <2> SUFFICES ASSUME ~failed'
               PROVE  Served(s)'
    BY DEF Served
  <2>1. ~failed /\ sub'[s].shut = sub[s].shut /\ sub'[s].worker = "running"
    BY <1>5
  <2>2. sub[s].call \notin {"remove", "returned"}
    BY <1>1, <1>3, <2>1 DEF Served
  <2> QED
    BY <1>1, <1>2, <1>3, <1>5, <2>1, <2>2 DEF Served
<1>9. failed => failed'
  BY <1>1
<1>10. sub[s].result = "error" => sub'[s].result = "error"
  BY <1>5
<1>11. \A t \in Subscriptions \ {s} :
          sub'[t] = sub[t] /\ handled'[t] = handled[t] /\ joined'[t] = joined[t]
  BY <1>1, <1>4, <1>5
<1>12. UNCHANGED <<graph, launched, node, queue, closed, process, published, cancelled>>
  BY <1>1
<1> QED
  BY <1>6, <1>7, <1>8, <1>9, <1>10, <1>11, <1>12, CallProgress

-----------------------------------------------------------------------------
(* Steps of Process, and the end *)

\* Process delivers, in receive or fanout, when nobody is closed yet.
LEMMA DeliverProgress ==
    ASSUME Inv, Progress, NEW n \in Nodes,
           UNCHANGED <<graph, launched, node, closed, published, cancelled, joined>>,
           failed => failed', process[n].pc \in {"receive", "fanout"},
           \/ process'[n].pc \in {"receive", "fanout"}
           \/ process'[n].pc = "settle" /\ failed',
           \A k \in Nodes \ {n} : process'[k] = process[k] /\ queue'[k] = queue[k],
           \A t \in Subscriptions : Source(t) # n =>
              sub'[t] = sub[t] /\ handled'[t] = handled[t],
           \A t \in Subscriptions : Source(t) = n =>
              /\ sub'[t].call = sub[t].call /\ sub'[t].result = sub[t].result
              /\ sub'[t].worker = sub[t].worker
              /\ sub'[t].by \in {sub[t].by, "none", "process"}
              /\ sub'[t].shut = sub[t].shut \/ failed'
    PROVE  Progress'
<1>1. \A t : Source(t)' = Source(t)
  BY DEF Source
<1>2. Ends(n)'
  BY DEF Progress, Ends
<1>3. ASSUME NEW t \in Subscriptions, Source(t) = n
      PROVE  Waits(t)' /\ Calling(t)' /\ Served(t)'
  <2>1. Calling(t) /\ Served(t)
    BY DEF Progress
  <2>2. Waits(t)'
    BY <1>1, <1>3 DEF Waits
  <2>3. Calling(t)'
    BY <1>3, <2>1 DEF Calling
  <2>4. Served(t)'
    BY <1>1, <1>3, <2>1 DEF Served
  <2> QED
    BY <2>2, <2>3, <2>4
<1>4. \A t \in Subscriptions : sub[t].result = "error" => sub'[t].result = "error"
  OBVIOUS
<1> QED
  BY <1>2, <1>3, <1>4, ChannelProgress

LEMMA EmitFailsEnds ==
    ASSUME Inv, Progress, NEW s \in Subscriptions, EmitFails(s)
    PROVE  Progress'
<1> PICK n \in Nodes : Source(s) = n
  BY Shape DEF Inv
<1>1. /\ sub \in [Subscriptions -> Calls] /\ process \in [Nodes -> ProcessStates]
      /\ Handling(s) /\ Waits(s) /\ Calling(s)
  BY DEF Inv, TypeOK, Channel, Progress
<1>2. CASE Panic
  <2>1. /\ UNCHANGED <<graph, launched, node, queue, closed, process, sub>>
        /\ UNCHANGED <<cancelled, published, handled, joined, failed>>
    BY <1>2 DEF Panic, channels, history
  <2> QED
    BY <2>1, StoppedEnds
<1>3. CASE /\ Fail(s, sub[s].by, sub, process)
           /\ UNCHANGED <<graph, launched, node, queue, closed, subscribers, windows,
                          cancelled, sending, crashed, published, handled, joined>>
  <2>1. \A t : Source(t)' = Source(t) /\ Taken(t)' = Taken(t)
    BY <1>3 DEF Source, Taken
  <2>2. UNCHANGED <<graph, launched, node, queue, closed, published>>
        /\ UNCHANGED <<cancelled, handled, joined>> /\ failed' = TRUE
    BY <1>3 DEF Fail
  <2>3. sub[s].by \in {"process", "worker"} /\ sub[s].call \notin {"check", "add"}
    BY <1>1 DEF EmitFails, Handling, Calls
  <2>4. CASE sub[s].by = "worker"
    <3>1. /\ process' = process
          /\ sub' = [sub EXCEPT ![s].shut = TRUE, ![s].by = "none",
                                ![s].emit = <<>>, ![s].worker = "stuck"]
      BY <1>3, <2>4 DEF Fail
    <3>2. /\ \A t \in Subscriptions \ {s} : sub'[t] = sub[t]
          /\ sub'[s].call = sub[s].call /\ sub'[s].result = sub[s].result
          /\ sub'[s].by = "none"
      BY ONLY <1>1, <3>1, s \in Subscriptions DEF Calls
    <3>3. Waits(s)'
      BY <1>1, <2>1, <2>2, <3>1, <3>2 DEF Waits
    <3>4. Calling(s)'
      BY <1>1, <2>2, <2>3, <3>2 DEF Calling
    <3>5. Served(s)'
      BY <2>2 DEF Served
    <3> QED
      BY <2>2, <3>1, <3>2, <3>3, <3>4, <3>5, CallProgress
  <2>5. CASE sub[s].by = "process"
    <3>1. /\ sub' = [sub EXCEPT ![s].shut = TRUE, ![s].by = "none", ![s].emit = <<>>]
          /\ process' = IF sub[s].shut THEN process
                        ELSE [process EXCEPT ![n].pc = "settle", ![n].rest = <<s>>]
      BY <1>3, <2>5 DEF Fail
    <3>2. /\ \A t \in Subscriptions \ {s} : sub'[t] = sub[t]
          /\ sub'[s].call = sub[s].call /\ sub'[s].result = sub[s].result
          /\ sub'[s].by = "none" /\ sub'[s].worker = sub[s].worker
      BY ONLY <1>1, <3>1, s \in Subscriptions DEF Calls
    <3>3. /\ \A k \in Nodes \ {n} : process'[k] = process[k]
          /\ process'[n].pc \in {process[n].pc, "settle"}
      BY ONLY <1>1, <3>1, n \in Nodes DEF ProcessStates
    <3>4. process[n].pc = "receive"
      BY <1>1, <2>5 DEF Handling
    <3>5. \A t \in Subscriptions : Source(t) # n => sub'[t] = sub[t]
      BY <3>2
    <3>6. \A t \in Subscriptions : Source(t) = n =>
             /\ sub'[t].call = sub[t].call /\ sub'[t].result = sub[t].result
             /\ sub'[t].worker = sub[t].worker
             /\ sub'[t].by \in {sub[t].by, "none", "process"}
      BY <3>2
    <3> QED
      BY <2>2, <3>3, <3>4, <3>5, <3>6, DeliverProgress
  <2> QED
    BY <2>3, <2>4, <2>5
<1> QED
  BY <1>2, <1>3 DEF EmitFails

LEMMA ReceiveEnds ==
    ASSUME Inv, Progress, NEW n \in Nodes, Receive(n)
    PROVE  Progress'
<1> PICK s : s = subscribers[n][1]
  OBVIOUS
<1>1. /\ sub \in [Subscriptions -> Calls] /\ process \in [Nodes -> ProcessStates]
      /\ subscribers[n] \in Seq(Subscriptions) /\ Channel(n)
  BY DEF Inv, TypeOK
<1>2. Len(subscribers[n]) = 1 => s \in Subscriptions /\ Source(s) = n
  <2> SUFFICES ASSUME Len(subscribers[n]) = 1
               PROVE  s \in Subscriptions /\ Source(s) = n
    OBVIOUS
  <2>1. s \in Subscriptions
    BY <1>1
  <2> QED
    BY <1>1, <2>1 DEF Channel, Listed, In
<1>3. /\ UNCHANGED <<graph, launched, node, closed, published, cancelled, joined>>
      /\ process[n].pc = "receive" /\ \A k \in Nodes \ {n} : queue'[k] = queue[k]
  BY DEF Receive, Inv, TypeOK
<1>4. CASE /\ UNCHANGED <<sub, handled, failed>>
           /\ \/ process' = process
              \/ process' = [process EXCEPT ![n] =
                   [pc |-> "fanout", msg |-> Head(queue[n]), rest |-> subscribers[n]]]
  <2>1. /\ process'[n].pc \in {"receive", "fanout"}
        /\ \A k \in Nodes \ {n} : process'[k] = process[k]
    BY <1>1, <1>3, <1>4
  <2>2. \A t \in Subscriptions : sub'[t] = sub[t] /\ handled'[t] = handled[t]
    BY <1>4
  <2>3. failed => failed'
    BY <1>4
  <2> QED
    BY <1>3, <2>1, <2>2, <2>3, DeliverProgress
<1>5. ASSUME Len(subscribers[n]) = 1, UNCHANGED <<process, failed>>, NEW e, NEW b,
             sub' = [sub EXCEPT ![s].emit = e, ![s].by = b], b \in {"none", "process"},
             handled' = [handled EXCEPT ![s] = Append(@, Head(queue[n]))]
      PROVE  Progress'
  <2>1. s \in Subscriptions /\ Source(s) = n
    BY <1>2, <1>5
  <2>2. /\ \A t \in Subscriptions \ {s} : sub'[t] = sub[t]
        /\ sub'[s].call = sub[s].call /\ sub'[s].result = sub[s].result
        /\ sub'[s].by = b /\ sub'[s].worker = sub[s].worker /\ sub'[s].shut = sub[s].shut
    BY ONLY <1>1, <1>5, <2>1 DEF Calls
  <2>3. \A t \in Subscriptions : Source(t) # n => sub'[t] = sub[t] /\ handled'[t] = handled[t]
    BY <1>5, <2>1, <2>2 DEF Inv, TypeOK
  <2>4. \A t \in Subscriptions : Source(t) = n =>
           /\ sub'[t].call = sub[t].call /\ sub'[t].result = sub[t].result
           /\ sub'[t].worker = sub[t].worker /\ sub'[t].shut = sub[t].shut
           /\ sub'[t].by \in {sub[t].by, "none", "process"}
    BY <1>5, <2>2
  <2>5. failed => failed'
    BY <1>5
  <2>6. /\ process'[n].pc = "receive" /\ \A k \in Nodes \ {n} : process'[k] = process[k]
    BY <1>3, <1>5
  <2> QED
    BY <1>3, <2>3, <2>4, <2>5, <2>6, DeliverProgress
<1>6. CASE /\ Len(subscribers[n]) = 1
           /\ Invoke(s, Head(queue[n]), "process", sub) /\ UNCHANGED <<process, failed>>
  <2>1. PICK o \in Outcomes(s[1], Head(queue[n])) :
           /\ sub' = [sub EXCEPT ![s].emit = o.emit,
                                 ![s].by = IF o.emit = <<>> THEN "none" ELSE "process"]
           /\ handled' = [handled EXCEPT ![s] = Append(@, Head(queue[n]))]
    BY <1>6 DEF Invoke
  <2>2. (IF o.emit = <<>> THEN "none" ELSE "process") \in {"none", "process"}
    OBVIOUS
  <2> QED
    BY <1>5, <1>6, <2>1, <2>2
<1>7. CASE /\ Len(subscribers[n]) = 1 /\ Fail(s, "process", sub, process)
           /\ handled' = [handled EXCEPT ![s] = Append(@, Head(queue[n]))]
  <2>1. s \in Subscriptions /\ Source(s) = n
    BY <1>2, <1>7
  <2>2. /\ failed' = TRUE
        /\ sub' = [sub EXCEPT ![s].shut = TRUE, ![s].by = "none", ![s].emit = <<>>]
        /\ process' = IF sub[s].shut THEN process
                      ELSE [process EXCEPT ![n].pc = "settle", ![n].rest = <<s>>]
    BY <1>7, <2>1 DEF Fail
  <2>3. /\ \A t \in Subscriptions \ {s} : sub'[t] = sub[t]
        /\ sub'[s].call = sub[s].call /\ sub'[s].result = sub[s].result
        /\ sub'[s].by = "none" /\ sub'[s].worker = sub[s].worker
    BY ONLY <1>1, <2>1, <2>2 DEF Calls
  <2>4. /\ \A k \in Nodes \ {n} : process'[k] = process[k]
        /\ process'[n].pc \in {process[n].pc, "settle"}
    BY ONLY <1>1, <2>2, n \in Nodes DEF ProcessStates
  <2>5. \A t \in Subscriptions : Source(t) # n => sub'[t] = sub[t] /\ handled'[t] = handled[t]
    BY <1>7, <2>1, <2>3 DEF Inv, TypeOK
  <2>6. \A t \in Subscriptions : Source(t) = n =>
           /\ sub'[t].call = sub[t].call /\ sub'[t].result = sub[t].result
           /\ sub'[t].worker = sub[t].worker
           /\ sub'[t].by \in {sub[t].by, "none", "process"}
    BY <2>3
  <2>7. \/ process'[n].pc \in {"receive", "fanout"}
        \/ process'[n].pc = "settle" /\ failed'
    BY <1>3, <2>2, <2>4
  <2>8. \A k \in Nodes \ {n} : process'[k] = process[k] /\ queue'[k] = queue[k]
    BY <1>3, <2>4
  <2>9. failed'
    BY <2>2
  <2> QED
    BY <1>3, <2>5, <2>6, <2>7, <2>8, <2>9, DeliverProgress
<1> QED
  BY <1>4, <1>6, <1>7 DEF Receive

LEMMA PushEnds ==
    ASSUME Inv, Progress, NEW n \in Nodes, Push(n)
    PROVE  Progress'
<1> PICK s : s = Head(process[n].rest)
  OBVIOUS
<1>1. TypeOK /\ Channel(n) /\ sub \in [Subscriptions -> Calls]
  BY DEF Inv, TypeOK
<1>2. /\ UNCHANGED <<graph, launched, node, queue, closed, published>>
      /\ UNCHANGED <<cancelled, handled, joined, failed>> /\ process[n].pc = "fanout"
      /\ sub' = [sub EXCEPT ![s].inputs = Append(@, process[n].msg)]
      /\ NextSubscriber(n, "receive")
  BY DEF Push, history
<1>3. process[n].rest \in Seq(Subscriptions) /\ process[n].rest # <<>>
  BY <1>1, <1>2, ChannelTypes DEF Channel, Processing
<1>4. s \in Subscriptions /\ In(s, process[n].rest)
  BY <1>3, TailOf, TailIn
<1>5. Source(s) = n
  BY <1>1, <1>2, <1>4 DEF Channel, Processing, Listed
<1>6. /\ process'[n].pc \in {"receive", "fanout"}
      /\ \A k \in Nodes \ {n} : process'[k] = process[k]
  BY <1>1, <1>2, <1>3, NextOf
<1>7. /\ \A t \in Subscriptions \ {s} : sub'[t] = sub[t]
      /\ sub'[s].call = sub[s].call /\ sub'[s].result = sub[s].result
      /\ sub'[s].by = sub[s].by /\ sub'[s].worker = sub[s].worker
      /\ sub'[s].shut = sub[s].shut
  BY ONLY <1>1, <1>2, <1>4 DEF Calls
<1>8. \A t \in Subscriptions : Source(t) # n => sub'[t] = sub[t] /\ handled'[t] = handled[t]
  BY <1>2, <1>5, <1>7
<1>9. \A t \in Subscriptions : Source(t) = n =>
         /\ sub'[t].call = sub[t].call /\ sub'[t].result = sub[t].result
         /\ sub'[t].worker = sub[t].worker /\ sub'[t].shut = sub[t].shut
         /\ sub'[t].by \in {sub[t].by, "none", "process"}
  BY <1>7
<1>10. failed => failed'
  BY <1>2
<1>11. \A k \in Nodes \ {n} : process'[k] = process[k] /\ queue'[k] = queue[k]
  BY <1>2, <1>6
<1> QED
  BY <1>2, <1>6, <1>8, <1>9, <1>10, <1>11, DeliverProgress

LEMMA DrainEnds ==
    ASSUME Inv, Progress, NEW n \in Nodes, Drain(n)
    PROVE  Progress'
<1>1. /\ UNCHANGED <<graph, launched, node, queue, closed, sub, published>>
      /\ UNCHANGED <<cancelled, handled, joined, failed>> /\ process[n].pc = "receive"
      /\ closed[n] /\ queue[n] = <<>>
  BY DEF Drain, history
<1>2. /\ process'[n].pc = IF subscribers[n] = <<>> THEN "done" ELSE "closing"
      /\ process'[n].rest = subscribers[n]
      /\ \A k \in Nodes \ {n} : process'[k] = process[k]
  <2>1. process \in [Nodes -> ProcessStates]
    BY DEF Inv, TypeOK
  <2>2. process' = [process EXCEPT ![n].pc = IF subscribers[n] = <<>> THEN "done" ELSE "closing",
                                   ![n].rest = subscribers[n]]
    BY DEF Drain
  <2> QED
    BY ONLY <2>1, <2>2, n \in Nodes DEF ProcessStates
<1>3. \A t : Source(t)' = Source(t) /\ Taken(t)' = Taken(t)
  BY <1>1 DEF Source, Taken
<1>4. Ends(n)'
  BY <1>1, <1>2 DEF Progress, Ends
<1>5. ASSUME NEW t \in Subscriptions, Source(t) = n
      PROVE  Waits(t)' /\ Calling(t)' /\ Served(t)'
  <2>1. Calling(t) /\ Served(t)
    BY DEF Progress
  <2>2. sub[t].call = "wait" => In(t, subscribers[n])
    BY <1>5 DEF Inv, Channel, Listed, Listening
  <2>3. subscribers[n] = <<>> => ~In(t, subscribers[n])
    BY DEF In
  <2>4. Waits(t)'
    BY <1>1, <1>2, <1>3, <1>5, <2>2, <2>3 DEF Waits
  <2>5. Calling(t)'
    BY <1>1, <2>1 DEF Calling
  <2>6. Served(t)'
    BY <1>1, <1>2, <1>3, <1>5, <2>1 DEF Served
  <2> QED
    BY <2>4, <2>5, <2>6
<1>6. \A k \in Nodes \ {n} : process'[k] = process[k] /\ queue'[k] = queue[k]
  BY <1>1, <1>2
<1>7. failed => failed'
  BY <1>1
<1> QED
  BY <1>1, <1>4, <1>5, <1>6, <1>7, ChannelProgress

\* While a channel is closing, Process leaves the first of the rest behind.
LEMMA PassedEnds ==
    ASSUME Inv, Progress, NEW n \in Nodes, NEW s \in Subscriptions, process[n].pc = "closing",
           Head(process[n].rest) = s, NextSubscriber(n, "done"),
           UNCHANGED <<graph, launched, node, queue, closed, published>>,
           UNCHANGED <<cancelled, handled, joined, failed>>,
           \A t \in Subscriptions \ {s} : sub'[t] = sub[t],
           sub[s].result = "error" => sub'[s].result = "error",
           sub'[s].call # "wait", Calling(s)', Served(s)'
    PROVE  Progress'
<1> PICK rest : rest = process[n].rest
  OBVIOUS
<1>1. TypeOK /\ Channel(n)
  BY DEF Inv
<1>2. /\ rest \in Seq(Subscriptions) /\ rest # <<>>
      /\ \A t \in Subscriptions : In(t, rest) => Source(t) = n
  BY <1>1, ChannelTypes DEF Channel, Processing, Listed
<1>3. In(s, rest) /\ \A t : In(t, rest) => t = s \/ In(t, Tail(rest))
  BY <1>2, TailIn
<1>4. /\ process'[n].pc = IF Len(rest) = 1 THEN "done" ELSE "closing"
      /\ process'[n].rest = Tail(rest)
      /\ \A k \in Nodes \ {n} : process'[k] = process[k]
  BY <1>1, <1>2, NextOf
<1>5. Len(rest) = 1 => \A t : ~In(t, Tail(rest))
  <2>1. \A t : ~In(t, <<>>)
    BY DEF In
  <2> QED
    BY <1>2, <2>1, TailOf
<1>6. \A t : Source(t)' = Source(t) /\ Taken(t)' = Taken(t)
  BY DEF Source, Taken
<1>7. Ends(n)'
  BY <1>4 DEF Progress, Ends
<1>8. ASSUME NEW t \in Subscriptions, Source(t) = n
      PROVE  Waits(t)' /\ Calling(t)' /\ Served(t)'
  <2>1. CASE t = s
    BY <2>1 DEF Waits
  <2>2. CASE t # s
    <3>1. Waits(t) /\ Calling(t) /\ Served(t) /\ sub'[t] = sub[t]
      BY <2>2 DEF Progress
    <3>2. sub[t].call = "wait" => In(t, Tail(rest))
      BY <1>3, <1>8, <2>2, <3>1 DEF Waits
    <3>3. Waits(t)'
      BY <1>4, <1>5, <1>6, <1>8, <3>1, <3>2 DEF Waits
    <3>4. Calling(t)'
      BY <3>1 DEF Calling
    <3>5. Served(t)'
      BY <1>4, <1>6, <1>8, <3>1 DEF Served
    <3> QED
      BY <3>3, <3>4, <3>5
  <2> QED
    BY <2>1, <2>2
<1>9. /\ \A k \in Nodes \ {n} : process'[k] = process[k] /\ queue'[k] = queue[k]
      /\ \A t \in Subscriptions : Source(t) # n =>
            sub'[t] = sub[t] /\ handled'[t] = handled[t] /\ joined'[t] = joined[t]
      /\ \A t \in Subscriptions : sub[t].result = "error" => sub'[t].result = "error"
  BY <1>2, <1>3, <1>4
<1>10. failed => failed'
  OBVIOUS
<1> QED
  BY <1>7, <1>8, <1>9, <1>10, ChannelProgress

LEMMA ShutEnds ==
    ASSUME Inv, Progress, NEW n \in Nodes, Shut(n)
    PROVE  Progress'
<1> PICK s : s = Head(process[n].rest)
  OBVIOUS
<1>1. /\ UNCHANGED <<graph, launched, node, queue, closed, published>>
      /\ UNCHANGED <<cancelled, handled, joined, failed>> /\ process[n].pc = "closing"
      /\ \/ /\ sub' = [sub EXCEPT ![s].shut = TRUE]
            /\ UNCHANGED process
         \/ /\ sub[s].call \in {"remove", "returned"}
            /\ NextSubscriber(n, "done")
            /\ UNCHANGED sub
  BY DEF Shut, history
<1>2. s \in Subscriptions /\ Source(s) = n /\ sub \in [Subscriptions -> Calls]
  <2>1. TypeOK /\ Channel(n)
    BY DEF Inv
  <2>2. /\ process[n].rest \in Seq(Subscriptions) /\ process[n].rest # <<>>
        /\ \A t \in Subscriptions : In(t, process[n].rest) => Source(t) = n
    BY <1>1, <2>1, ChannelTypes DEF Channel, Processing, Listed
  <2>3. s \in Subscriptions /\ In(s, process[n].rest)
    BY <2>2, TailOf, TailIn
  <2> QED
    BY <2>1, <2>2, <2>3 DEF TypeOK
<1>3. \A t : Source(t)' = Source(t) /\ Taken(t)' = Taken(t)
  BY <1>1 DEF Source, Taken
<1>4. Waits(s) /\ Calling(s) /\ Served(s)
  BY <1>2 DEF Progress
<1>5. CASE sub' = [sub EXCEPT ![s].shut = TRUE] /\ UNCHANGED process
  <2>1. /\ \A t \in Subscriptions \ {s} : sub'[t] = sub[t]
        /\ sub'[s].call = sub[s].call /\ sub'[s].result = sub[s].result
        /\ sub'[s].by = sub[s].by /\ sub'[s].worker = sub[s].worker
        /\ sub'[s].inputs = sub[s].inputs /\ sub'[s].shut
    BY ONLY <1>2, <1>5 DEF Calls
  <2>2. Waits(s)'
    BY <1>1, <1>3, <1>4, <1>5, <2>1 DEF Waits
  <2>3. Calling(s)'
    BY <1>1, <1>4, <2>1 DEF Calling
  <2>4. Served(s)'
    BY <1>1, <1>2, <1>3, <1>4, <1>5, <2>1 DEF Served
  <2>5. failed => failed'
    BY <1>1
  <2> QED
    BY <1>1, <1>2, <1>5, <2>1, <2>2, <2>3, <2>4, <2>5, CallProgress
<1>6. CASE /\ sub[s].call \in {"remove", "returned"}
           /\ NextSubscriber(n, "done") /\ UNCHANGED sub
  <2>1. Calling(s)'
    BY <1>1, <1>4, <1>6 DEF Calling
  <2>2. Served(s)'
    <3>1. TypeOK /\ process[n].rest # <<>>
      BY <1>1 DEF Inv, Channel, Processing
    <3>2. process'[n].pc \in {"closing", "done"}
      BY <1>1, <1>6, <3>1, NextOf
    <3> QED
      BY <1>1, <1>2, <1>3, <1>4, <1>6, <3>2 DEF Served
  <2>3. /\ \A t \in Subscriptions \ {s} : sub'[t] = sub[t]
        /\ (sub[s].result = "error" => sub'[s].result = "error") /\ sub'[s].call # "wait"
    BY <1>6
  <2> QED
    BY <1>1, <1>2, <1>6, <2>1, <2>2, <2>3, PassedEnds
<1> QED
  BY <1>1, <1>5, <1>6

LEMMA SettleEnds ==
    ASSUME Inv, Progress, NEW n \in Nodes, Settle(n)
    PROVE  Progress'
<1> PICK s : s = Head(process[n].rest)
  OBVIOUS
<1> PICK result, pc : /\ result = IF process[n].pc = "settle" THEN "error" ELSE "nil"
                      /\ pc = IF process[n].pc = "settle" THEN "receive" ELSE "done"
  OBVIOUS
<1>1. /\ UNCHANGED <<graph, launched, node, queue, closed, published>>
      /\ UNCHANGED <<cancelled, handled, joined, failed>>
      /\ process[n].pc \in {"closing", "settle"} /\ NextSubscriber(n, pc)
      /\ sub[s].call = "wait" /\ sub[s].shut /\ sub[s].worker = "ended"
      /\ sub' = [sub EXCEPT ![s].call = "remove", ![s].result = result]
  BY DEF Settle, history
<1>2. TypeOK /\ Channel(n) /\ sub \in [Subscriptions -> Calls]
  BY DEF Inv, TypeOK
<1>3. /\ process[n].rest \in Seq(Subscriptions) /\ process[n].rest # <<>>
      /\ \A t \in Subscriptions : In(t, process[n].rest) => In(t, subscribers[n])
  <2>1. CASE process[n].pc = "closing"
    BY <1>2, <2>1, ChannelTypes DEF Channel, Processing
  <2>2. CASE process[n].pc = "settle"
    <3>1. PICK t \in Subscriptions : process[n].rest = <<t>> /\ subscribers[n] = <<t>>
      BY <1>2, <2>2 DEF Channel, Processing
    <3> QED
      BY <1>2, <3>1, ChannelTypes
  <2> QED
    BY <1>1, <2>1, <2>2
<1>4. s \in Subscriptions /\ In(s, process[n].rest)
  BY <1>3, TailOf, TailIn
<1>5. Source(s) = n
  BY <1>2, <1>3, <1>4 DEF Channel, Listed
<1>6. \A t : Source(t)' = Source(t) /\ Taken(t)' = Taken(t)
  BY <1>1 DEF Source, Taken
<1>7. Calling(s) /\ Served(s) /\ Followed(s)
  BY <1>2, <1>4, <1>5 DEF Progress, Channel
<1>8. /\ \A t \in Subscriptions \ {s} : sub'[t] = sub[t]
      /\ sub'[s].call = "remove" /\ sub'[s].result = result
      /\ sub'[s].by = sub[s].by /\ sub'[s].worker = sub[s].worker
      /\ sub'[s].inputs = sub[s].inputs /\ sub'[s].shut = sub[s].shut
  BY ONLY <1>1, <1>2, <1>4 DEF Calls
<1>9. sub[s].result = "none"
  <2>1. sub[s].result \in {"none", "nil", "error"}
    BY <1>2, <1>4 DEF Calls
  <2> QED
    BY <1>1, <1>7, <2>1 DEF Calling
<1>10. Calling(s)'
  BY <1>1, <1>7, <1>8 DEF Calling
<1>11. CASE process[n].pc = "closing"
  <2>1. Served(s)'
    <3> SUFFICES ASSUME ~failed
                 PROVE  Served(s)'
      BY <1>1 DEF Served
    <3>1. process'[n].pc \in {"closing", "done"}
      BY <1>1, <1>2, <1>3, <1>11, NextOf
    <3>2. sub[s].inputs = <<>> /\ joined[s] \in Nat
      BY <1>1, <1>7 DEF Served, Followed, Listening
    <3>3. joined[s] + Len(handled[s]) = Taken(n)
      <4> PICK a, j, z : a = Len(handled[s]) /\ j = joined[s] /\ z = Len(<<>>)
        OBVIOUS
      <4>1. a \in Nat /\ z = 0
        BY <1>2, <1>4, CallTypes
      <4>2. ~Owed(s)
        BY <1>5, <1>11 DEF Owed
      <4>3. j + a + z + 0 = Taken(n)
        BY <1>1, <1>5, <1>7, <3>2, <4>2 DEF Followed, Listening
      <4>4. j + a + z + 0 = j + a
        BY ONLY <3>2, <4>1, j = joined[s]
      <4> QED
        BY <4>3, <4>4
    <3> QED
      BY <1>1, <1>5, <1>6, <1>7, <1>8, <3>1, <3>2, <3>3 DEF Served
  <2>2. sub[s].result = "error" => sub'[s].result = "error"
    BY <1>9
  <2>3. sub'[s].call # "wait" /\ NextSubscriber(n, "done") /\ Head(process[n].rest) = s
    BY <1>1, <1>8, <1>11
  <2> QED
    BY <1>1, <1>4, <1>8, <1>10, <1>11, <2>1, <2>2, <2>3, PassedEnds
<1>12. CASE process[n].pc = "settle"
  <2>1. failed /\ Ends(n)
    BY <1>12 DEF Progress, Ends
  <2>2. /\ process'[n].pc \in {"receive", "settle"}
        /\ \A k \in Nodes \ {n} : process'[k] = process[k]
    BY <1>1, <1>2, <1>3, <1>12, NextOf
  <2>3. Ends(n)'
    BY <1>1, <1>12, <2>1, <2>2 DEF Ends
  <2>4. ASSUME NEW t \in Subscriptions, Source(t) = n
        PROVE  Waits(t)' /\ Calling(t)' /\ Served(t)'
    <3>1. Waits(t)'
      BY <1>6, <2>2, <2>4 DEF Waits
    <3>2. Served(t)'
      BY <1>1, <2>1 DEF Served
    <3>3. t # s => Calling(t)'
      <4> SUFFICES ASSUME t # s
                   PROVE  Calling(t)'
        OBVIOUS
      <4>1. sub'[t] = sub[t]
        BY <1>8
      <4>2. Calling(t)
        BY DEF Progress
      <4>3. node' = node
        BY <1>1
      <4> QED
        BY ONLY <4>1, <4>2, <4>3 DEF Calling
    <3> QED
      BY <1>10, <3>1, <3>2, <3>3
  <2>5. /\ \A k \in Nodes \ {n} : process'[k] = process[k] /\ queue'[k] = queue[k]
        /\ \A t \in Subscriptions : Source(t) # n =>
              sub'[t] = sub[t] /\ handled'[t] = handled[t] /\ joined'[t] = joined[t]
        /\ \A t \in Subscriptions : sub[t].result = "error" => sub'[t].result = "error"
    BY <1>1, <1>5, <1>8, <1>9, <2>2
  <2>6. failed => failed'
    BY <1>1
  <2> QED
    BY <1>1, <2>3, <2>4, <2>5, <2>6, ChannelProgress
<1> QED
  BY <1>1, <1>11, <1>12

-----------------------------------------------------------------------------
(* What a subscriber has handled in the end *)

LEMMA InitProgress == Init => Progress
<1> SUFFICES ASSUME Init
             PROVE  Progress
  OBVIOUS
<1>1. /\ \A n \in Nodes :
            node[n] = "new" /\ ~closed[n] /\ process[n].pc = "receive"
      /\ cancelled = FALSE
  BY DEF Init
<1>2. \A s \in Subscriptions :
         /\ sub[s].call = "check" /\ sub[s].worker = "off" /\ sub[s].by = "none"
         /\ sub[s].result = "none" /\ ~sub[s].shut
  BY DEF Init, NewSub
<1>3. \A n \in Nodes : Ends(n)
  BY <1>1 DEF Ends
<1>4. \A s \in Subscriptions : Waits(s) /\ Calling(s) /\ Served(s)
  BY <1>2 DEF Waits, Calling, Served
<1> QED
  BY <1>1, <1>3, <1>4 DEF Progress

LEMMA NextProgress == Inv /\ Progress /\ [Next]_vars => Progress'
<1> SUFFICES ASSUME Inv, Progress, [Next]_vars
             PROVE  Progress'
  OBVIOUS
<1>1. ASSUME NEW n \in Nodes, NodeStep(n)
      PROVE  Progress'
  <2>1. CASE LastFlushPanics(n) \/ FinishPanics(n)
    BY <2>1, StoppedEnds DEF LastFlushPanics, FinishPanics, Panic, channels, history
  <2> QED
    BY <1>1, <2>1, LaunchEnds, LoadEnds, LoadFailsEnds, SubscribedEnds, LastFlushEnds,
       FinishEnds, ReturnEnds DEF NodeStep
<1>2. ASSUME NEW n \in Nodes, ProcessStep(n)
      PROVE  Progress'
  <2>1. CASE PushPanics(n)
    BY <2>1, StoppedEnds DEF PushPanics, Panic, channels, history
  <2> QED
    BY <1>2, <2>1, ReceiveEnds, PushEnds, DrainEnds, ShutEnds, SettleEnds DEF ProcessStep
<1>3. ASSUME NEW s \in Subscriptions, SubscriptionStep(s)
      PROVE  Progress'
  BY <1>3, CheckEnds, AddEnds, UnsubscribeEnds, EmitEnds, EmitFailsEnds, WorkEnds,
     WorkerStops DEF SubscriptionStep
<1>4. CASE UNCHANGED vars
  BY <1>4, StoppedEnds DEF vars, channels, history
<1> QED
  BY <1>1, <1>2, <1>3, <1>4 DEF Next, Alive, AliveSubscriptions

LEMMA ProgressInvariant == FairSpec => [](Inv /\ Progress)
<1>1. Init => Inv /\ Progress
  BY InitInv, InitProgress
<1>2. Inv /\ Progress /\ [Next]_vars => (Inv /\ Progress)'
  BY NextInv, NextProgress
<1> QED
  BY <1>1, <1>2, PTL DEF FairSpec

LEMMA AllOf ==
    ASSUME NEW M, NEW p \in Seq(M), NEW h \in Seq(M), Len(h) = Len(p),
           \A i \in 1 .. Len(h) : h[i] = p[0 + i]
    PROVE  h = p
<1>1. \A i \in 1 .. Len(h) : h[i] = p[i]
  OBVIOUS
<1> QED
  BY <1>1, SeqEqual

LEMMA ToTheEnd ==
    ASSUME Inv, Progress, ~Late, ~failed, NEW s \in Subscriptions, joined[s] = 0,
           node[Source(s)] = "returned"
    PROVE  handled[s] = published[Source(s)]
<1> PICK n \in Nodes : Source(s) = n
  BY Shape DEF Inv
<1>1. TypeOK /\ Ends(n) /\ Waits(s) /\ Served(s) /\ Followed(s)
  BY DEF Inv, Channel, Progress
<1>2. process[n].pc = "done" /\ queue[n] = <<>>
  <2>1. ~cancelled
    BY DEF Progress, Late
  <2> QED
    BY <1>1, <2>1 DEF Ends
<1>3. /\ handled[s] \in Seq(Messages) /\ published[n] \in Seq(Messages)
      /\ sub[s].inputs \in Seq(Messages)
      /\ sub[s].call \in {"check", "add", "wait", "remove", "returned"}
  BY <1>1, ChannelTypes, CallTypes
<1> PICK h, p, x : h = Len(handled[s]) /\ p = Len(published[n]) /\ x = Len(sub[s].inputs)
  OBVIOUS
<1>4. h \in Nat /\ p \in Nat /\ x \in Nat /\ Taken(n) = p
  <2>1. Len(queue[n]) = 0
    BY <1>2
  <2> QED
    BY <1>3, <2>1 DEF Taken
<1>5. h = p
  <2>1. CASE sub[s].call = "wait"
    <3>1. 0 = p /\ 0 + h + x <= p
      BY <1>1, <1>2, <1>4, <2>1 DEF Waits, Followed
    <3> QED
      BY ONLY <1>4, <3>1
  <2>2. CASE sub[s].call \in {"remove", "returned"}
    <3>1. 0 + h = p
      BY <1>1, <1>4, <2>2 DEF Served
    <3> QED
      BY ONLY <1>4, <3>1
  <2>3. sub[s].call \notin {"check", "add"}
    BY <1>1 DEF Followed
  <2> QED
    BY <1>3, <2>1, <2>2, <2>3
<1>6. \A i \in 1 .. Len(handled[s]) : handled[s][i] = published[n][0 + i]
  BY <1>1 DEF Followed, Follows
<1> QED
  BY <1>3, <1>5, <1>6, AllOf

\* When Finish has returned in a run without failures, whoever subscribed
\* before the first message was taken off has handled all of the channel: it
\* is closed, emptied and passed on to the subscribers in this order, and
\* Process waits for the workers.
THEOREM NothingLeftBehind == FairSpec => []FinishedIsHandled
<1>1. Inv /\ Progress => FinishedIsHandled
  BY ToTheEnd DEF FinishedIsHandled
<1> QED
  BY <1>1, ProgressInvariant, PTL

-----------------------------------------------------------------------------
(* Counting *)

\* How often an item is in messages, and in the windows of a buffer.
CountOf(id, ms) == Count(id, IdsOf(ms))
CountIn(id, b) == Count(id, IdsIn(b))

\* Finitely many sequences.
Sequenced(f) == IsFiniteSet(DOMAIN f) /\ \A k \in DOMAIN f : \E S : f[k] \in Seq(S)

LEMMA InPlaces ==
    ASSUME NEW id, NEW f
    PROVE  /\ \A k \in DOMAIN f : \A j \in DOMAIN f[k] :
                 f[k][j] = id => <<k, j>> \in Places(id, f)
           /\ \A p \in Places(id, f) : \E k \in DOMAIN f : \E j \in DOMAIN f[k] :
                 p = <<k, j>> /\ f[k][j] = id
BY DEF Places

LEMMA PlacesFinite ==
    ASSUME NEW id, NEW f, Sequenced(f)
    PROVE  IsFiniteSet(Places(id, f)) /\ Count(id, f) \in Nat
<1> DEFINE P(k) == {k} \X {j \in DOMAIN f[k] : f[k][j] = id}
           F == [k \in DOMAIN f |-> P(k)]
           T == {P(k) : k \in DOMAIN f}
<1>1. ASSUME NEW k \in DOMAIN f
      PROVE  IsFiniteSet(P(k))
  <2>1. PICK S : f[k] \in Seq(S)
    BY DEF Sequenced
  <2>2. DOMAIN f[k] = 1 .. Len(f[k]) /\ Len(f[k]) \in Nat
    BY <2>1, LenProperties
  <2>3. IsFiniteSet(DOMAIN f[k])
    BY <2>2, FS_Interval
  <2>4. {j \in DOMAIN f[k] : f[k][j] = id} \in SUBSET DOMAIN f[k]
    OBVIOUS
  <2>5. IsFiniteSet({j \in DOMAIN f[k] : f[k][j] = id})
    BY <2>3, <2>4, FS_Subset
  <2>6. IsFiniteSet({k})
    BY FS_Singleton
  <2> QED
    BY <2>5, <2>6, FS_Product
<1>2. F \in Surjection(DOMAIN f, T)
  BY DEF Surjection
<1>3. IsFiniteSet(T)
  BY <1>2, FS_Surjection DEF Sequenced
<1>4. \A X \in T : IsFiniteSet(X)
  BY <1>1
<1>5. IsFiniteSet(UNION T)
  BY <1>3, <1>4, FS_UNION
<1>6. IsFiniteSet(Places(id, f))
  BY <1>5 DEF Places
<1> QED
  BY <1>6, FS_CardinalityType DEF Count

\* The same sequences in other places.
LEMMA Moved ==
    ASSUME NEW id, NEW f, NEW g, Sequenced(f), NEW h \in Bijection(DOMAIN f, DOMAIN g),
           \A k \in DOMAIN f : f[k] = g[h[k]]
    PROVE  Count(id, f) = Count(id, g)
<1> DEFINE H == [p \in Places(id, f) |-> <<h[p[1]], p[2]>>]
<1>1. /\ h \in [DOMAIN f -> DOMAIN g]
      /\ \A a, b \in DOMAIN f : h[a] = h[b] => a = b
      /\ \A c \in DOMAIN g : \E a \in DOMAIN f : h[a] = c
  BY DEF Bijection, Injection, Surjection, IsInjective
<1>2. ASSUME NEW p \in Places(id, f)
      PROVE  /\ H[p] \in Places(id, g)
             /\ p[1] \in DOMAIN f /\ p = <<p[1], p[2]>> /\ H[p] = <<h[p[1]], p[2]>>
  <2>1. PICK k \in DOMAIN f : \E j \in DOMAIN f[k] : p = <<k, j>> /\ f[k][j] = id
    BY InPlaces
  <2>2. PICK j \in DOMAIN f[k] : p = <<k, j>> /\ f[k][j] = id
    BY <2>1
  <2>3. h[k] \in DOMAIN g /\ j \in DOMAIN g[h[k]] /\ g[h[k]][j] = id
    BY <1>1, <2>2
  <2>4. <<h[k], j>> \in Places(id, g)
    BY <2>3, InPlaces
  <2> QED
    BY <2>2, <2>4
<1>3. H \in [Places(id, f) -> Places(id, g)]
  BY <1>2
<1>4. ASSUME NEW p \in Places(id, f), NEW q \in Places(id, f), H[p] = H[q]
      PROVE  p = q
  <2>1. h[p[1]] = h[q[1]] /\ p[2] = q[2]
    BY <1>2, <1>4
  <2>2. /\ p[1] \in DOMAIN f /\ p = <<p[1], p[2]>>
        /\ q[1] \in DOMAIN f /\ q = <<q[1], q[2]>>
    BY <1>2
  <2>3. p[1] = q[1]
    BY <1>1, <2>1, <2>2
  <2> QED
    BY ONLY <2>1, <2>2, <2>3
<1>5. ASSUME NEW q \in Places(id, g)
      PROVE  \E p \in Places(id, f) : H[p] = q
  <2>1. PICK c \in DOMAIN g : \E j \in DOMAIN g[c] : q = <<c, j>> /\ g[c][j] = id
    BY InPlaces
  <2>2. PICK j \in DOMAIN g[c] : q = <<c, j>> /\ g[c][j] = id
    BY <2>1
  <2>3. PICK k \in DOMAIN f : h[k] = c
    BY <1>1
  <2>4. j \in DOMAIN f[k] /\ f[k][j] = id
    BY <2>2, <2>3
  <2>5. <<k, j>> \in Places(id, f)
    BY <2>4, InPlaces
  <2>6. H[<<k, j>>] = q
    BY <2>2, <2>3, <2>5
  <2> QED
    BY <2>5, <2>6
<1> HIDE DEF H
<1>6. H \in Bijection(Places(id, f), Places(id, g))
  BY <1>3, <1>4, <1>5 DEF Bijection, Injection, Surjection, IsInjective
<1>7. ExistsBijection(Places(id, f), Places(id, g))
  BY <1>6 DEF ExistsBijection
<1> QED
  BY <1>7, PlacesFinite, FS_Bijection DEF Count

\* Every place of f is in one of the parts a and b of it.
PartsOf(f, a, b) ==
    /\ DOMAIN f = DOMAIN a \cup DOMAIN b /\ DOMAIN a \cap DOMAIN b = {}
    /\ \A k \in DOMAIN a : a[k] = f[k]
    /\ \A k \in DOMAIN b : b[k] = f[k]

LEMMA Parted ==
    ASSUME NEW id, NEW f, NEW a, NEW b, Sequenced(f), PartsOf(f, a, b)
    PROVE  /\ Sequenced(a) /\ Sequenced(b)
           /\ Count(id, f) = Count(id, a) + Count(id, b)
<1>1. IsFiniteSet(DOMAIN a) /\ IsFiniteSet(DOMAIN b)
  <2>1. DOMAIN a \in SUBSET DOMAIN f /\ DOMAIN b \in SUBSET DOMAIN f
    BY DEF PartsOf
  <2> QED
    BY <2>1, FS_Subset DEF Sequenced
<1>2. Sequenced(a) /\ Sequenced(b)
  BY <1>1 DEF Sequenced, PartsOf
<1>3. Places(id, f) = Places(id, a) \cup Places(id, b)
  BY DEF Places, PartsOf
<1>4. Places(id, a) \cap Places(id, b) = {}
  BY DEF Places, PartsOf
<1>5. /\ IsFiniteSet(Places(id, a)) /\ Cardinality(Places(id, a)) \in Nat
      /\ IsFiniteSet(Places(id, b)) /\ Cardinality(Places(id, b)) \in Nat
  BY <1>2, PlacesFinite DEF Count
<1>6. Cardinality(Places(id, f)) = Cardinality(Places(id, a)) + Cardinality(Places(id, b))
  <2> PICK X, Y : X = Places(id, a) /\ Y = Places(id, b)
    OBVIOUS
  <2>1. /\ IsFiniteSet(X) /\ Cardinality(X) \in Nat /\ IsFiniteSet(Y)
        /\ Cardinality(Y) \in Nat /\ X \cap Y = {}
    BY <1>4, <1>5
  <2>2. Cardinality(X \cup Y) = Cardinality(X) + Cardinality(Y) - Cardinality({})
    BY ONLY <2>1, FS_Union
  <2>3. Cardinality({}) = 0
    BY FS_EmptySet
  <2>4. Cardinality(X \cup Y) = Cardinality(X) + Cardinality(Y)
    BY ONLY <2>1, <2>2, <2>3
  <2> QED
    BY <1>3, <2>4
<1>7. Count(id, f) = Count(id, a) + Count(id, b)
  BY <1>5, <1>6 DEF Count
<1> QED
  BY <1>2, <1>7

LEMMA IdsTypes ==
    Watermark \in Messages /\ \A m \in Messages : m.ids \in Seq(Ids)
<1>1. Watermark \in Messages /\ Watermark.ids = <<>> /\ <<>> \in Seq(Ids)
  BY EmptySeq DEF Messages, Watermark
<1>2. \A m \in Messages : m = Watermark \/ m.ids \in Seq(Ids)
  BY DEF Messages
<1> QED
  BY <1>1, <1>2

LEMMA OfMessages ==
    ASSUME NEW id, NEW ms \in Seq(Messages)
    PROVE  /\ Len(ms) \in Nat /\ DOMAIN ms = 1 .. Len(ms)
           /\ DOMAIN IdsOf(ms) = 1 .. Len(ms)
           /\ \A k \in 1 .. Len(ms) : IdsOf(ms)[k] = ms[k].ids
           /\ Sequenced(IdsOf(ms)) /\ CountOf(id, ms) \in Nat
<1>1. /\ Len(ms) \in Nat /\ DOMAIN ms = 1 .. Len(ms)
      /\ \A k \in 1 .. Len(ms) : ms[k] \in Messages
  BY LenProperties, ElementOfSeq
<1>2. /\ DOMAIN IdsOf(ms) = 1 .. Len(ms)
      /\ \A k \in 1 .. Len(ms) : IdsOf(ms)[k] = ms[k].ids
  BY <1>1 DEF IdsOf
<1>3. \A k \in 1 .. Len(ms) : IdsOf(ms)[k] \in Seq(Ids)
  BY <1>1, <1>2, IdsTypes
<1>4. Sequenced(IdsOf(ms))
  BY <1>1, <1>2, <1>3, FS_Interval DEF Sequenced
<1> QED
  BY <1>1, <1>2, <1>4, PlacesFinite DEF CountOf

LEMMA OfWindows ==
    ASSUME NEW id, NEW b \in Buffers
    PROVE  /\ DOMAIN IdsIn(b) = Windows
           /\ \A w \in Windows : b[w].ids \in Seq(Ids) /\ IdsIn(b)[w] = b[w].ids
           /\ Sequenced(IdsIn(b)) /\ CountIn(id, b) \in Nat
<1>1. /\ DOMAIN IdsIn(b) = Windows
      /\ \A w \in Windows : b[w].ids \in Seq(Ids) /\ IdsIn(b)[w] = b[w].ids
  BY DEF Buffers, IdsIn
<1>2. Sequenced(IdsIn(b))
  BY <1>1, WindowsAssumption DEF Sequenced
<1> QED
  BY <1>1, <1>2, PlacesFinite DEF CountIn

LEMMA NoPlaces ==
    ASSUME NEW id, NEW f, \A k \in DOMAIN f : f[k] = <<>>
    PROVE  Count(id, f) = 0
<1>1. Places(id, f) = {}
  BY InPlaces
<1> QED
  BY <1>1, FS_EmptySet DEF Count

LEMMA CountOfNone ==
    ASSUME NEW id
    PROVE  CountOf(id, <<>>) = 0 /\ CountOf(id, <<Watermark>>) = 0
<1>1. \A k \in DOMAIN IdsOf(<<>>) : IdsOf(<<>>)[k] = <<>>
  BY DEF IdsOf
<1>2. \A k \in DOMAIN IdsOf(<<Watermark>>) : IdsOf(<<Watermark>>)[k] = <<>>
  BY DEF IdsOf, Watermark
<1> QED
  BY <1>1, <1>2, NoPlaces DEF CountOf

LEMMA CountOfAppend ==
    ASSUME NEW id, NEW ms \in Seq(Messages), NEW m \in Messages
    PROVE  CountOf(id, Append(ms, m)) = CountOf(id, ms) + CountOf(id, <<m>>)
<1> PICK l, f : l = Len(ms) /\ f = IdsOf(Append(ms, m))
  OBVIOUS
<1> PICK a, b, h : /\ a = [k \in 1 .. l |-> f[k]]
                   /\ b = [k \in {l + 1} |-> f[k]] /\ h = [k \in {l + 1} |-> 1]
  OBVIOUS
<1>1. /\ Append(ms, m) \in Seq(Messages) /\ <<m>> \in Seq(Messages) /\ Len(<<m>>) = 1
      /\ <<m>>[1] = m
  OBVIOUS
<1>2. /\ l \in Nat /\ Len(Append(ms, m)) = l + 1
      /\ \A k \in 1 .. l : Append(ms, m)[k] = ms[k]
      /\ Append(ms, m)[l + 1] = m
  OBVIOUS
<1>3. /\ DOMAIN f = 1 .. l + 1 /\ Sequenced(f)
      /\ \A k \in 1 .. l + 1 : f[k] = Append(ms, m)[k].ids
  BY <1>1, <1>2, OfMessages
<1>4. DOMAIN f = (1 .. l) \cup {l + 1} /\ (1 .. l) \cap {l + 1} = {}
  BY <1>2, <1>3
<1>5. Count(id, f) = Count(id, a) + Count(id, b) /\ Sequenced(b)
  <2>1. PartsOf(f, a, b)
    BY <1>3, <1>4 DEF PartsOf
  <2> QED
    BY <1>3, <2>1, Parted
<1>6. a = IdsOf(ms)
  <2>1. \A k \in 1 .. l : f[k] = ms[k].ids
    BY <1>2, <1>3
  <2>2. DOMAIN ms = 1 .. l
    BY OfMessages
  <2> QED
    BY <2>1, <2>2 DEF IdsOf
<1>7. Count(id, b) = Count(id, IdsOf(<<m>>))
  <2>1. DOMAIN b = {l + 1}
    OBVIOUS
  <2>2. DOMAIN IdsOf(<<m>>) = {1} /\ IdsOf(<<m>>)[1] = m.ids
    BY DEF IdsOf
  <2>3. h \in Bijection(DOMAIN b, DOMAIN IdsOf(<<m>>))
    BY <2>1, <2>2 DEF Bijection, Injection, Surjection, IsInjective
  <2>4. \A k \in DOMAIN b : b[k] = IdsOf(<<m>>)[h[k]]
    BY <1>2, <1>3, <2>2
  <2> QED
    BY <1>5, <2>3, <2>4, Moved
<1> QED
  BY <1>5, <1>6, <1>7 DEF CountOf

LEMMA CountOfTail ==
    ASSUME NEW id, NEW ms \in Seq(Messages), ms # <<>>
    PROVE  CountOf(id, ms) = CountOf(id, <<Head(ms)>>) + CountOf(id, Tail(ms))
<1> PICK l, f : l = Len(ms) /\ f = IdsOf(ms)
  OBVIOUS
<1> PICK a, b, h : /\ a = [k \in {1} |-> f[k]]
                   /\ b = [k \in 2 .. l |-> f[k]] /\ h = [k \in 2 .. l |-> k - 1]
  OBVIOUS
<1>1. /\ Head(ms) \in Messages /\ Head(ms) = ms[1] /\ Tail(ms) \in Seq(Messages)
      /\ l \in Nat /\ l >= 1 /\ Len(Tail(ms)) = l - 1
      /\ \A k \in 1 .. l - 1 : Tail(ms)[k] = ms[k + 1]
  BY TailOf
<1>2. /\ DOMAIN f = 1 .. l /\ Sequenced(f) /\ \A k \in 1 .. l : f[k] = ms[k].ids
  BY OfMessages
<1>3. DOMAIN f = {1} \cup 2 .. l /\ {1} \cap 2 .. l = {}
  BY <1>1, <1>2
<1>4. Count(id, f) = Count(id, a) + Count(id, b) /\ Sequenced(b)
  <2>1. PartsOf(f, a, b)
    BY <1>2, <1>3 DEF PartsOf
  <2> QED
    BY <1>2, <2>1, Parted
<1>5. a = IdsOf(<<Head(ms)>>)
  <2>1. /\ DOMAIN IdsOf(<<Head(ms)>>) = {1}
        /\ IdsOf(<<Head(ms)>>) = [k \in {1} |-> <<Head(ms)>>[k].ids]
    BY DEF IdsOf
  <2>2. f[1] = <<Head(ms)>>[1].ids
    BY <1>1, <1>2
  <2> QED
    BY <2>1, <2>2
<1>6. Count(id, b) = Count(id, IdsOf(Tail(ms)))
  <2>1. /\ DOMAIN IdsOf(Tail(ms)) = 1 .. l - 1
        /\ \A k \in 1 .. l - 1 : IdsOf(Tail(ms))[k] = Tail(ms)[k].ids
    BY <1>1, OfMessages
  <2>2. h \in Bijection(2 .. l, 1 .. l - 1)
    <3>1. h \in [2 .. l -> 1 .. l - 1]
      BY <1>1
    <3>2. \A c \in 1 .. l - 1 : c + 1 \in 2 .. l /\ h[c + 1] = c
      BY <1>1
    <3>3. \A i, j \in 2 .. l : h[i] = h[j] => i = j
      BY <1>1
    <3> QED
      BY <3>1, <3>2, <3>3 DEF Bijection, Injection, Surjection, IsInjective
  <2>3. ASSUME NEW k \in 2 .. l
        PROVE  b[k] = IdsOf(Tail(ms))[h[k]]
    <3>1. k - 1 \in 1 .. l - 1 /\ (k - 1) + 1 = k /\ k \in 1 .. l
      BY <1>1
    <3>2. b[k] = ms[k].ids
      BY <1>2, <3>1
    <3>3. Tail(ms)[k - 1] = ms[k]
      BY <1>1, <3>1
    <3> QED
      BY <2>1, <3>1, <3>2, <3>3
  <2>4. DOMAIN b = 2 .. l /\ DOMAIN IdsOf(Tail(ms)) = 1 .. l - 1
    BY <2>1
  <2> QED
    BY <1>4, <2>2, <2>3, <2>4, Moved
<1> QED
  BY <1>4, <1>5, <1>6 DEF CountOf

\* All items are in the windows outside of D, which r has.
Outside(D, b, r) ==
    /\ D \subseteq Windows /\ DOMAIN r = Windows \ D
    /\ \A w \in Windows \ D : r[w] = b[w].ids
    /\ \A w \in D : b[w].ids = <<>>

LEMMA Others ==
    ASSUME NEW id, NEW b \in Buffers, NEW D, NEW r, Outside(D, b, r)
    PROVE  CountIn(id, b) = Count(id, r)
<1> PICK f, a : f = IdsIn(b) /\ a = [w \in D |-> f[w]]
  OBVIOUS
<1>1. DOMAIN f = Windows /\ Sequenced(f) /\ \A w \in Windows : f[w] = b[w].ids
  BY OfWindows
<1>2. PartsOf(f, a, r)
  BY <1>1 DEF PartsOf, Outside
<1>3. Count(id, f) = Count(id, a) + Count(id, r) /\ Sequenced(r)
  BY <1>1, <1>2, Parted
<1>4. Count(id, a) = 0
  <2>1. \A w \in DOMAIN a : a[w] = <<>>
    BY <1>1 DEF Outside
  <2> QED
    BY <2>1, NoPlaces
<1>5. Count(id, r) \in Nat
  BY <1>3, PlacesFinite
<1> QED
  BY <1>3, <1>4, <1>5 DEF CountIn

\* The buffer b without the items of a window.
Without(w, b, x) ==
    x[w].ids = <<>> /\ \A v \in Windows \ {w} : x[v].ids = b[v].ids

LEMMA WindowApart ==
    ASSUME NEW id, NEW b \in Buffers, NEW w \in Windows, NEW m \in Messages,
           m.ids = b[w].ids, NEW x \in Buffers, Without(w, b, x)
    PROVE  CountIn(id, b) = CountOf(id, <<m>>) + CountIn(id, x)
<1> PICK f, a, r, h : /\ f = IdsIn(b) /\ a = [v \in {w} |-> f[v]]
                      /\ r = [v \in Windows \ {w} |-> f[v]] /\ h = [v \in {w} |-> 1]
  OBVIOUS
<1>1. DOMAIN f = Windows /\ Sequenced(f) /\ \A v \in Windows : f[v] = b[v].ids
  BY OfWindows
<1>2. PartsOf(f, a, r)
  BY <1>1 DEF PartsOf
<1>3. Count(id, f) = Count(id, a) + Count(id, r) /\ Sequenced(a)
  BY <1>1, <1>2, Parted
<1>4. Count(id, a) = CountOf(id, <<m>>)
  <2> PICK g : g = IdsOf(<<m>>)
    OBVIOUS
  <2>1. DOMAIN g = {1} /\ g[1] = m.ids /\ DOMAIN a = {w} /\ a[w] = m.ids
    BY <1>1 DEF IdsOf
  <2>2. h \in Bijection(DOMAIN a, DOMAIN g)
    BY <2>1 DEF Bijection, Injection, Surjection, IsInjective
  <2>3. \A k \in DOMAIN a : a[k] = g[h[k]]
    BY <2>1
  <2>4. Count(id, a) = Count(id, g)
    BY <1>3, <2>2, <2>3, Moved
  <2> QED
    BY <2>4 DEF CountOf
<1>5. CountIn(id, x) = Count(id, r)
  <2> PICK D : D = {w}
    OBVIOUS
  <2>1. Outside(D, x, r)
    BY <1>1 DEF Outside, Without
  <2> QED
    BY <2>1, Others
<1> QED
  BY <1>3, <1>4, <1>5 DEF CountIn

LEMMA OneMessage == \A k \in Messages : <<k>> \in Seq(Messages)
OBVIOUS

LEMMA IdsJoined ==
    ASSUME NEW id, NEW x \in Messages, NEW y \in Messages, NEW z \in Messages,
           x.ids = y.ids \o z.ids
    PROVE  CountOf(id, <<x>>) = CountOf(id, <<y>>) + CountOf(id, <<z>>)
<1> PICK q, r, u, a, b : /\ q = y.ids /\ r = z.ids /\ u = q \o r
                         /\ a = Len(q) /\ b = Len(r)
  OBVIOUS
<1> PICK f, g : f = IdsOf(Append(<<y>>, z)) /\ g = IdsOf(<<x>>)
  OBVIOUS
<1> DEFINE H == [p \in Places(id, f) |-> <<1, IF p[1] = 1 THEN p[2] ELSE a + p[2]>>]
<1>1. <<y>> \in Seq(Messages) /\ Len(<<y>>) = 1 /\ <<y>>[1] = y
  OBVIOUS
<1>2. CountOf(id, Append(<<y>>, z)) = CountOf(id, <<y>>) + CountOf(id, <<z>>)
  BY <1>1, CountOfAppend
<1>3. /\ a \in Nat /\ b \in Nat
      /\ DOMAIN q = 1 .. a /\ DOMAIN r = 1 .. b /\ DOMAIN u = 1 .. a + b
      /\ \A j \in 1 .. a : u[j] = q[j]
      /\ \A j \in 1 .. b : u[a + j] = r[j]
  <2>1. q \in Seq(Ids) /\ r \in Seq(Ids)
    BY IdsTypes
  <2>2. a \in Nat /\ b \in Nat /\ DOMAIN q = 1 .. a /\ DOMAIN r = 1 .. b
    BY <2>1, LenProperties
  <2>3. /\ u \in Seq(Ids) /\ Len(u) = a + b
        /\ \A j \in 1 .. a + b : u[j] = IF j <= a THEN q[j] ELSE r[j - a]
    <3>1. /\ q \o r \in Seq(Ids) /\ Len(q \o r) = Len(q) + Len(r)
          /\ \A j \in 1 .. Len(q) + Len(r) :
                (q \o r)[j] = IF j <= Len(q) THEN q[j] ELSE r[j - Len(q)]
      BY ONLY <2>1, ConcatProperties
    <3> QED
      BY ONLY <3>1, u = q \o r, a = Len(q), b = Len(r)
  <2>4. DOMAIN u = 1 .. a + b
    BY <2>3, LenProperties
  <2>5. \A j \in 1 .. a : u[j] = q[j]
    <3> TAKE j \in 1 .. a
    <3>1. j \in 1 .. a + b /\ j <= a
      BY ONLY <2>2, j \in 1 .. a
    <3> QED
      BY ONLY <2>3, <3>1
  <2>6. \A j \in 1 .. b : u[a + j] = r[j]
    <3> TAKE j \in 1 .. b
    <3>1. a + j \in 1 .. a + b /\ ~(a + j <= a) /\ (a + j) - a = j
      BY ONLY <2>2, j \in 1 .. b
    <3> QED
      BY ONLY <2>3, <3>1
  <2> QED
    BY <2>2, <2>4, <2>5, <2>6
<1>4. /\ DOMAIN f = {1, 2} /\ f[1] = q /\ f[2] = r
      /\ DOMAIN g = {1} /\ g[1] = u /\ Sequenced(f)
  <2>1. /\ Append(<<y>>, z) \in Seq(Messages) /\ Len(Append(<<y>>, z)) = 2
        /\ Append(<<y>>, z)[1] = y /\ Append(<<y>>, z)[2] = z
    BY <1>1, AppendProperties
  <2>2. /\ DOMAIN f = 1 .. 2 /\ Sequenced(f)
        /\ \A k \in 1 .. 2 : f[k] = Append(<<y>>, z)[k].ids
    BY <2>1, OfMessages
  <2>3. DOMAIN g = {1} /\ g[1] = u
    <3>1. g = [k \in {1} |-> <<x>>[k].ids] /\ <<x>>[1] = x
      BY DEF IdsOf
    <3> QED
      BY <3>1
  <2>4. 1 .. 2 = {1, 2}
    OBVIOUS
  <2> QED
    BY <2>1, <2>2, <2>3, <2>4
<1>5. ASSUME NEW p \in Places(id, f)
      PROVE  /\ \/ p[1] = 1 /\ p[2] \in 1 .. a /\ q[p[2]] = id
                \/ p[1] = 2 /\ p[2] \in 1 .. b /\ r[p[2]] = id
             /\ p = <<p[1], p[2]>>
  <2>1. PICK k \in DOMAIN f : \E j \in DOMAIN f[k] : p = <<k, j>> /\ f[k][j] = id
    BY InPlaces
  <2>2. PICK j \in DOMAIN f[k] : p = <<k, j>> /\ f[k][j] = id
    BY <2>1
  <2> QED
    BY <1>3, <1>4, <2>2
<1>6. ASSUME NEW p \in Places(id, f)
      PROVE  H[p] \in Places(id, g)
  <2> PICK i, j : i = p[2] /\ j = IF p[1] = 1 THEN i ELSE a + i
    OBVIOUS
  <2>1. j \in 1 .. a + b /\ u[j] = id
    <3>1. CASE p[1] = 1 /\ i \in 1 .. a /\ q[i] = id
      <4>1. i \in 1 .. a + b
        BY ONLY <1>3, <3>1
      <4> QED
        BY <1>3, <3>1, <4>1
    <3>2. CASE p[1] = 2 /\ i \in 1 .. b /\ r[i] = id
      <4>1. a + i \in 1 .. a + b
        BY ONLY <1>3, <3>2
      <4>2. j = a + i
        BY ONLY <3>2, j = IF p[1] = 1 THEN i ELSE a + i
      <4>3. u[a + i] = r[i]
        BY <1>3, <3>2
      <4> QED
        BY <3>2, <4>1, <4>2, <4>3
    <3> QED
      BY <1>5, <3>1, <3>2
  <2>2. <<1, j>> \in Places(id, g)
    BY <1>3, <1>4, <2>1, InPlaces
  <2> QED
    BY <2>2
<1>7. ASSUME NEW p \in Places(id, f), NEW t \in Places(id, f), H[p] = H[t]
      PROVE  p = t
  <2> PICK i, j : i = p[2] /\ j = t[2]
    OBVIOUS
  <2>1. (IF p[1] = 1 THEN i ELSE a + i) = (IF t[1] = 1 THEN j ELSE a + j)
    BY <1>7
  <2>2. /\ (p[1] = 1 /\ i \in 1 .. a) \/ (p[1] = 2 /\ i \in 1 .. b)
        /\ (t[1] = 1 /\ j \in 1 .. a) \/ (t[1] = 2 /\ j \in 1 .. b)
    BY <1>5
  <2>3. p[1] = t[1] /\ i = j
    BY ONLY <1>3, <2>1, <2>2
  <2>4. p = <<p[1], i>> /\ t = <<t[1], j>>
    BY <1>5
  <2> QED
    BY ONLY <2>3, <2>4
<1>8. ASSUME NEW t \in Places(id, g)
      PROVE  \E p \in Places(id, f) : H[p] = t
  <2>1. PICK k \in DOMAIN g : \E j \in DOMAIN g[k] : t = <<k, j>> /\ g[k][j] = id
    BY InPlaces
  <2>2. PICK j \in 1 .. a + b : t = <<1, j>> /\ u[j] = id
    <3>1. k = 1 /\ g[k] = u
      BY <1>4, <2>1
    <3>2. \E j \in DOMAIN u : t = <<1, j>> /\ u[j] = id
      BY ONLY <2>1, <3>1
    <3>3. DOMAIN u = 1 .. a + b
      BY <1>3
    <3> QED
      BY ONLY <3>2, <3>3
  <2>3. CASE j \in 1 .. a
    <3>1. <<1, j>> \in Places(id, f)
      BY <1>3, <1>4, <2>2, <2>3, InPlaces
    <3> QED
      BY <2>2, <3>1
  <2>4. CASE j \notin 1 .. a
    <3>1. j - a \in 1 .. b /\ a + (j - a) = j
      BY ONLY <1>3, <2>4, j \in 1 .. a + b
    <3>2. <<2, j - a>> \in Places(id, f)
      BY <1>3, <1>4, <2>2, <3>1, InPlaces
    <3>3. H[<<2, j - a>>] = <<1, j>>
      BY <3>1, <3>2
    <3> QED
      BY <2>2, <3>2, <3>3
  <2> QED
    BY <2>3, <2>4
<1> HIDE DEF H
<1>9. H \in Bijection(Places(id, f), Places(id, g))
  <2> PICK P, Q : P = Places(id, f) /\ Q = Places(id, g)
    OBVIOUS
  <2>1. H \in [P -> Q]
    BY <1>6 DEF H
  <2>2. /\ \A p, t \in P : H[p] = H[t] => p = t
        /\ \A t \in Q : \E p \in P : H[p] = t
    BY <1>7, <1>8
  <2>3. H \in Injection(P, Q)
    BY ONLY <2>1, <2>2 DEF Injection, IsInjective
  <2>4. H \in Surjection(P, Q)
    BY ONLY <2>1, <2>2 DEF Surjection
  <2>5. H \in Bijection(P, Q)
    BY ONLY <2>3, <2>4 DEF Bijection
  <2> QED
    BY <2>5
<1>10. ExistsBijection(Places(id, f), Places(id, g))
  BY <1>9 DEF ExistsBijection
<1>11. Cardinality(Places(id, g)) = Cardinality(Places(id, f))
  BY <1>4, <1>10, PlacesFinite, FS_Bijection
<1> QED
  BY <1>2, <1>11 DEF CountOf, Count

LEMMA FlushCounts ==
    ASSUME TypeOK, NEW id, NEW n, NEW x, x.b \in Buffers, x.t \in Triggers, NEW o \in Flush(n, x)
    PROVE  CountIn(id, x.b) = CountOf(id, o.emit) + CountIn(id, o.b)
<1> PICK D, f, a, r, c :
       /\ D = Due(n, x) /\ f = IdsIn(x.b) /\ a = [w \in D |-> f[w]]
       /\ r = [w \in Windows \ D |-> f[w]] /\ c = Cardinality(D)
  OBVIOUS
<1>1. D \subseteq Windows /\ IsFiniteSet(D) /\ c \in Nat
  <2>1. D \in SUBSET Windows
    BY DEF Due
  <2> QED
    BY <2>1, WindowsAssumption, FS_Subset, FS_CardinalityType
<1>2. PICK ws \in SetToSeqs(D) :
         /\ o.emit = [k \in DOMAIN ws |-> Group(ws[k], x.b[ws[k]])]
         /\ o.b = [w \in Windows |-> IF w \in D THEN NoItems ELSE x.b[w]]
  <2>1. PICK ws \in SetToSeqs(Due(n, x)) :
           o = [emit |-> [k \in DOMAIN ws |-> Group(ws[k], x.b[ws[k]])],
                b |-> [w \in Windows |-> IF w \in Due(n, x) THEN NoItems ELSE x.b[w]],
                t |-> [w \in Windows |-> IF w \in Due(n, x) THEN {} ELSE x.t[w]]]
    BY DEF Flush
  <2> QED
    BY <2>1
<1>3. DOMAIN f = Windows /\ Sequenced(f) /\ \A w \in Windows : f[w] = x.b[w].ids
  BY OfWindows
<1>4. Count(id, f) = Count(id, a) + Count(id, r) /\ Sequenced(a)
  <2>1. PartsOf(f, a, r)
    BY <1>1, <1>3 DEF PartsOf
  <2> QED
    BY <1>3, <2>1, Parted
<1>5. ws \in Bijection(1 .. c, D)
  <2>1. ws \in [1 .. c -> D] /\ \A i, j \in 1 .. c : ws[i] = ws[j] => i = j
    BY DEF SetToSeqs
  <2>2. ws \in Injection(1 .. c, D)
    BY <2>1 DEF Injection, IsInjective
  <2>3. Cardinality(1 .. c) = c
    BY <1>1, FS_Interval
  <2>4. ws \in Surjection(1 .. c, D)
    BY <1>1, <2>2, <2>3, FS_Injection
  <2> QED
    BY <2>2, <2>4 DEF Bijection
<1>6. Count(id, IdsOf(o.emit)) = Count(id, a)
  <2> PICK g : g = IdsOf(o.emit)
    OBVIOUS
  <2>1. DOMAIN ws = 1 .. c /\ \A k \in 1 .. c : ws[k] \in D
    BY <1>5 DEF Bijection, Injection
  <2>2. DOMAIN g = 1 .. c /\ \A k \in 1 .. c : g[k] = x.b[ws[k]].ids
    BY <1>2, <2>1 DEF IdsOf, Group
  <2>3. DOMAIN a = D /\ \A k \in DOMAIN g : g[k] = a[ws[k]]
    BY <1>1, <1>3, <2>1, <2>2
  <2>4. Sequenced(g)
    <3>1. IsFiniteSet(DOMAIN g)
      BY <1>1, <2>2, FS_Interval
    <3>2. \A k \in DOMAIN g : \E S : g[k] \in Seq(S)
      <4>1. \A w \in D : \E S : a[w] \in Seq(S)
        BY <1>4, <2>3 DEF Sequenced
      <4> TAKE k \in DOMAIN g
      <4>2. ws[k] \in D /\ g[k] = a[ws[k]]
        BY <2>1, <2>2, <2>3
      <4> QED
        BY ONLY <4>1, <4>2
    <3> QED
      BY <3>1, <3>2 DEF Sequenced
  <2>5. ws \in Bijection(DOMAIN g, DOMAIN a)
    BY <1>5, <2>2, <2>3
  <2> QED
    BY <2>3, <2>4, <2>5, Moved
<1>7. CountIn(id, o.b) = Count(id, r)
  <2>1. o.b \in Buffers
    BY FlushTypes
  <2>2. Outside(D, o.b, r)
    BY <1>1, <1>2, <1>3 DEF NoItems, Outside
  <2> QED
    BY <2>1, <2>2, Others
<1> QED
  BY <1>4, <1>6, <1>7 DEF CountOf, CountIn

LEMMA AppendedCounts ==
    ASSUME TypeOK, NEW id, NEW n \in Nodes, NEW m \in Messages, ~IsWatermark(m)
    PROVE  /\ Appended(n, m).b \in Buffers /\ Appended(n, m).t \in Triggers
           /\ CountIn(id, Appended(n, m).b) = CountIn(id, buffer[n]) + CountOf(id, <<m>>)
           /\ \A w \in Windows : \/ Appended(n, m).b[w].items > 0
                                 \/ Appended(n, m).b[w] = buffer[n][w]
<1> PICK b, w, x, items, old, y :
       /\ b = buffer[n] /\ w = m.at /\ x = Appended(n, m).b
       /\ old = b[w] /\ items = [items |-> old.items + 1, ids |-> old.ids \o m.ids]
       /\ y = [b EXCEPT ![w] = NoItems]
  OBVIOUS
<1>1. b \in Buffers /\ met[n] \in Triggers /\ w \in Windows /\ m.ids \in Seq(Ids)
  BY DEF TypeOK, Messages, IsWatermark
<1>2. old \in [items : Nat, ids : Seq(Ids)]
  BY <1>1 DEF Buffers
<1>3. items \in [items : Nat, ids : Seq(Ids)] /\ items.items > 0 /\ items.ids = old.ids \o m.ids
  <2>1. old.items \in Nat /\ old.ids \in Seq(Ids)
    BY <1>2
  <2>2. old.ids \o m.ids \in Seq(Ids)
    BY ONLY <1>1, <2>1
  <2>3. items.items = old.items + 1 /\ items.ids = old.ids \o m.ids
    BY ONLY items = [items |-> old.items + 1, ids |-> old.ids \o m.ids]
  <2>4. old.items + 1 \in Nat /\ old.items + 1 > 0
    BY ONLY <2>1
  <2> QED
    BY ONLY <2>2, <2>3, <2>4, items = [items |-> old.items + 1, ids |-> old.ids \o m.ids]
<1>4. x = [b EXCEPT ![w] = items]
  BY DEF Appended
<1>5. /\ x \in Buffers /\ x[w] = items /\ \A v \in Windows \ {w} : x[v] = b[v]
      /\ y \in Buffers /\ y[w] = NoItems /\ \A v \in Windows \ {w} : y[v] = b[v]
  BY ONLY <1>1, <1>3, <1>4, y = [b EXCEPT ![w] = NoItems], NoItemsType DEF Buffers
<1>6. Appended(n, m).t \in Triggers
  BY <1>1 DEF Appended, Triggers
<1> PICK g, h : g = Group(w, old) /\ h = Group(w, items)
  OBVIOUS
<1>7. /\ g \in Messages /\ h \in Messages /\ g.ids = old.ids /\ h.ids = old.ids \o m.ids
  <2>1. g \in Messages /\ h \in Messages
    BY <1>1, <1>2, <1>3, GroupType
  <2> QED
    BY <1>3, <2>1 DEF Group
<1>8. CountIn(id, b) = CountOf(id, <<g>>) + CountIn(id, y)
  <2>1. Without(w, b, y)
    BY ONLY <1>5 DEF Without, NoItems
  <2>2. g.ids = b[w].ids
    BY <1>7
  <2>3. b \in Buffers /\ w \in Windows /\ g \in Messages /\ y \in Buffers
    BY <1>1, <1>5, <1>7
  <2> QED
    BY ONLY <2>1, <2>2, <2>3, WindowApart
<1>9. CountIn(id, x) = CountOf(id, <<h>>) + CountIn(id, y)
  <2>1. Without(w, x, y)
    BY ONLY <1>5 DEF Without, NoItems
  <2>2. h.ids = x[w].ids
    BY <1>3, <1>5, <1>7
  <2>3. x \in Buffers /\ w \in Windows /\ h \in Messages /\ y \in Buffers
    BY <1>1, <1>5, <1>7
  <2> QED
    BY ONLY <2>1, <2>2, <2>3, WindowApart
<1>10. CountOf(id, <<h>>) = CountOf(id, <<g>>) + CountOf(id, <<m>>)
  <2>1. h.ids = g.ids \o m.ids
    BY <1>7
  <2> QED
    BY ONLY <1>7, <2>1, m \in Messages, IdsJoined
<1>11. /\ CountOf(id, <<g>>) \in Nat /\ CountOf(id, <<m>>) \in Nat /\ CountIn(id, y) \in Nat
  <2>1. <<g>> \in Seq(Messages) /\ <<m>> \in Seq(Messages)
    BY ONLY <1>7, m \in Messages, OneMessage
  <2> QED
    BY <1>5, <2>1, OfMessages, OfWindows
<1>12. CountIn(id, x) = CountIn(id, b) + CountOf(id, <<m>>)
  BY ONLY <1>8, <1>9, <1>10, <1>11
<1>13. \A v \in Windows : x[v].items > 0 \/ x[v] = b[v]
  BY <1>3, <1>5
<1> QED
  BY <1>5, <1>6, <1>12, <1>13

LEMMA SignalledTypes ==
    ASSUME TypeOK, NEW n \in Nodes
    PROVE  Signalled(n).b = buffer[n] /\ buffer[n] \in Buffers /\ Signalled(n).t \in Triggers
<1>1. buffer[n] \in Buffers /\ met[n] \in Triggers
  BY DEF TypeOK
<1> QED
  BY <1>1 DEF Signalled, Triggers

\* What a handler is called with, and what was in its windows, is published or
\* in its windows afterwards.
LEMMA OutcomeCounts ==
    ASSUME TypeOK, NEW id, NEW n \in Nodes, NEW m \in Messages, NEW o \in Outcomes(n, m)
    PROVE  CountIn(id, buffer[n]) + CountOf(id, <<m>>) = CountOf(id, o.emit) + CountIn(id, o.b)
<1>1. /\ CountIn(id, buffer[n]) \in Nat /\ CountOf(id, <<m>>) \in Nat
  <2>1. <<m>> \in Seq(Messages)
    OBVIOUS
  <2> QED
    BY <2>1, SignalledTypes, OfMessages, OfWindows
<1>2. CASE graph[n].kind # "window"
  <2>1. o.emit = <<m>> /\ o.b = buffer[n]
    BY <1>2 DEF Outcomes
  <2> QED
    BY <1>1, <2>1
<1>3. CASE graph[n].kind = "window" /\ ~IsWatermark(m)
  <2>1. o \in Flush(n, Appended(n, m))
    BY <1>3 DEF Outcomes
  <2> PICK x : x = Appended(n, m)
    OBVIOUS
  <2>2. /\ x.b \in Buffers /\ x.t \in Triggers
        /\ CountIn(id, x.b) = CountIn(id, buffer[n]) + CountOf(id, <<m>>)
    BY <1>3, AppendedCounts
  <2>3. CountIn(id, x.b) = CountOf(id, o.emit) + CountIn(id, o.b)
    <3>1. x.t \in Triggers /\ o \in Flush(n, x)
      BY <2>1, <2>2
    <3> QED
      BY ONLY TypeOK, <2>2, <3>1, FlushCounts
  <2> QED
    BY <2>2, <2>3
<1>4. CASE graph[n].kind = "window" /\ IsWatermark(m)
  <2> PICK x : x = Signalled(n)
    OBVIOUS
  <2>1. PICK f \in Flush(n, x) : o = [f EXCEPT !.emit = Append(@, Watermark)]
    BY <1>4 DEF Outcomes
  <2>2. x.b = buffer[n] /\ x.b \in Buffers /\ x.t \in Triggers
    BY SignalledTypes
  <2>3. CountIn(id, x.b) = CountOf(id, f.emit) + CountIn(id, f.b)
    <3>1. x.t \in Triggers /\ f \in Flush(n, x)
      BY <2>2
    <3> QED
      BY ONLY TypeOK, <2>2, <3>1, FlushCounts
  <2>4. o.emit = Append(f.emit, Watermark) /\ o.b = f.b
    <3>1. PICK e, b, t : f = [emit |-> e, b |-> b, t |-> t]
      BY DEF Flush
    <3> QED
      BY ONLY <2>1, <3>1
  <2>5. f.emit \in Seq(Messages) /\ f.b \in Buffers
    BY <2>2, FlushTypes
  <2>6. CountOf(id, o.emit) = CountOf(id, f.emit) + CountOf(id, <<Watermark>>)
    BY <2>4, <2>5, IdsTypes, CountOfAppend
  <2>7. CountOf(id, <<m>>) = 0 /\ CountOf(id, <<Watermark>>) = 0
    BY <1>4, CountOfNone DEF IsWatermark
  <2>8. CountOf(id, f.emit) \in Nat /\ CountIn(id, f.b) \in Nat
    BY <2>5, OfMessages, OfWindows
  <2> QED
    BY <1>1, <2>2, <2>3, <2>4, <2>6, <2>7, <2>8
<1> QED
  BY <1>2, <1>3, <1>4

\* A window without items has none of their parts.
Filled(b) == \A w \in Windows : b[w].items = 0 => b[w].ids = <<>>

LEMMA FlushFilled ==
    ASSUME NEW n, NEW x, NEW o \in Flush(n, x), Filled(x.b)
    PROVE  Filled(o.b)
<1>1. \A w \in Windows : o.b[w] = x.b[w] \/ o.b[w] = NoItems
  <2>1. PICK e, t : o = [emit |-> e,
                         b |-> [w \in Windows |-> IF w \in Due(n, x) THEN NoItems ELSE x.b[w]],
                         t |-> t]
    BY DEF Flush
  <2> QED
    BY <2>1
<1> QED
  BY <1>1 DEF Filled, NoItems

LEMMA OutcomeFilled ==
    ASSUME TypeOK, NEW n \in Nodes, NEW m \in Messages, NEW o \in Outcomes(n, m),
           Filled(buffer[n])
    PROVE  Filled(o.b) /\ (graph[n].kind # "window" => o.b = buffer[n])
<1>1. CASE graph[n].kind # "window"
  BY <1>1 DEF Outcomes
<1>2. CASE graph[n].kind = "window" /\ ~IsWatermark(m)
  <2>1. o \in Flush(n, Appended(n, m))
    BY <1>2 DEF Outcomes
  <2>2. Filled(Appended(n, m).b)
    <3>1. \A w \in Windows : \/ Appended(n, m).b[w].items > 0
                             \/ Appended(n, m).b[w] = buffer[n][w]
      BY <1>2, AppendedCounts
    <3> QED
      BY <3>1 DEF Filled
  <2> QED
    BY <1>2, <2>1, <2>2, FlushFilled
<1>3. CASE graph[n].kind = "window" /\ IsWatermark(m)
  <2>1. PICK f \in Flush(n, Signalled(n)) : o = [f EXCEPT !.emit = Append(@, Watermark)]
    BY <1>3 DEF Outcomes
  <2>2. o.b = f.b
    <3>1. PICK e, b, t : f = [emit |-> e, b |-> b, t |-> t]
      BY DEF Flush
    <3> QED
      BY ONLY <2>1, <3>1
  <2>3. Filled(f.b)
    BY SignalledTypes, FlushFilled
  <2> QED
    BY <1>3, <2>2, <2>3
<1> QED
  BY <1>1, <1>2, <1>3

-----------------------------------------------------------------------------
(* What becomes of an item *)

\* What the k-th subscription of n has been called with, and has still to publish.
CountHandled(n, k, id) ==
    IF <<n, k>> \in Subscriptions THEN CountOf(id, handled[<<n, k>>]) ELSE 0
CountEmit(n, k, id) ==
    IF <<n, k>> \in Subscriptions THEN CountOf(id, sub[<<n, k>>].emit) ELSE 0

\* What the handlers of n were called with is published, or in a window, or
\* about to be published.
Conserved(n) ==
    ~failed /\ graph[n].kind # "load" => \A id \in Ids :
        CountOf(id, published[n]) + CountIn(id, buffer[n])
           + (CountEmit(n, 1, id) + CountEmit(n, 2, id))
        = CountHandled(n, 1, id) + CountHandled(n, 2, id)

\* Only windows have items, and not after the last look at them.
Empty(n) == \A w \in Windows : buffer[n][w].ids = <<>>
Emptied(n) ==
    /\ Filled(buffer[n])
    /\ graph[n].kind # "window" => Empty(n)
    /\ ~failed /\ Triggered(n, {"watermark"}) /\ node[n] \in {"finish", "closing", "returned"} =>
          cancelled \/ Empty(n)

\* A node goes on when its calls of Subscribe have returned.
Passed(n) ==
    graph[n].kind # "load" /\ node[n] \in {"flush", "finish", "closing", "returned"} =>
        cancelled \/ \A s \in Subscriptions : s[1] = n => sub[s].call = "returned"

\* A handler that has nothing to publish has returned, and a call of Subscribe
\* that has returned without an error had subscribed.
Idle(s) ==
    /\ sub[s].by = "none" => sub[s].emit = <<>>
    /\ sub[s].call = "returned" => joined[s] \in Nat \/ sub[s].result = "error"

Accounts ==
    /\ \A n \in Nodes : Conserved(n) /\ Emptied(n) /\ Passed(n)
    /\ \A s \in Subscriptions : Idle(s)

LEMMA SubscriptionOf ==
    ASSUME NEW s \in Subscriptions
    PROVE  s = <<s[1], 1>> \/ s = <<s[1], 2>>
<1>1. PICK n \in Nodes, k \in 1 .. 2 : s = <<n, k>>
  BY DEF Subscriptions
<1>2. k = 1 \/ k = 2
  BY <1>1
<1> QED
  BY <1>1, <1>2

\* The channel and the windows of a node, and its handlers, are as before.
SameItems(n) ==
    /\ published'[n] = published[n] /\ buffer'[n] = buffer[n]
    /\ \A s \in Subscriptions : s[1] = n =>
          sub'[s].emit = sub[s].emit /\ handled'[s] = handled[s]

LEMMA ConservedKept ==
    ASSUME graph' = graph, failed => failed', NEW n \in Nodes, Conserved(n), SameItems(n)
    PROVE  Conserved(n)'
<1>1. Subscriptions' = Subscriptions /\ Ids' = Ids
  BY SameGraph
<1>2. \A k, id : CountHandled(n, k, id)' = CountHandled(n, k, id)
  BY <1>1 DEF CountHandled, SameItems
<1>3. \A k, id : CountEmit(n, k, id)' = CountEmit(n, k, id)
  BY <1>1 DEF CountEmit, SameItems
<1>4. published'[n] = published[n] /\ buffer'[n] = buffer[n]
  BY DEF SameItems
<1> QED
  BY <1>1, <1>2, <1>3, <1>4 DEF Conserved

LEMMA EmptiedKept ==
    ASSUME graph' = graph, cancelled => cancelled', failed => failed',
           NEW n \in Nodes, Emptied(n), buffer'[n] = buffer[n],
           node'[n] = node[n] \/ node'[n] \notin {"finish", "closing", "returned"}
    PROVE  Emptied(n)'
BY DEF Emptied, Empty, Triggered

LEMMA PassedKept ==
    ASSUME graph' = graph, cancelled => cancelled', NEW n \in Nodes, Passed(n),
           node'[n] = node[n] \/ node'[n] \notin {"flush", "finish", "closing", "returned"},
           \A s \in Subscriptions : sub[s].call = "returned" => sub'[s].call = "returned"
    PROVE  Passed(n)'
BY SameGraph DEF Passed

\* What is left to prove of a step at node n.
LEMMA Accounted ==
    ASSUME Accounts, graph' = graph, cancelled => cancelled', failed => failed',
           NEW n \in Nodes, Conserved(n)', Emptied(n)', Passed(n)',
           \A k \in Nodes \ {n} : node'[k] = node[k] /\ SameItems(k),
           \A s \in Subscriptions : sub[s].call = "returned" => sub'[s].call = "returned",
           \A s \in Subscriptions : Idle(s)'
    PROVE  Accounts'
<1>1. Nodes' = Nodes /\ Subscriptions' = Subscriptions
  BY SameGraph
<1>2. ASSUME NEW k \in Nodes, k # n
      PROVE  Conserved(k)' /\ Emptied(k)' /\ Passed(k)'
  <2>1. Conserved(k) /\ Emptied(k) /\ Passed(k) /\ SameItems(k) /\ node'[k] = node[k]
    BY <1>2 DEF Accounts
  <2>2. buffer'[k] = buffer[k]
    BY <2>1 DEF SameItems
  <2> QED
    BY <2>1, <2>2, ConservedKept, EmptiedKept, PassedKept
<1> QED
  BY <1>1, <1>2 DEF Accounts

LEMMA IdleKept ==
    ASSUME NEW s \in Subscriptions, Idle(s), sub'[s] = sub[s], joined'[s] = joined[s]
    PROVE  Idle(s)'
BY DEF Idle

\* A step of a node that leaves the items where they are.
LEMMA NodeAccounts ==
    ASSUME Accounts, UNCHANGED <<graph, published, buffer, handled, sub, joined, failed>>,
           cancelled => cancelled',
           NEW n \in Nodes, \A k \in Nodes \ {n} : node'[k] = node[k], Emptied(n)', Passed(n)'
    PROVE  Accounts'
<1>1. \A k \in Nodes : SameItems(k)
  BY DEF SameItems
<1>2. Conserved(n)'
  BY <1>1, ConservedKept DEF Accounts
<1>3. \A s \in Subscriptions : Idle(s)'
  BY IdleKept DEF Accounts
<1> QED
  BY <1>1, <1>2, <1>3, Accounted

\* A step of a subscription that does.
LEMMA CallAccounts ==
    ASSUME Inv, Accounts, UNCHANGED <<graph, node, published, buffer, handled, cancelled, failed>>,
           NEW s \in Subscriptions, Idle(s)', sub'[s].emit = sub[s].emit,
           sub[s].call = "returned" => sub'[s].call = "returned",
           \A t \in Subscriptions \ {s} : sub'[t] = sub[t] /\ joined'[t] = joined[t]
    PROVE  Accounts'
<1> PICK n \in Nodes : n = s[1]
  BY Shape DEF Inv
<1>1. \A t \in Subscriptions :
         /\ sub'[t].emit = sub[t].emit
         /\ sub[t].call = "returned" => sub'[t].call = "returned"
  OBVIOUS
<1>2. \A k \in Nodes : SameItems(k)
  BY <1>1 DEF SameItems
<1>3. Conserved(n)' /\ Emptied(n)' /\ Passed(n)'
  BY <1>1, <1>2, ConservedKept, EmptiedKept, PassedKept DEF Accounts
<1>4. \A t \in Subscriptions : Idle(t)'
  BY IdleKept DEF Accounts
<1> QED
  BY <1>1, <1>2, <1>3, <1>4, Accounted

\* A panic, or no step at all.
LEMMA StoppedAccounts ==
    ASSUME Accounts, UNCHANGED <<graph, node, published, buffer, handled>>,
           UNCHANGED <<sub, joined, cancelled, failed>>
    PROVE  Accounts'
<1>1. Nodes' = Nodes /\ Subscriptions' = Subscriptions
  BY SameGraph
<1>2. \A n \in Nodes : SameItems(n)
  BY DEF SameItems
<1>3. \A n \in Nodes : Conserved(n)' /\ Emptied(n)' /\ Passed(n)'
  BY <1>2, ConservedKept, EmptiedKept, PassedKept DEF Accounts
<1>4. \A s \in Subscriptions : Idle(s)'
  BY IdleKept DEF Accounts
<1> QED
  BY <1>1, <1>3, <1>4 DEF Accounts

LEMMA LaunchAccounts ==
    ASSUME Inv, Accounts, NEW n \in Nodes, Launch(n)
    PROVE  Accounts'
<1>1. /\ UNCHANGED <<graph, published, buffer, handled, sub, joined, failed>>
      /\ cancelled' = cancelled
      /\ node' = [node EXCEPT ![n] =
                     IF cancelled THEN "returned"
                     ELSE IF graph[n].kind = "load" THEN "load" ELSE "subscribe"]
  BY DEF Launch, channels, windows, history
<1>2. /\ \A k \in Nodes \ {n} : node'[k] = node[k]
      /\ (node'[n] = "returned" /\ cancelled) \/ node'[n] \in {"load", "subscribe"}
  BY <1>1 DEF Inv, TypeOK
<1>3. Emptied(n) /\ Passed(n)
  BY DEF Accounts
<1>4. Emptied(n)'
  BY <1>1, <1>2, <1>3 DEF Emptied, Empty
<1>5. Passed(n)'
  BY <1>1, <1>2 DEF Passed
<1> QED
  BY <1>1, <1>2, <1>4, <1>5, NodeAccounts

LEMMA LoadFailsAccounts ==
    ASSUME Inv, Accounts, NEW n \in Nodes, LoadFails(n)
    PROVE  Accounts'
<1>1. /\ UNCHANGED <<graph, published, buffer, handled, sub, joined, failed>>
      /\ cancelled' /\ UNCHANGED cancelled
      /\ node' = [node EXCEPT ![n] = "finish"]
  BY DEF LoadFails, Refused, channels, windows, history
<1>2. \A k \in Nodes \ {n} : node'[k] = node[k]
  BY <1>1 DEF Inv, TypeOK
<1>3. Emptied(n)
  BY DEF Accounts
<1>4. Emptied(n)'
  BY <1>1, <1>3 DEF Emptied, Empty
<1>5. Passed(n)'
  BY <1>1 DEF Passed
<1> QED
  BY <1>1, <1>2, <1>4, <1>5, NodeAccounts

LEMMA SubscribedAccounts ==
    ASSUME Inv, Accounts, NEW n \in Nodes, Subscribed(n)
    PROVE  Accounts'
<1> PICK err : err = (/\ graph[n].kind # "join"
                      /\ \E s \in {t \in Subscriptions : t[1] = n} : sub[s].result = "error")
  OBVIOUS
<1>1. /\ UNCHANGED <<graph, published, buffer, handled, sub, joined, failed>>
      /\ \A s \in {t \in Subscriptions : t[1] = n} : sub[s].call = "returned"
      /\ cancelled' = (cancelled \/ err)
      /\ node' = [node EXCEPT ![n] =
                     IF err THEN "returned"
                     ELSE IF graph[n].kind = "window" THEN "flush" ELSE "finish"]
  BY DEF Subscribed, channels, windows, history
<1>2. /\ \A k \in Nodes \ {n} : node'[k] = node[k]
      /\ \/ node'[n] = "returned" /\ err
         \/ node'[n] = "flush"
         \/ node'[n] = "finish" /\ graph[n].kind # "window"
  BY <1>1 DEF Inv, TypeOK
<1>3. Emptied(n)
  BY DEF Accounts
<1>4. Emptied(n)'
  BY <1>1, <1>2, <1>3 DEF Emptied, Empty
<1>5. Passed(n)'
  <2>1. Subscriptions' = Subscriptions
    BY <1>1, SameGraph
  <2> QED
    BY <1>1, <2>1 DEF Passed
<1>6. cancelled => cancelled'
  BY <1>1
<1> QED
  BY <1>1, <1>2, <1>4, <1>5, <1>6, NodeAccounts

LEMMA FinishAccounts ==
    ASSUME Inv, Accounts, NEW n \in Nodes, Finish(n) \/ Return(n)
    PROVE  Accounts'
<1>1. /\ UNCHANGED <<graph, published, buffer, handled, sub, joined, failed>>
      /\ UNCHANGED cancelled /\ node[n] \in {"finish", "closing"}
      /\ \E x \in {"closing", "returned"} : node' = [node EXCEPT ![n] = x]
  BY DEF Finish, Return, channels, windows, history
<1>2. node'[n] \in {"closing", "returned"} /\ \A k \in Nodes \ {n} : node'[k] = node[k]
  BY <1>1 DEF Inv, TypeOK
<1>3. Emptied(n) /\ Passed(n)
  BY DEF Accounts
<1>4. Emptied(n)'
  BY <1>1, <1>2, <1>3 DEF Emptied, Empty, Triggered
<1>5. Passed(n)'
  BY <1>1, <1>2, <1>3, SameGraph DEF Passed
<1> QED
  BY <1>1, <1>2, <1>4, <1>5, NodeAccounts

\* No window is due in the end: none has items, or they wait for something else.
LEMMA FlushedAccounts ==
    ASSUME Inv, Accounts, NEW n \in Nodes, LastFlush(n), Due(n, Signalled(n)) = {}
    PROVE  Accounts'
<1>1. /\ UNCHANGED <<graph, published, buffer, handled, sub, joined, failed>>
      /\ UNCHANGED cancelled /\ node[n] = "flush" /\ node' = [node EXCEPT ![n] = "finish"]
  BY DEF LastFlush, windows
<1>2. node'[n] = "finish" /\ \A k \in Nodes \ {n} : node'[k] = node[k]
  BY <1>1 DEF Inv, TypeOK
<1>3. Emptied(n) /\ Passed(n)
  BY DEF Accounts
<1>4. Triggered(n, {"watermark"}) => Empty(n)
  <2> SUFFICES ASSUME Triggered(n, {"watermark"}), NEW w \in Windows
               PROVE  buffer[n][w].ids = <<>>
    BY DEF Empty
  <2>1. CASE buffer[n][w].items > 0
    <3>1. Signalled(n).b[w].items > 0 /\ "watermark" \in Signalled(n).t[w]
      BY <2>1 DEF Signalled
    <3>2. Triggered(n, Signalled(n).t[w])
      BY <3>1 DEF Triggered
    <3> QED
      BY <3>1, <3>2 DEF Due
  <2>2. CASE buffer[n][w].items = 0
    BY <1>3, <2>2 DEF Emptied, Filled
  <2>3. buffer[n][w].items \in Nat
    BY DEF Inv, TypeOK, Buffers
  <2> QED
    BY <2>1, <2>2, <2>3
<1>5. Emptied(n)'
  BY <1>1, <1>3, <1>4 DEF Emptied, Empty, Triggered
<1>6. Passed(n)'
  BY <1>1, <1>2, <1>3, SameGraph DEF Passed
<1> QED
  BY <1>1, <1>2, <1>5, <1>6, NodeAccounts

LEMMA CheckAccounts ==
    ASSUME Inv, Accounts, NEW s \in Subscriptions, Check(s)
    PROVE  Accounts'
<1>1. /\ UNCHANGED <<graph, node, published, buffer, handled, cancelled, failed, joined>>
      /\ sub[s].call = "check"
      /\ \/ sub' = [sub EXCEPT ![s].call = "returned", ![s].result = "error"]
         \/ sub' = [sub EXCEPT ![s].call = "add", ![s].worker = "running"]
  BY DEF Check, channels, windows, history
<1>2. /\ \A t \in Subscriptions \ {s} : sub'[t] = sub[t]
      /\ sub'[s].by = sub[s].by /\ sub'[s].emit = sub[s].emit
      /\ sub'[s].call = "returned" => sub'[s].result = "error"
  <2>1. sub \in [Subscriptions -> Calls]
    BY DEF Inv, TypeOK
  <2> QED
    BY ONLY <1>1, <2>1, s \in Subscriptions DEF Calls
<1>3. Idle(s)'
  BY <1>1, <1>2 DEF Accounts, Idle
<1> QED
  BY <1>1, <1>2, <1>3, CallAccounts

LEMMA AddAccounts ==
    ASSUME Inv, Accounts, NEW s \in Subscriptions, Add(s)
    PROVE  Accounts'
<1>1. /\ UNCHANGED <<graph, node, published, buffer, handled, cancelled, failed>>
      /\ sub[s].call = "add" /\ sub' = [sub EXCEPT ![s].call = "wait"]
      /\ \E j : joined' = [joined EXCEPT ![s] = j]
  BY DEF Add, windows
<1>2. /\ \A t \in Subscriptions \ {s} : sub'[t] = sub[t] /\ joined'[t] = joined[t]
      /\ sub'[s].by = sub[s].by /\ sub'[s].emit = sub[s].emit /\ sub'[s].call = "wait"
  <2>1. sub \in [Subscriptions -> Calls] /\ joined \in [Subscriptions -> Nat \cup {-1}]
    BY DEF Inv, TypeOK
  <2> QED
    BY ONLY <1>1, <2>1, s \in Subscriptions DEF Calls
<1>3. Idle(s)'
  BY <1>2 DEF Accounts, Idle
<1> QED
  BY <1>1, <1>2, <1>3, CallAccounts

LEMMA UnsubscribeAccounts ==
    ASSUME Inv, Accounts, NEW s \in Subscriptions, Unsubscribe(s)
    PROVE  Accounts'
<1>1. /\ UNCHANGED <<graph, node, published, buffer, handled, cancelled, failed, joined>>
      /\ sub[s].call = "remove" /\ sub' = [sub EXCEPT ![s].call = "returned"]
  BY DEF Unsubscribe, windows, history
<1>2. /\ \A t \in Subscriptions \ {s} : sub'[t] = sub[t]
      /\ sub'[s].by = sub[s].by /\ sub'[s].emit = sub[s].emit /\ sub'[s].call = "returned"
  <2>1. sub \in [Subscriptions -> Calls]
    BY DEF Inv, TypeOK
  <2> QED
    BY ONLY <1>1, <2>1, s \in Subscriptions DEF Calls
<1>3. joined[s] \in Nat
  <2>1. Source(s) \in Nodes
    BY Shape DEF Inv
  <2> QED
    BY <1>1, <2>1 DEF Inv, Channel, Followed, Listening
<1>4. Idle(s)'
  BY <1>1, <1>2, <1>3 DEF Accounts, Idle
<1> QED
  BY <1>1, <1>2, <1>4, CallAccounts

\* The worker or Process goes on, or closes the subscriber.
LEMMA SubscriberAccounts ==
    ASSUME Inv, Accounts, UNCHANGED <<graph, node, published, buffer, handled>>,
           UNCHANGED <<cancelled, failed, joined>>, NEW s \in Subscriptions,
           \/ \E x : sub' = [sub EXCEPT ![s].worker = x]
           \/ \E x : sub' = [sub EXCEPT ![s].inputs = x]
           \/ \E x : sub' = [sub EXCEPT ![s].shut = x]
           \/ sub[s].call = "wait"
              /\ \E x : sub' = [sub EXCEPT ![s].call = "remove", ![s].result = x]
    PROVE  Accounts'
<1> DEFINE GoesOn == /\ \A t \in Subscriptions \ {s} : sub'[t] = sub[t]
                     /\ sub'[s].by = sub[s].by /\ sub'[s].emit = sub[s].emit
                     /\ \/ sub'[s].call = sub[s].call /\ sub'[s].result = sub[s].result
                        \/ sub[s].call = "wait" /\ sub'[s].call = "remove"
<1>1. GoesOn
  <2>1. sub \in [Subscriptions -> Calls]
    BY DEF Inv, TypeOK
  <2>2. ASSUME NEW x, sub' = [sub EXCEPT ![s].worker = x]
        PROVE  GoesOn
    BY ONLY <2>1, <2>2, s \in Subscriptions DEF Calls
  <2>3. ASSUME NEW x, sub' = [sub EXCEPT ![s].inputs = x]
        PROVE  GoesOn
    BY ONLY <2>1, <2>3, s \in Subscriptions DEF Calls
  <2>4. ASSUME NEW x, sub' = [sub EXCEPT ![s].shut = x]
        PROVE  GoesOn
    BY ONLY <2>1, <2>4, s \in Subscriptions DEF Calls
  <2>5. ASSUME NEW x, sub' = [sub EXCEPT ![s].call = "remove", ![s].result = x],
               sub[s].call = "wait"
        PROVE  GoesOn
    BY ONLY <2>1, <2>5, s \in Subscriptions DEF Calls
  <2> QED
    BY <2>2, <2>3, <2>4, <2>5
<1>2. Idle(s)'
  BY <1>1 DEF Accounts, Idle
<1> QED
  BY <1>1, <1>2, CallAccounts

-----------------------------------------------------------------------------
(* Steps that move items *)

LEMMA CountTypes ==
    ASSUME TypeOK, NEW n \in Nodes, NEW id
    PROVE  /\ CountOf(id, published[n]) \in Nat /\ CountIn(id, buffer[n]) \in Nat
           /\ \A s \in Subscriptions :
                 CountOf(id, sub[s].emit) \in Nat /\ CountOf(id, handled[s]) \in Nat
           /\ \A k : CountEmit(n, k, id) \in Nat /\ CountHandled(n, k, id) \in Nat
<1>1. CountOf(id, published[n]) \in Nat /\ CountIn(id, buffer[n]) \in Nat
  <2>1. published[n] \in Seq(Messages) /\ buffer[n] \in Buffers
    BY DEF TypeOK
  <2> QED
    BY <2>1, OfMessages, OfWindows
<1>2. \A s \in Subscriptions :
         CountOf(id, sub[s].emit) \in Nat /\ CountOf(id, handled[s]) \in Nat
  BY CallTypes, OfMessages
<1> QED
  BY <1>1, <1>2 DEF CountEmit, CountHandled

\* Only the subscription s of n moves an item.
LEMMA Balanced ==
    ASSUME TypeOK, TypeOK', graph' = graph, failed => failed',
           NEW n \in Nodes, NEW s \in Subscriptions, s[1] = n, Conserved(n),
           \A t \in Subscriptions \ {s} :
              sub'[t].emit = sub[t].emit /\ handled'[t] = handled[t],
           \A id \in Ids :
              CountOf(id, published'[n]) + CountIn(id, buffer'[n])
                 + CountOf(id, sub'[s].emit) + CountOf(id, handled[s])
              = CountOf(id, published[n]) + CountIn(id, buffer[n])
                 + CountOf(id, sub[s].emit) + CountOf(id, handled'[s])
    PROVE  Conserved(n)'
<1>1. Nodes' = Nodes /\ Subscriptions' = Subscriptions /\ Ids' = Ids
  BY SameGraph
<1> SUFFICES ASSUME ~failed, graph[n].kind # "load", NEW id \in Ids
             PROVE  CountOf(id, published'[n]) + CountIn(id, buffer'[n])
                       + (CountEmit(n, 1, id)' + CountEmit(n, 2, id)')
                    = CountHandled(n, 1, id)' + CountHandled(n, 2, id)'
  BY <1>1 DEF Conserved
<1> PICK p, p2, b, b2, e, e2, h, h2 :
       /\ p = CountOf(id, published[n]) /\ p2 = CountOf(id, published'[n])
       /\ b = CountIn(id, buffer[n]) /\ b2 = CountIn(id, buffer'[n])
       /\ e = CountOf(id, sub[s].emit) /\ e2 = CountOf(id, sub'[s].emit)
       /\ h = CountOf(id, handled[s]) /\ h2 = CountOf(id, handled'[s])
  OBVIOUS
<1> PICK e3, h3 : /\ e3 = IF s = <<n, 1>> THEN CountEmit(n, 2, id) ELSE CountEmit(n, 1, id)
                  /\ h3 = IF s = <<n, 1>> THEN CountHandled(n, 2, id) ELSE CountHandled(n, 1, id)
  OBVIOUS
<1>2. /\ p \in Nat /\ b \in Nat /\ e \in Nat /\ h \in Nat /\ e3 \in Nat /\ h3 \in Nat
  BY CountTypes
<1>3. p2 \in Nat /\ b2 \in Nat /\ e2 \in Nat /\ h2 \in Nat
  <2>1. published'[n] \in Seq(Messages) /\ buffer'[n] \in Buffers
    BY <1>1, SameGraph DEF TypeOK
  <2>2. sub'[s].emit \in Seq(Messages) /\ handled'[s] \in Seq(Messages)
    BY <1>1, SameGraph DEF TypeOK, Calls
  <2> QED
    BY <2>1, <2>2, OfMessages, OfWindows
<1>4. p + b + (e + e3) = h + h3
  <2>1. p + b + (CountEmit(n, 1, id) + CountEmit(n, 2, id))
           = CountHandled(n, 1, id) + CountHandled(n, 2, id)
    BY DEF Conserved
  <2>2. CASE s = <<n, 1>>
    <3>1. /\ e = CountEmit(n, 1, id) /\ h = CountHandled(n, 1, id)
          /\ e3 = CountEmit(n, 2, id) /\ h3 = CountHandled(n, 2, id)
      BY <2>2 DEF CountEmit, CountHandled
    <3> QED
      BY <2>1, <3>1
  <2>3. CASE s = <<n, 2>>
    <3>1. /\ e = CountEmit(n, 2, id) /\ h = CountHandled(n, 2, id)
          /\ e3 = CountEmit(n, 1, id) /\ h3 = CountHandled(n, 1, id)
      BY <2>3 DEF CountEmit, CountHandled
    <3>2. p + b + (e3 + e) = h3 + h
      BY <2>1, <3>1
    <3> QED
      BY ONLY <1>2, <3>2
  <2> QED
    BY <2>2, <2>3, SubscriptionOf
<1>5. p2 + b2 + (e2 + e3) = h2 + h3
  <2>1. p2 + b2 + e2 + h = p + b + e + h2
    OBVIOUS
  <2> QED
    BY ONLY <1>2, <1>3, <1>4, <2>1
<1>6. CASE s = <<n, 1>>
  <2>1. /\ CountEmit(n, 1, id)' = e2 /\ CountHandled(n, 1, id)' = h2
        /\ CountEmit(n, 2, id)' = e3 /\ CountHandled(n, 2, id)' = h3
    BY <1>1, <1>6 DEF CountEmit, CountHandled
  <2> QED
    BY <1>5, <2>1
<1>7. CASE s = <<n, 2>>
  <2>1. /\ CountEmit(n, 2, id)' = e2 /\ CountHandled(n, 2, id)' = h2
        /\ CountEmit(n, 1, id)' = e3 /\ CountHandled(n, 1, id)' = h3
    BY <1>1, <1>7 DEF CountEmit, CountHandled
  <2>2. p2 + b2 + (e3 + e2) = h3 + h2
    BY ONLY <1>2, <1>3, <1>5
  <2> QED
    BY <2>1, <2>2
<1> QED
  BY <1>6, <1>7, SubscriptionOf

\* A handler may work only while the calls of Subscribe have not returned.
LEMMA Handles ==
    ASSUME Inv, Progress, ~failed, NEW s \in Subscriptions,
           sub[s].by # "none" \/ sub[s].worker = "running" \/ In(s, subscribers[Source(s)])
    PROVE  node[s[1]] = "subscribe"
<1>1. Source(s) \in Nodes
  BY Shape DEF Inv
<1>2. Calling(s) /\ Served(s) /\ Listed(Source(s))
  BY <1>1 DEF Inv, Channel, Progress
<1>3. sub[s].call \notin {"check", "returned"}
  <2>1. CASE sub[s].by # "none"
    BY <2>1, Quiet
  <2>2. CASE sub[s].worker = "running"
    BY <1>2, <2>2 DEF Calling, Served
  <2>3. CASE In(s, subscribers[Source(s)])
    BY <1>2, <2>3 DEF Listed, Listening
  <2> QED
    BY <2>1, <2>2, <2>3
<1> QED
  BY <1>2, <1>3 DEF Calling

LEMMA LoadAccounts ==
    ASSUME Inv, Accounts, NEW n \in Nodes, Load(n)
    PROVE  Accounts'
<1> PICK pc, m : /\ pc = IF Loaded(n) = graph[n].items THEN "finish" ELSE "load"
                 /\ m = IF Loaded(n) < graph[n].items
                        THEN Item(n, Loaded(n) + 1) ELSE Watermark
  OBVIOUS
<1>1. /\ UNCHANGED <<graph, sub, handled, joined, failed>>
      /\ UNCHANGED <<buffer, cancelled>> /\ node[n] = "load"
      /\ node' = [node EXCEPT ![n] = pc] /\ published' = [published EXCEPT ![n] = Append(@, m)]
  BY DEF Load, Publish, windows
<1>2. graph[n].kind = "load" /\ node \in [Nodes -> NodeStates] /\ published \in [Nodes -> Seq(Messages)]
  BY <1>1 DEF Inv, TypeOK, Loads
<1>3. \A k \in Nodes \ {n} : node'[k] = node[k] /\ SameItems(k)
  BY <1>1, <1>2 DEF SameItems
<1>4. Conserved(n)' /\ Passed(n)'
  BY <1>1, <1>2 DEF Conserved, Passed
<1>5. Emptied(n)'
  BY <1>1, <1>2 DEF Accounts, Emptied, Empty
<1>6. \A s \in Subscriptions : Idle(s)'
  BY <1>1, IdleKept DEF Accounts
<1> QED
  BY <1>1, <1>3, <1>4, <1>5, <1>6, Accounted

\* The last look at the windows finds one that is due.
LEMMA GroupAccounts ==
    ASSUME Inv, Accounts, NEW n \in Nodes, LastFlush(n), Due(n, Signalled(n)) # {}
    PROVE  Accounts'
<1>1. PICK w \in Due(n, Signalled(n)) :
         /\ UNCHANGED <<graph, node, sub, handled, joined, failed, cancelled>>
         /\ published' = [published EXCEPT ![n] = Append(@, Group(w, buffer[n][w]))]
         /\ buffer' = [buffer EXCEPT ![n][w] = NoItems]
         /\ node[n] = "flush"
  BY SignalledTypes DEF LastFlush, Publish, Inv
<1> PICK b, b2, m : b = buffer[n] /\ b2 = buffer'[n] /\ m = Group(w, b[w])
  OBVIOUS
<1>2. /\ w \in Windows /\ TypeOK /\ published \in [Nodes -> Seq(Messages)]
      /\ buffer \in [Nodes -> Buffers]
  BY DEF Due, Inv, TypeOK
<1>3. b \in Buffers /\ b2 = [b EXCEPT ![w] = NoItems]
      /\ \A k \in Nodes \ {n} : buffer'[k] = buffer[k]
  BY <1>1, <1>2
<1>4. /\ b2 \in Buffers /\ b2[w] = NoItems /\ \A v \in Windows \ {w} : b2[v] = b[v]
  BY ONLY <1>2, <1>3, NoItemsType DEF Buffers
<1>5. m \in Messages /\ m.ids = b[w].ids
  <2>1. b[w].ids \in Seq(Ids)
    BY <1>2, <1>3 DEF Buffers
  <2>2. m \in Messages
    BY <1>2, <2>1, GroupType
  <2> QED
    BY <2>2 DEF Group
<1>6. Conserved(n)'
  <2>1. /\ Subscriptions' = Subscriptions /\ Ids' = Ids
        /\ published'[n] = Append(published[n], m) /\ published[n] \in Seq(Messages)
    BY <1>1, <1>2, SameGraph
  <2>2. \A k, id : CountHandled(n, k, id)' = CountHandled(n, k, id)
    BY <1>1, <2>1 DEF CountHandled
  <2>3. \A k, id : CountEmit(n, k, id)' = CountEmit(n, k, id)
    BY <1>1, <2>1 DEF CountEmit
  <2>4. ASSUME NEW id \in Ids
        PROVE  CountOf(id, published'[n]) + CountIn(id, b2)
               = CountOf(id, published[n]) + CountIn(id, b)
    <3>1. CountOf(id, published'[n]) = CountOf(id, published[n]) + CountOf(id, <<m>>)
      BY <1>5, <2>1, CountOfAppend
    <3>2. Without(w, b, b2)
      BY <1>4 DEF Without, NoItems
    <3>3. CountIn(id, b) = CountOf(id, <<m>>) + CountIn(id, b2)
      BY ONLY <1>2, <1>3, <1>4, <1>5, <3>2, WindowApart
    <3>4. <<m>> \in Seq(Messages)
      BY <1>5
    <3>5. /\ CountOf(id, published[n]) \in Nat /\ CountOf(id, <<m>>) \in Nat
          /\ CountIn(id, b2) \in Nat
      BY <1>4, <2>1, <3>4, OfMessages, OfWindows
    <3> QED
      BY ONLY <3>1, <3>3, <3>5
  <2>5. Conserved(n) /\ buffer'[n] = b2 /\ buffer[n] = b
    BY DEF Accounts
  <2> SUFFICES ASSUME ~failed, graph[n].kind # "load", NEW id \in Ids
               PROVE  CountOf(id, published'[n]) + CountIn(id, buffer'[n])
                         + (CountEmit(n, 1, id)' + CountEmit(n, 2, id)')
                      = CountHandled(n, 1, id)' + CountHandled(n, 2, id)'
    BY <1>1, <2>1 DEF Conserved
  <2>6. CountOf(id, published[n]) + CountIn(id, b)
           + (CountEmit(n, 1, id) + CountEmit(n, 2, id))
        = CountHandled(n, 1, id) + CountHandled(n, 2, id)
    BY <2>5 DEF Conserved
  <2>7. /\ CountEmit(n, 1, id)' = CountEmit(n, 1, id) /\ CountEmit(n, 2, id)' = CountEmit(n, 2, id)
        /\ CountHandled(n, 1, id)' = CountHandled(n, 1, id)
        /\ CountHandled(n, 2, id)' = CountHandled(n, 2, id)
    BY <2>2, <2>3
  <2> QED
    BY <2>4, <2>5, <2>6, <2>7
<1>7. Emptied(n)'
  <2>1. Emptied(n)
    BY DEF Accounts
  <2>2. \A v \in Windows : b2[v] = NoItems \/ b2[v] = b[v]
    BY <1>4
  <2>3. Filled(b2) /\ (Empty(n) => Empty(n)')
    BY <2>1, <2>2 DEF Emptied, Filled, Empty, NoItems
  <2> QED
    BY <1>1, <2>1, <2>3 DEF Emptied
<1>8. Passed(n)'
  BY <1>1, PassedKept DEF Accounts
<1>9. \A k \in Nodes \ {n} : node'[k] = node[k] /\ SameItems(k)
  BY <1>1, <1>2, <1>3 DEF SameItems
<1>10. \A s \in Subscriptions : Idle(s)'
  BY <1>1, IdleKept DEF Accounts
<1> QED
  BY <1>1, <1>6, <1>7, <1>8, <1>9, <1>10, Accounted

\* A handler is called with m: the outcome o.
LEMMA InvokeAccounts ==
    ASSUME Inv, Accounts, TypeOK', NEW s \in Subscriptions, NEW m \in Messages,
           NEW o \in Outcomes(s[1], m), sub[s].emit = <<>>,
           ~failed => node[s[1]] = "subscribe",
           UNCHANGED <<graph, node, published, joined, cancelled, failed>>,
           buffer' = [buffer EXCEPT ![s[1]] = o.b],
           handled' = [handled EXCEPT ![s] = Append(@, m)],
           \A t \in Subscriptions \ {s} : sub'[t] = sub[t],
           sub'[s].call = sub[s].call, sub'[s].result = sub[s].result,
           sub'[s].emit = o.emit, sub'[s].by = "none" => o.emit = <<>>
    PROVE  Accounts'
<1> PICK n \in Nodes : n = s[1]
  BY Shape DEF Inv
<1>1. TypeOK /\ Conserved(n) /\ Emptied(n) /\ Passed(n) /\ Idle(s)
  BY DEF Inv, Accounts
<1>2. /\ buffer'[n] = o.b /\ \A k \in Nodes \ {n} : buffer'[k] = buffer[k]
      /\ handled'[s] = Append(handled[s], m) /\ handled[s] \in Seq(Messages)
      /\ \A t \in Subscriptions \ {s} : handled'[t] = handled[t]
  BY <1>1 DEF TypeOK
<1>3. ASSUME NEW id \in Ids
      PROVE  CountOf(id, published'[n]) + CountIn(id, buffer'[n])
                + CountOf(id, sub'[s].emit) + CountOf(id, handled[s])
             = CountOf(id, published[n]) + CountIn(id, buffer[n])
                + CountOf(id, sub[s].emit) + CountOf(id, handled'[s])
  <2> PICK p, b, b2, e, h, i :
         /\ p = CountOf(id, published[n]) /\ b = CountIn(id, buffer[n])
         /\ b2 = CountIn(id, o.b) /\ e = CountOf(id, o.emit)
         /\ h = CountOf(id, handled[s]) /\ i = CountOf(id, <<m>>)
    OBVIOUS
  <2>1. CountOf(id, handled'[s]) = h + i
    BY <1>2, CountOfAppend
  <2>2. b + i = e + b2
    BY <1>1, OutcomeCounts
  <2>3. CountOf(id, sub[s].emit) = 0
    BY CountOfNone
  <2>4. p \in Nat /\ b \in Nat /\ h \in Nat /\ i \in Nat /\ e \in Nat /\ b2 \in Nat
    <3>1. p \in Nat /\ b \in Nat /\ h \in Nat
      BY <1>1, CountTypes
    <3>2. \A k \in Messages : <<k>> \in Seq(Messages)
      OBVIOUS
    <3>3. o.emit \in Seq(Messages) /\ o.b \in Buffers
      BY <1>1, OutcomeTypes
    <3> QED
      BY <3>1, <3>2, <3>3, OfMessages, OfWindows
  <2>5. p + b2 + e + h = p + b + 0 + (h + i)
    BY ONLY <2>2, <2>4
  <2> QED
    BY <1>2, <2>1, <2>3, <2>5
<1>4. Conserved(n)'
  <2>1. \A t \in Subscriptions \ {s} : sub'[t].emit = sub[t].emit /\ handled'[t] = handled[t]
    BY <1>2
  <2>2. failed => failed'
    OBVIOUS
  <2>3. s[1] = n /\ graph' = graph
    OBVIOUS
  <2> QED
    BY ONLY TypeOK', s \in Subscriptions, n \in Nodes, <1>1, <1>3, <2>1, <2>2, <2>3, Balanced
<1>5. Emptied(n)'
  <2>1. Filled(o.b) /\ (graph[n].kind # "window" => o.b = buffer[n])
    BY <1>1, OutcomeFilled DEF Emptied
  <2> QED
    BY <1>1, <1>2, <2>1 DEF Emptied, Empty
<1>6. \A t \in Subscriptions : sub[t].call = "returned" => sub'[t].call = "returned"
  OBVIOUS
<1>7. Passed(n)'
  BY <1>1, <1>6, PassedKept
<1>8. \A k \in Nodes \ {n} : node'[k] = node[k] /\ SameItems(k)
  BY <1>2 DEF SameItems
<1>9. \A t \in Subscriptions : Idle(t)'
  <2>1. Idle(s)'
    BY <1>1 DEF Idle
  <2> QED
    BY <2>1, IdleKept DEF Accounts
<1> QED
  BY <1>4, <1>5, <1>6, <1>7, <1>8, <1>9, Accounted

\* A handler fails.
LEMMA FailAccounts ==
    ASSUME Inv, Accounts, NEW s \in Subscriptions, failed',
           UNCHANGED <<graph, node, published, buffer, joined, cancelled>>,
           \A t \in Subscriptions \ {s} : sub'[t] = sub[t] /\ handled'[t] = handled[t],
           sub'[s].call = sub[s].call, sub'[s].result = sub[s].result, sub'[s].emit = <<>>
    PROVE  Accounts'
<1> PICK n \in Nodes : n = s[1]
  BY Shape DEF Inv
<1>1. Emptied(n) /\ Passed(n) /\ Idle(s)
  BY DEF Accounts
<1>2. Conserved(n)' /\ Emptied(n)'
  BY <1>1 DEF Conserved, Emptied, Empty
<1>3. \A t \in Subscriptions : sub[t].call = "returned" => sub'[t].call = "returned"
  OBVIOUS
<1>4. Passed(n)'
  BY <1>1, <1>3, PassedKept
<1>5. \A k \in Nodes \ {n} : node'[k] = node[k] /\ SameItems(k)
  BY DEF SameItems
<1>6. \A t \in Subscriptions : Idle(t)'
  <2>1. Idle(s)'
    BY <1>1 DEF Idle
  <2> QED
    BY <2>1, IdleKept DEF Accounts
<1> QED
  BY <1>2, <1>3, <1>4, <1>5, <1>6, Accounted

LEMMA EmitAccounts ==
    ASSUME Inv, Progress, Accounts, NEW s \in Subscriptions, Emit(s)
    PROVE  Accounts'
<1> PICK n \in Nodes : n = s[1]
  BY Shape DEF Inv
<1> PICK q : q = sub[s].emit
  OBVIOUS
<1>1. /\ UNCHANGED <<graph, node, buffer, handled, joined, cancelled, failed>>
      /\ sub[s].by # "none" /\ published' = [published EXCEPT ![n] = Append(@, Head(q))]
      /\ sub' = [sub EXCEPT ![s].emit = Tail(@),
                            ![s].by = IF Len(q) = 1 THEN "none" ELSE @]
  BY DEF Emit, Publish, windows
<1>2. /\ TypeOK /\ TypeOK' /\ Handling(s) /\ Idle(s)
      /\ Conserved(n) /\ Emptied(n) /\ Passed(n)
  BY EmitStep, Shape DEF Inv, Channel, Accounts
<1>3. q \in Seq(Messages) /\ q # <<>>
  BY <1>1, <1>2, CallTypes DEF Handling
<1>4. /\ \A t \in Subscriptions \ {s} : sub'[t] = sub[t]
      /\ sub'[s].call = sub[s].call /\ sub'[s].result = sub[s].result
      /\ sub'[s].emit = Tail(q) /\ sub'[s].by = IF Len(q) = 1 THEN "none" ELSE sub[s].by
  <2>1. sub \in [Subscriptions -> Calls]
    BY <1>2 DEF TypeOK
  <2>2. q = sub[s].emit
    OBVIOUS
  <2> QED
    BY ONLY <1>1, <2>1, <2>2, s \in Subscriptions DEF Calls
<1>5. /\ published'[n] = Append(published[n], Head(q)) /\ published[n] \in Seq(Messages)
      /\ \A k \in Nodes \ {n} : published'[k] = published[k]
  BY <1>1, <1>2 DEF TypeOK
<1>6. Head(q) \in Messages /\ Tail(q) \in Seq(Messages) /\ (Len(q) = 1 => Tail(q) = <<>>)
  BY <1>3, TailOf
<1>7. ASSUME NEW id \in Ids
      PROVE  CountOf(id, published'[n]) + CountIn(id, buffer'[n])
                + CountOf(id, sub'[s].emit) + CountOf(id, handled[s])
             = CountOf(id, published[n]) + CountIn(id, buffer[n])
                + CountOf(id, sub[s].emit) + CountOf(id, handled'[s])
  <2> PICK p, b, h, i, r :
         /\ p = CountOf(id, published[n]) /\ b = CountIn(id, buffer[n])
         /\ h = CountOf(id, handled[s]) /\ i = CountOf(id, <<Head(q)>>)
         /\ r = CountOf(id, Tail(q))
    OBVIOUS
  <2>1. CountOf(id, published'[n]) = p + i
    BY <1>5, <1>6, CountOfAppend
  <2>2. CountOf(id, q) = i + r
    BY <1>3, CountOfTail
  <2>3. p \in Nat /\ b \in Nat /\ h \in Nat /\ i \in Nat /\ r \in Nat
    <3>1. \A k \in Messages : <<k>> \in Seq(Messages)
      OBVIOUS
    <3> QED
      BY <1>2, <1>6, <3>1, CountTypes, OfMessages
  <2>4. (p + i) + b + r + h = p + b + (i + r) + h
    BY ONLY <2>3
  <2> QED
    BY <1>1, <1>4, <2>1, <2>2, <2>4
<1>8. Conserved(n)'
  <2>1. \A t \in Subscriptions \ {s} : sub'[t].emit = sub[t].emit /\ handled'[t] = handled[t]
    BY <1>1, <1>4
  <2>2. (failed => failed') /\ s[1] = n /\ graph' = graph
    BY <1>1
  <2> QED
    BY ONLY s \in Subscriptions, n \in Nodes, <1>2, <1>7, <2>1, <2>2, Balanced
<1>9. Emptied(n)'
  BY <1>1, <1>2, EmptiedKept
<1>10. \A t \in Subscriptions : sub[t].call = "returned" => sub'[t].call = "returned"
  BY <1>4
<1>11. Passed(n)'
  BY <1>1, <1>2, <1>10, PassedKept
<1>12. \A k \in Nodes \ {n} : node'[k] = node[k] /\ SameItems(k)
  BY <1>1, <1>4, <1>5 DEF SameItems
<1>13. \A t \in Subscriptions : Idle(t)'
  <2>1. Idle(s)'
    BY <1>1, <1>2, <1>4, <1>6 DEF Idle
  <2> QED
    BY <1>1, <1>4, <2>1, IdleKept DEF Accounts
<1> QED
  BY <1>1, <1>8, <1>9, <1>10, <1>11, <1>12, <1>13, Accounted

LEMMA EmitFailsAccounts ==
    ASSUME Inv, Accounts, NEW s \in Subscriptions, EmitFails(s)
    PROVE  Accounts'
<1>1. CASE Panic
  <2>1. /\ UNCHANGED <<graph, node, published, buffer, handled>>
        /\ UNCHANGED <<sub, joined, cancelled, failed>>
    BY <1>1 DEF Panic, channels, windows, history
  <2> QED
    BY <2>1, StoppedAccounts
<1>2. CASE /\ Fail(s, sub[s].by, sub, process)
           /\ UNCHANGED <<graph, launched, node, queue, closed, subscribers, windows,
                          cancelled, sending, crashed, published, handled, joined>>
  <2>1. sub \in [Subscriptions -> Calls]
    BY DEF Inv, TypeOK
  <2>2. /\ UNCHANGED <<graph, node, published, buffer, handled, joined, cancelled>> /\ failed'
        /\ \/ sub' = [sub EXCEPT ![s].shut = TRUE, ![s].by = "none",
                                 ![s].emit = <<>>, ![s].worker = "stuck"]
           \/ sub' = [sub EXCEPT ![s].shut = TRUE, ![s].by = "none", ![s].emit = <<>>]
    BY <1>2 DEF Fail, windows
  <2>3. /\ \A t \in Subscriptions \ {s} : sub'[t] = sub[t]
        /\ sub'[s].call = sub[s].call /\ sub'[s].result = sub[s].result /\ sub'[s].emit = <<>>
    BY ONLY <2>1, <2>2, s \in Subscriptions DEF Calls
  <2> QED
    BY <2>2, <2>3, FailAccounts
<1> QED
  BY <1>1, <1>2 DEF EmitFails

LEMMA WorkAccounts ==
    ASSUME Inv, Progress, Accounts, NEW s \in Subscriptions, Work(s)
    PROVE  Accounts'
<1> PICK m, x : m = Head(sub[s].inputs) /\ x = Tail(sub[s].inputs)
  OBVIOUS
<1> DEFINE taken == [sub EXCEPT ![s].inputs = x]
<1>1. /\ UNCHANGED <<graph, node, published, cancelled, joined>>
      /\ sub[s].worker = "running" /\ sub[s].by # "worker" /\ sub[s].inputs # <<>>
      /\ handled' = [handled EXCEPT ![s] = Append(@, m)]
      /\ \/ /\ failed' = failed
            /\ \E o \in Outcomes(s[1], m) :
                  /\ buffer' = [buffer EXCEPT ![s[1]] = o.b]
                  /\ sub' = [taken EXCEPT ![s].emit = o.emit,
                                ![s].by = IF o.emit = <<>> THEN "none" ELSE "worker"]
         \/ /\ failed' = TRUE /\ buffer' = buffer
            /\ sub' = [taken EXCEPT ![s].shut = TRUE, ![s].by = "none", ![s].emit = <<>>,
                                    ![s].worker = "stuck"]
  <2>1. /\ UNCHANGED <<graph, node, published, cancelled, joined>>
        /\ sub[s].worker = "running" /\ sub[s].by # "worker" /\ sub[s].inputs # <<>>
        /\ \/ Invoke(s, m, "worker", taken) /\ UNCHANGED failed
           \/ /\ Fail(s, "worker", taken, process)
              /\ handled' = [handled EXCEPT ![s] = Append(@, m)] /\ UNCHANGED buffer
    BY DEF Work, windows
  <2> HIDE DEF taken
  <2>2. CASE Invoke(s, m, "worker", taken) /\ UNCHANGED failed
    BY <2>1, <2>2 DEF Invoke
  <2>3. CASE /\ Fail(s, "worker", taken, process)
             /\ handled' = [handled EXCEPT ![s] = Append(@, m)] /\ UNCHANGED buffer
    BY <2>1, <2>3 DEF Fail
  <2> QED
    BY <2>1, <2>2, <2>3
<1>2. TypeOK /\ sub \in [Subscriptions -> Calls] /\ Handling(s) /\ Idle(s) /\ Source(s) \in Nodes
      /\ OneHandler(Source(s))
  BY Shape DEF Inv, TypeOK, Channel, Accounts
<1>3. m \in Messages
  BY <1>1, <1>2, CallTypes, TailOf
<1>4. sub[s].by = "none" /\ sub[s].emit = <<>>
  <2>1. sub[s].by \in {"none", "process", "worker"}
    BY <1>2 DEF Calls
  <2>2. ASSUME sub[s].by = "process" PROVE FALSE
    <3>1. process[Source(s)].pc = "receive" /\ subscribers[Source(s)] = <<s>>
      BY <1>2, <2>2 DEF Handling
    <3>2. Len(subscribers[Source(s)]) = 1 /\ subscribers[Source(s)][1] = s
      BY <3>1
    <3> QED
      BY <1>1, <1>2, <3>1, <3>2 DEF OneHandler
  <2> QED
    BY <1>1, <1>2, <2>1, <2>2 DEF Idle
<1>5. \A t \in Subscriptions \ {s} : handled'[t] = handled[t]
  BY <1>1, <1>2 DEF TypeOK
<1>6. ASSUME failed' = failed, NEW o \in Outcomes(s[1], m),
             buffer' = [buffer EXCEPT ![s[1]] = o.b],
             sub' = [taken EXCEPT ![s].emit = o.emit,
                        ![s].by = IF o.emit = <<>> THEN "none" ELSE "worker"]
      PROVE  Accounts'
  <2>1. TypeOK'
    BY WorkStep DEF Inv
  <2>2. ~failed => node[s[1]] = "subscribe"
    BY <1>1, Handles
  <2>3. /\ \A t \in Subscriptions \ {s} : sub'[t] = sub[t]
        /\ sub'[s].call = sub[s].call /\ sub'[s].result = sub[s].result
        /\ sub'[s].emit = o.emit /\ (sub'[s].by = "none" => o.emit = <<>>)
    BY ONLY <1>2, <1>6, s \in Subscriptions DEF Calls
  <2>4. UNCHANGED <<graph, node, published, joined, cancelled, failed>>
    BY <1>1, <1>6
  <2> HIDE DEF taken
  <2>5. handled' = [handled EXCEPT ![s] = Append(@, m)] /\ sub[s].emit = <<>>
    BY <1>1, <1>4
  <2> QED
    BY ONLY Inv, Accounts, s \in Subscriptions, <1>3, <1>6, <2>1, <2>2, <2>3, <2>4, <2>5,
            InvokeAccounts
<1>7. ASSUME failed' = TRUE, buffer' = buffer,
             sub' = [taken EXCEPT ![s].shut = TRUE, ![s].by = "none", ![s].emit = <<>>,
                                  ![s].worker = "stuck"]
      PROVE  Accounts'
  <2>1. /\ \A t \in Subscriptions \ {s} : sub'[t] = sub[t]
        /\ sub'[s].call = sub[s].call /\ sub'[s].result = sub[s].result /\ sub'[s].emit = <<>>
    BY ONLY <1>2, <1>7, s \in Subscriptions DEF Calls
  <2>2. UNCHANGED <<graph, node, published, buffer, joined, cancelled>> /\ failed'
    BY <1>1, <1>7
  <2> HIDE DEF taken
  <2> QED
    BY <1>5, <2>1, <2>2, FailAccounts
<1> HIDE DEF taken
<1> QED
  BY <1>1, <1>6, <1>7

LEMMA ReceiveAccounts ==
    ASSUME Inv, Progress, Accounts, NEW n \in Nodes, Receive(n)
    PROVE  Accounts'
<1> PICK s, m : s = subscribers[n][1] /\ m = Head(queue[n])
  OBVIOUS
<1>1. /\ TypeOK /\ sub \in [Subscriptions -> Calls] /\ subscribers[n] \in Seq(Subscriptions)
      /\ queue[n] \in Seq(Messages) /\ Channel(n)
  BY DEF Inv, TypeOK
<1>2. /\ UNCHANGED <<graph, node, published, cancelled, joined>>
      /\ process[n].pc = "receive" /\ Unlocked(n) /\ queue[n] # <<>>
  BY DEF Receive
<1>3. m \in Messages
  BY <1>1, <1>2, TailOf
<1>4. ASSUME Len(subscribers[n]) = 1
      PROVE  s \in Subscriptions /\ Source(s) = n /\ In(s, subscribers[n])
  <2>1. s \in Subscriptions /\ In(s, subscribers[n])
    BY <1>1, <1>4 DEF In
  <2> QED
    BY <1>1, <2>1 DEF Channel, Listed
<1>5. ASSUME Len(subscribers[n]) = 1
      PROVE  sub[s].emit = <<>>
  <2>1. /\ s \in Subscriptions /\ Source(s) = n
        /\ sub[s].by \in {"none", "process", "worker"} /\ Idle(s)
    BY <1>1, <1>4, <1>5 DEF Calls, Accounts
  <2>2. sub[s].by # "process"
    BY <1>2, <2>1 DEF Unlocked
  <2>3. sub[s].by # "worker"
    BY <1>1, <1>2, <1>5 DEF Channel, OneHandler
  <2> QED
    BY <2>1, <2>2, <2>3 DEF Idle
<1>6. CASE UNCHANGED <<sub, buffer, handled, failed>>
  BY <1>2, <1>6, StoppedAccounts
<1>7. CASE /\ Len(subscribers[n]) = 1 /\ Invoke(s, m, "process", sub) /\ UNCHANGED failed
  <2>1. s \in Subscriptions /\ Source(s) = n /\ In(s, subscribers[Source(s)]) /\ sub[s].emit = <<>>
    BY <1>4, <1>5, <1>7
  <2>2. PICK o \in Outcomes(s[1], m) :
           /\ buffer' = [buffer EXCEPT ![s[1]] = o.b]
           /\ sub' = [sub EXCEPT ![s].emit = o.emit,
                                 ![s].by = IF o.emit = <<>> THEN "none" ELSE "process"]
           /\ handled' = [handled EXCEPT ![s] = Append(@, m)]
    BY <1>7 DEF Invoke
  <2>3. /\ \A t \in Subscriptions \ {s} : sub'[t] = sub[t]
        /\ sub'[s].call = sub[s].call /\ sub'[s].result = sub[s].result
        /\ sub'[s].emit = o.emit /\ (sub'[s].by = "none" => o.emit = <<>>)
    BY ONLY <1>1, <2>1, <2>2 DEF Calls
  <2>4. TypeOK'
    BY ReceiveStep DEF Inv
  <2>5. ~failed => node[s[1]] = "subscribe"
    BY <2>1, Handles
  <2>6. UNCHANGED <<graph, node, published, joined, cancelled, failed>>
    BY <1>2, <1>7
  <2> QED
    BY <1>3, <2>1, <2>2, <2>3, <2>4, <2>5, <2>6, InvokeAccounts
<1>8. CASE /\ Len(subscribers[n]) = 1 /\ Fail(s, "process", sub, process)
           /\ handled' = [handled EXCEPT ![s] = Append(@, m)] /\ UNCHANGED buffer
  <2>1. s \in Subscriptions
    BY <1>4, <1>8
  <2>2. failed' /\ sub' = [sub EXCEPT ![s].shut = TRUE, ![s].by = "none", ![s].emit = <<>>]
    BY <1>8 DEF Fail
  <2>3. /\ \A t \in Subscriptions \ {s} : sub'[t] = sub[t]
        /\ sub'[s].call = sub[s].call /\ sub'[s].result = sub[s].result /\ sub'[s].emit = <<>>
    BY ONLY <1>1, <2>1, <2>2 DEF Calls
  <2>4. \A t \in Subscriptions \ {s} : handled'[t] = handled[t]
    BY <1>1, <1>8, <2>1 DEF TypeOK
  <2>5. UNCHANGED <<graph, node, published, buffer, joined, cancelled>>
    BY <1>2, <1>8
  <2> QED
    BY <2>1, <2>2, <2>3, <2>4, <2>5, FailAccounts
<1> QED
  BY <1>6, <1>7, <1>8 DEF Receive, windows

\* The subscription that Process turns to is one of its channel.
LEMMA TurnsTo ==
    ASSUME Inv, NEW n \in Nodes, process[n].pc \in {"fanout", "closing", "settle"}
    PROVE  Head(process[n].rest) \in Subscriptions
<1>1. TypeOK /\ Processing(n) /\ process[n].rest \in Seq(Subscriptions)
  BY ChannelTypes DEF Inv, Channel
<1>2. process[n].rest # <<>>
  <2>1. \A s : <<s>> # <<>>
    OBVIOUS
  <2> QED
    BY <1>1, <2>1 DEF Processing
<1> QED
  BY <1>1, <1>2, TailOf

LEMMA PassesAccounts ==
    ASSUME Inv, Accounts, NEW n \in Nodes, Push(n) \/ Shut(n) \/ Settle(n)
    PROVE  Accounts'
<1> PICK s : s = Head(process[n].rest)
  OBVIOUS
<1>1. /\ UNCHANGED <<graph, node, published, buffer, handled>>
      /\ UNCHANGED <<cancelled, failed, joined>>
      /\ process[n].pc \in {"fanout", "closing", "settle"}
  BY DEF Push, Shut, Settle, windows, history
<1>2. s \in Subscriptions
  BY <1>1, TurnsTo
<1>3. CASE Push(n)
  <2>1. \E x : sub' = [sub EXCEPT ![s].inputs = x]
    BY <1>3, <1>2 DEF Push, Inv, TypeOK
  <2> QED
    BY <1>1, <1>2, <2>1, SubscriberAccounts
<1>4. CASE Shut(n)
  <2>1. (\E x : sub' = [sub EXCEPT ![s].shut = x]) \/ sub' = sub
    BY <1>4 DEF Shut
  <2> QED
    BY <1>1, <1>2, <2>1, SubscriberAccounts, StoppedAccounts
<1>5. CASE Settle(n)
  <2>1. /\ sub[s].call = "wait"
        /\ \E x : sub' = [sub EXCEPT ![s].call = "remove", ![s].result = x]
    BY <1>5 DEF Settle
  <2> QED
    BY <1>1, <1>2, <2>1, SubscriberAccounts
<1> QED
  BY <1>3, <1>4, <1>5

LEMMA WorkerEndsAccounts ==
    ASSUME Inv, Accounts, NEW s \in Subscriptions, WorkerEnds(s)
    PROVE  Accounts'
<1>1. /\ UNCHANGED <<graph, node, published, buffer, handled>>
      /\ UNCHANGED <<cancelled, failed, joined>> /\ sub' = [sub EXCEPT ![s].worker = "ended"]
  BY DEF WorkerEnds, windows, history
<1> QED
  BY <1>1, SubscriberAccounts

LEMMA InitAccounts == Init => Accounts
<1> SUFFICES ASSUME Init
             PROVE  Accounts
  OBVIOUS
<1>1. /\ \A n \in Nodes : node[n] = "new" /\ published[n] = <<>>
      /\ \A n \in Nodes : \A w \in Windows : buffer[n][w] = NoItems
      /\ \A n \in Nodes : buffer[n] \in Buffers
  <2>1. \A n \in Nodes : buffer[n] = [w \in Windows |-> NoItems]
    BY DEF Init
  <2> QED
    BY <2>1, NoItemsType DEF Init, Buffers
<1>2. \A s \in Subscriptions : sub[s] = NewSub /\ handled[s] = <<>> /\ joined[s] = -1
  BY DEF Init
<1>3. ASSUME NEW n \in Nodes
      PROVE  Conserved(n) /\ Emptied(n) /\ Passed(n)
  <2>1. Filled(buffer[n]) /\ Empty(n)
    BY <1>1 DEF Filled, Empty, NoItems
  <2>2. Emptied(n) /\ Passed(n)
    BY <1>1, <2>1 DEF Emptied, Passed
  <2>3. ASSUME NEW id \in Ids
        PROVE  /\ CountOf(id, published[n]) = 0 /\ CountIn(id, buffer[n]) = 0
               /\ \A k : CountEmit(n, k, id) = 0 /\ CountHandled(n, k, id) = 0
    <3>1. CountOf(id, published[n]) = 0
      BY <1>1, CountOfNone
    <3>2. CountIn(id, buffer[n]) = 0
      BY <1>1, <2>1, NoPlaces DEF CountIn, IdsIn, Empty
    <3>3. \A k : CountEmit(n, k, id) = 0 /\ CountHandled(n, k, id) = 0
      BY <1>2, CountOfNone DEF CountEmit, CountHandled, NewSub
    <3> QED
      BY <3>1, <3>2, <3>3
  <2>4. Conserved(n)
    BY <2>3 DEF Conserved
  <2> QED
    BY <2>2, <2>4
<1>4. \A s \in Subscriptions : Idle(s)
  BY <1>2 DEF Idle, NewSub
<1> QED
  BY <1>3, <1>4 DEF Accounts

LEMMA NextAccounts == Inv /\ Progress /\ Accounts /\ [Next]_vars => Accounts'
<1> SUFFICES ASSUME Inv, Progress, Accounts, [Next]_vars
             PROVE  Accounts'
  OBVIOUS
<1>1. ASSUME NEW n \in Nodes, NodeStep(n)
      PROVE  Accounts'
  <2>1. CASE LastFlushPanics(n) \/ FinishPanics(n)
    BY <2>1, StoppedAccounts DEF LastFlushPanics, FinishPanics, Panic, channels, windows, history
  <2>2. CASE LastFlush(n)
    BY <2>2, FlushedAccounts, GroupAccounts
  <2> QED
    BY <1>1, <2>1, <2>2, LaunchAccounts, LoadAccounts, LoadFailsAccounts,
       SubscribedAccounts, FinishAccounts DEF NodeStep
<1>2. ASSUME NEW n \in Nodes, ProcessStep(n)
      PROVE  Accounts'
  <2>1. CASE PushPanics(n)
    BY <2>1, StoppedAccounts DEF PushPanics, Panic, channels, windows, history
  <2>2. CASE Drain(n)
    BY <2>2, StoppedAccounts DEF Drain, windows, history
  <2> QED
    BY <1>2, <2>1, <2>2, ReceiveAccounts, PassesAccounts DEF ProcessStep
<1>3. ASSUME NEW s \in Subscriptions, SubscriptionStep(s)
      PROVE  Accounts'
  BY <1>3, CheckAccounts, AddAccounts, UnsubscribeAccounts, EmitAccounts,
     EmitFailsAccounts, WorkAccounts, WorkerEndsAccounts DEF SubscriptionStep
<1>4. CASE UNCHANGED vars
  BY <1>4, StoppedAccounts DEF vars, windows, history
<1> QED
  BY <1>1, <1>2, <1>3, <1>4 DEF Next, Alive, AliveSubscriptions

LEMMA AccountsInvariant == FairSpec => [](Inv /\ Progress /\ Accounts)
<1>1. Init => Inv /\ Progress /\ Accounts
  BY InitInv, InitProgress, InitAccounts
<1>2. Inv /\ Progress /\ Accounts /\ [Next]_vars => (Inv /\ Progress /\ Accounts)'
  BY NextInv, NextProgress, NextAccounts
<1> QED
  BY <1>1, <1>2, PTL DEF FairSpec

-----------------------------------------------------------------------------
(* Nothing is lost *)

\* The inputs of a node.
LEMMA InputsOf ==
    ASSUME Inv, NEW n \in Nodes, graph[n].kind # "load"
    PROVE  /\ \A k : <<n, k>> \in Subscriptions <=> k \in 1 .. Len(graph[n].input)
           /\ Len(graph[n].input) \in {1, 2}
<1>1. graph \in Graphs
  BY DEF Inv, TypeOK
<1>2. /\ graph[n].kind \in {"load", "map", "window", "join"}
      /\ graph[n].input \in Seq(n + 1 .. Len(graph))
      /\ Len(graph[n].input) = CASE graph[n].kind = "load" -> 0
                                 [] graph[n].kind = "join" -> 2
                                 [] OTHER -> 1
  <2>1. /\ graph = [k \in 1 .. Len(graph) |-> graph[k]]
        /\ \A k \in 1 .. Len(graph) :
              /\ graph[k].kind \in {"load", "map", "window", "join"}
              /\ graph[k].input \in Seq(k + 1 .. Len(graph))
              /\ Len(graph[k].input) = CASE graph[k].kind = "load" -> 0
                                         [] graph[k].kind = "join" -> 2
                                         [] OTHER -> 1
    BY <1>1, GraphsAssumption
  <2>2. n \in 1 .. Len(graph)
    BY <2>1 DEF Nodes
  <2> QED
    BY <2>1, <2>2
<1>3. Len(graph[n].input) \in {1, 2}
  BY <1>2
<1>4. DOMAIN graph[n].input = 1 .. Len(graph[n].input)
  BY <1>2
<1> QED
  BY <1>3, <1>4 DEF Subscriptions

\* A subscriber of a node that has ended has handled all of its input.
LEMMA AllHandled ==
    ASSUME Inv, Progress, Accounts, ~Late, ~failed, NEW s \in Subscriptions,
           graph[s[1]].kind # "load", node[s[1]] \in {"closing", "returned"}
    PROVE  /\ handled[s] = published[Source(s)]
           /\ sub[s].emit = <<>>
<1> PICK n \in Nodes, k \in Nodes : n = s[1] /\ k = Source(s)
  BY Shape DEF Inv
<1>1. /\ TypeOK /\ Ends(k) /\ Waits(s) /\ Served(s) /\ Followed(s) /\ Passed(n) /\ Idle(s)
  BY DEF Inv, Channel, Progress, Accounts
<1>2. ~cancelled
  BY DEF Progress, Late
<1>3. sub[s].call = "returned" /\ sub[s].result # "error"
  BY <1>1, <1>2 DEF Passed, Late
<1>4. joined[s] = 0
  <2>1. joined[s] \in Nat /\ ~(joined[s] > 0)
    BY <1>1, <1>3 DEF Idle, Late
  <2> QED
    BY <2>1
<1>5. sub[s].emit = <<>>
  BY <1>1, <1>3, Quiet DEF Idle
<1>6. /\ handled[s] \in Seq(Messages) /\ published[k] \in Seq(Messages)
  BY <1>1, ChannelTypes, CallTypes
<1>7. queue[k] = <<>>
  <2>1. sub[s].worker = "ended" /\ sub[s].shut
    BY <1>1, <1>3, <1>4 DEF Served
  <2> QED
    BY <1>1, <2>1 DEF Served, Ends
<1>8. Len(handled[s]) = Len(published[k])
  <2>1. joined[s] + Len(handled[s]) = Taken(k)
    BY <1>1, <1>3, <1>4 DEF Served
  <2>2. Len(queue[k]) = 0 /\ Len(handled[s]) \in Nat /\ Len(published[k]) \in Nat
    BY <1>6, <1>7
  <2> QED
    BY <1>4, <2>1, <2>2 DEF Taken
<1>9. \A i \in 1 .. Len(handled[s]) : handled[s][i] = published[k][0 + i]
  BY <1>1, <1>4 DEF Followed, Follows
<1>10. handled[s] = published[k]
  BY <1>6, <1>8, <1>9, AllOf
<1> QED
  BY <1>5, <1>10

LEMMA NothingLost ==
    ASSUME Inv, Progress, Accounts, ~Late, ~failed, NEW n \in Nodes, NEW id \in Ids,
           graph[n].kind # "load", node[n] \in {"closing", "returned"}
    PROVE  Count(id, IdsOf(published[n])) + LeftIn(n, id) = CountInputs(n, id)
<1>1. /\ TypeOK /\ Conserved(n) /\ Emptied(n)
      /\ \A k : <<n, k>> \in Subscriptions <=> k \in 1 .. Len(graph[n].input)
      /\ Len(graph[n].input) \in {1, 2}
  BY InputsOf DEF Inv, Accounts
<1> PICK p, b : p = CountOf(id, published[n]) /\ b = CountIn(id, buffer[n])
  OBVIOUS
<1>2. p \in Nat /\ b \in Nat
  BY <1>1, CountTypes
<1>3. LeftIn(n, id) = b
  <2>1. CASE Triggered(n, {"watermark"})
    <3>1. ~cancelled
      BY DEF Progress, Late
    <3>2. \A w \in Windows : buffer[n][w].ids = <<>>
      BY <1>1, <2>1, <3>1 DEF Emptied, Empty
    <3>3. CountIn(id, buffer[n]) = 0
      BY <3>2, NoPlaces DEF CountIn, IdsIn
    <3> QED
      BY <2>1, <3>3 DEF LeftIn
  <2>2. CASE ~Triggered(n, {"watermark"})
    BY <2>2 DEF LeftIn, CountIn
  <2> QED
    BY <2>1, <2>2
<1>4. \A k : CountEmit(n, k, id) = 0
  <2> SUFFICES ASSUME NEW k, <<n, k>> \in Subscriptions
               PROVE  CountOf(id, sub[<<n, k>>].emit) = 0
    BY DEF CountEmit
  <2>1. sub[<<n, k>>].emit = <<>>
    BY AllHandled
  <2> QED
    BY <2>1, CountOfNone
<1>5. p + b = CountHandled(n, 1, id) + CountHandled(n, 2, id)
  BY <1>1, <1>2, <1>4 DEF Conserved
<1>6. ASSUME NEW k \in 1 .. Len(graph[n].input)
      PROVE  CountHandled(n, k, id) = Count(id, IdsOf(published[graph[n].input[k]]))
  <2>1. <<n, k>> \in Subscriptions /\ Source(<<n, k>>) = graph[n].input[k]
    BY <1>1 DEF Source
  <2>2. handled[<<n, k>>] = published[graph[n].input[k]]
    BY <2>1, AllHandled
  <2> QED
    BY <2>1, <2>2 DEF CountHandled, CountOf
<1>7. CASE Len(graph[n].input) = 1
  <2>1. CountHandled(n, 2, id) = 0 /\ CountHandled(n, 1, id) \in Nat
    BY <1>1, <1>7, CountTypes DEF CountHandled
  <2>2. CountInputs(n, id) = CountHandled(n, 1, id)
    BY <1>6, <1>7 DEF CountInputs
  <2> QED
    BY <1>3, <1>5, <2>1, <2>2 DEF CountOf
<1>8. CASE Len(graph[n].input) = 2
  <2>1. CountInputs(n, id) = CountHandled(n, 1, id) + CountHandled(n, 2, id)
    BY <1>6, <1>8 DEF CountInputs
  <2> QED
    BY <1>3, <1>5, <2>1 DEF CountOf
<1> QED
  BY <1>1, <1>7, <1>8

\* In a run without failures to which nobody subscribed late, a node that has
\* ended has published every item that it was sent, as often as it was sent,
\* by itself or in the group of a window, or it is in a window that the end of
\* the input does not trigger: nothing is lost or repeated on the way through
\* channels, buffers, handlers and windows.
THEOREM Complete == FairSpec => []FinishedIsComplete
<1>1. Inv /\ Progress /\ Accounts => FinishedIsComplete
  BY ToTheEnd, NothingLost DEF FinishedIsComplete, FinishedIsHandled
<1> QED
  BY <1>1, AccountsInvariant, PTL

=============================================================================
