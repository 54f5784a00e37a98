----------------------- MODULE WorkflowServiceProofs ------------------------
(***************************************************************************)
(* Optimistic saving is enough: for any number of runs, requests, tasks    *)
(* and copies under way, a schedule has one run ahead and a callback is    *)
(* settled once.                                                           *)
(*                                                                         *)
(* The argument: whoever works on a copy knows the state that is stored    *)
(* as long as the version is the same (CopiesAreOld, JobsAreBased), so a   *)
(* save that is accepted advances that state, as one command would; and    *)
(* what a worker is about to add, a new run or a callback, nobody else     *)
(* has (FreshIsAbsent, FreshIsDistinct, CallbacksAreDistinct).             *)
(***************************************************************************)
EXTENDS WorkflowService, FiniteSetTheorems, SequenceTheorems, TLAPS

Ahead == {"Scheduled", "ScheduleStopped"}
Unfinished == Ahead \cup {"Await", "Error"}

Copies == Range(stream) \cup (UNION {page[q] : q \in Selected})
                        \cup (UNION {Range(queue[q]) : q \in Tasks})

Stored == {r \in Runs : store[r] # Absent}

\* What is still to be executed leaves room for a version, and what waits
\* has a callback.
Proper(version, s) ==
    /\ s.phase \in Unfinished => version <= MaxVersion
    /\ s.phase = "Await" => s.callback \in Callbacks

StatesAreProper ==
    /\ \A r \in Stored : Proper(store[r].version, store[r].state)
    /\ \A c \in Copies : Proper(c.version, c.state)
    /\ \A w \in Workers :
          working[w] # Idle => Proper(working[w].version + 1, working[w].new)

\* A copy is of a state the run had.
CopiesAreOld ==
    \A c \in Copies : /\ c.run \in Stored
                      /\ c.version <= store[c.run].version
                      /\ c.version = store[c.run].version => c.state = store[c.run].state

\* The runs a job adds.
Added(job) == {r \in Runs : job # Idle /\ \/ job.version = 0 /\ r = job.run
                                          \/ job.next # Idle /\ r = job.next.run}

FreshIsAbsent == \A w \in Workers : Added(working[w]) \cap Stored = {}
FreshIsDistinct ==
    \A w, other \in Workers :
        w # other => Added(working[w]) \cap Added(working[other]) = {}

\* A job that starts a run.
Begins(job) ==
    /\ job.next = Idle
    /\ job.settles = <<>>
    /\ job.new.option = "schedule" => job.new.parent = job.run

\* A job that applies a command to state s.
Advances(job, s) ==
    /\ job.new.option = s.option /\ job.new.parent = s.parent
    /\ job.new.phase \in Follows(s.phase)
    /\ job.next # Idle =>
          /\ s.phase = "Scheduled" /\ s.option = "schedule"
          /\ job.new.phase \notin Ahead
          /\ job.next.run # job.run
          /\ job.next.state.phase = "Scheduled"
          /\ job.next.state.option = "schedule" /\ job.next.state.parent = s.parent
    /\ job.settles # <<>> =>
          /\ s.phase = "Await"
          /\ Len(job.settles) = 1 /\ job.settles[1].callback = s.callback

Based(job) ==
    IF job.version = 0
    THEN Begins(job)
    ELSE /\ job.run \in Stored
         /\ job.version <= store[job.run].version
         /\ job.version = store[job.run].version => Advances(job, store[job.run].state)

JobsAreBased == \A w \in Workers : working[w] # Idle => Based(working[w])

\* The parent of a schedule is, or was, a run too.
ParentsAreStored ==
    \A r \in Stored : store[r].state.option = "schedule" => store[r].state.parent \in Stored

\* The callbacks that were settled, that stored runs wait for, and that jobs
\* are about to wait for.
Gone == {settled[i].callback : i \in DOMAIN settled}
Waiting == {r \in Stored : store[r].state.phase = "Await"}
Asking == {w \in Workers : working[w] # Idle /\ working[w].new.phase = "Await"}

CallbacksAreDistinct ==
    /\ Gone \subseteq 1 .. issued
    /\ \A r \in Waiting : store[r].state.callback \in (1 .. issued) \ Gone
    /\ \A w \in Asking : working[w].new.callback \in (1 .. issued) \ Gone
    /\ \A r, other \in Waiting :
          store[r].state.callback = store[other].state.callback => r = other
    /\ \A w, other \in Asking :
          working[w].new.callback = working[other].new.callback => w = other
    /\ \A w \in Asking, r \in Waiting : working[w].new.callback # store[r].state.callback

Inv ==
    /\ TypeOK
    /\ StatesAreProper
    /\ CopiesAreOld
    /\ FreshIsAbsent
    /\ FreshIsDistinct
    /\ JobsAreBased
    /\ ParentsAreStored
    /\ OneLivePerSchedule
    /\ CallbacksAreDistinct
    /\ EachCallbackSettledOnce

-----------------------------------------------------------------------------
(* Lemmas about the operators *)

USE BoundsAssumption

LEMMA RecordTypes ==
    /\ \A x \in Record : x # Absent
    /\ \A x \in Job : x # Idle
    /\ \A x \in [run : Runs, state : State] : x # Idle
    /\ Idle \notin Job
<1>1. \A x \in Record : x.version # 0
  BY DEF Record
<1>2. Absent.version = 0 /\ Idle.run = 0
  BY DEF Absent, Idle
<1>3. \A x \in Job : x.run # 0
  BY DEF Job, Runs
<1>4. \A x \in [run : Runs, state : State] : x.run # 0
  BY DEF Runs
<1>5. QED
  BY <1>1, <1>2, <1>3, <1>4

\* What an execution may come to.
ExecutedOK(t, s, version) ==
    /\ t \in State
    /\ t.option = s.option /\ t.parent = s.parent
    /\ t.phase \in {"Done", "Error", "Failed", "Await"}
    /\ t.phase = "Await" => issued < MaxCallbacks /\ t.callback = issued + 1
    /\ Proper(version + 1, t)

LEMMA ExecutedFacts ==
    ASSUME issued \in 0 .. MaxCallbacks, now \in 0 .. MaxTime,
           NEW s \in State, NEW version \in Nat, NEW t \in Executed(s, version)
    PROVE  ExecutedOK(t, s, version)
<1> DEFINE to(phase, callback, due) ==
        [s EXCEPT !.phase = phase, !.callback = callback, !.due = due, !.retried = 0]
<1>1. /\ t \in {to("Done", 0, 0), to("Error", 0, 0), to("Failed", 0, 0)}
             \cup (IF issued < MaxCallbacks
                   THEN {to("Await", issued + 1, now + Timeout)} ELSE {})
      /\ t.phase = "Done" \/ version < MaxVersion
  BY DEF Executed
<1>2. CASE t = to("Done", 0, 0)
  BY <1>2 DEF ExecutedOK, State, Callbacks, Proper, Unfinished, Ahead
<1>3. CASE t = to("Error", 0, 0)
  <2>1. t \in State /\ t.phase = "Error" /\ t.option = s.option /\ t.parent = s.parent
    BY <1>3 DEF State, Callbacks
  <2>2. version < MaxVersion
    BY <1>1, <2>1
  <2>3. QED
    BY <2>1, <2>2 DEF ExecutedOK, Proper
<1>4. CASE t = to("Failed", 0, 0)
  BY <1>4 DEF ExecutedOK, State, Callbacks, Proper, Unfinished, Ahead
<1>5. CASE issued < MaxCallbacks /\ t = to("Await", issued + 1, now + Timeout)
  <2>1. issued + 1 \in Callbacks /\ now + Timeout \in Nat
    BY <1>5 DEF Callbacks
  <2>2. /\ t \in State /\ t.phase = "Await"
        /\ t.callback = issued + 1 /\ t.callback \in Callbacks
        /\ t.option = s.option /\ t.parent = s.parent
    BY <1>5, <2>1 DEF State
  <2>3. version < MaxVersion
    BY <1>1, <2>2
  <2>4. QED
    BY <1>5, <2>2, <2>3 DEF ExecutedOK, Proper
<1>6. QED
  BY <1>1, <1>2, <1>3, <1>4, <1>5

\* What a command makes of a state.
TransitionOK(new, cmd, s, version) ==
    /\ new \in State
    /\ new.option = s.option /\ new.parent = s.parent
    /\ new.phase \in Follows(s.phase)
    /\ s.phase \in Unfinished
    /\ new.phase = "Await" => issued < MaxCallbacks /\ new.callback = issued + 1
    /\ cmd = "run" => s.phase = "Scheduled" /\ new.phase \notin Ahead
    /\ cmd \in {"callback", "expire"} => s.phase = "Await"
    /\ cmd \notin {"stop", "resume"} => Proper(version + 1, new)

LEMMA TransitionFacts ==
    ASSUME issued \in 0 .. MaxCallbacks, now \in 0 .. MaxTime,
           NEW s \in State, NEW version \in Nat, NEW cmd,
           NEW new \in Transition(cmd, s, version)
    PROVE  TransitionOK(new, cmd, s, version)
<1>1. CASE cmd = "run"
  <2>1. s.phase = "Scheduled" /\ new \in Executed(s, version)
    BY <1>1 DEF Transition
  <2>2. QED
    BY <1>1, <2>1, ExecutedFacts DEF ExecutedOK, TransitionOK, Follows, Unfinished, Ahead
<1>2. CASE cmd = "callback"
  <2>1. s.phase = "Await" /\ new \in Executed(s, version)
    BY <1>2 DEF Transition
  <2>2. QED
    BY <1>2, <2>1, ExecutedFacts DEF ExecutedOK, TransitionOK, Follows, Unfinished, Ahead
<1>3. CASE cmd = "recover"
  <2>1. /\ s.phase = "Error"
        /\ new \in {IF t.phase = "Error" /\ again
                    THEN [t EXCEPT !.retried = s.retried + 1] ELSE t :
                        t \in Executed(s, version), again \in BOOLEAN}
    BY <1>3 DEF Transition
  <2>2. PICK t \in Executed(s, version) :
           new = t \/ (t.phase = "Error" /\ new = [t EXCEPT !.retried = s.retried + 1])
    BY <2>1
  <2>3. ExecutedOK(t, s, version)
    BY <2>2, ExecutedFacts
  <2>4. ExecutedOK(new, s, version)
    BY <2>2, <2>3 DEF ExecutedOK, State, Proper
  <2>5. QED
    BY <1>3, <2>1, <2>4 DEF ExecutedOK, TransitionOK, Follows, Unfinished, Ahead
<1>4. CASE cmd = "stop"
  <2>1. s.phase = "Scheduled" /\ new = [s EXCEPT !.phase = "ScheduleStopped"]
    BY <1>4 DEF Transition
  <2>2. QED
    BY <1>4, <2>1 DEF TransitionOK, State, Follows, Unfinished, Ahead
<1>5. CASE cmd = "resume"
  <2>1. s.phase = "ScheduleStopped" /\ new = [s EXCEPT !.phase = "Scheduled", !.due = now + 1]
    BY <1>5 DEF Transition
  <2>2. now + 1 \in Nat
    OBVIOUS
  <2>3. new \in State /\ new.phase = "Scheduled" /\ new.option = s.option /\ new.parent = s.parent
    BY <2>1, <2>2 DEF State
  <2>4. QED
    BY <1>5, <2>1, <2>3 DEF TransitionOK, Follows, Unfinished, Ahead
<1>6. CASE cmd = "expire"
  <2>1. /\ s.phase = "Await"
        /\ new = [s EXCEPT !.phase = "Failed", !.retried = MaxRetries,
                           !.callback = 0, !.due = 0]
    BY <1>6 DEF Transition
  <2>2. QED
    BY <1>6, <2>1 DEF TransitionOK, State, Follows, Unfinished, Ahead, Proper
<1>7. QED
  BY <1>1, <1>2, <1>3, <1>4, <1>5, <1>6 DEF Transition

LEMMA SequenceFacts ==
    ASSUME NEW S, NEW q \in Seq(S)
    PROVE  /\ Range(q) \subseteq S
           /\ q # <<>> => /\ Head(q) \in Range(q)
                          /\ Tail(q) \in Seq(S) /\ Len(Tail(q)) = Len(q) - 1
                          /\ Range(Tail(q)) \subseteq Range(q)
           /\ \A c \in S : /\ Append(q, c) \in Seq(S) /\ Len(Append(q, c)) = Len(q) + 1
                           /\ Range(Append(q, c)) \subseteq Range(q) \cup {c}
           /\ \A p \in Seq(S) : /\ q \o p \in Seq(S)
                                /\ Range(q \o p) \subseteq Range(q) \cup Range(p)
<1>1. DOMAIN q = 1 .. Len(q) /\ Len(q) \in Nat
  OBVIOUS
<1>2. Range(q) \subseteq S
  BY DEF Range
<1>3. ASSUME q # <<>>
      PROVE  /\ Head(q) \in Range(q)
             /\ Tail(q) \in Seq(S) /\ Len(Tail(q)) = Len(q) - 1
             /\ Range(Tail(q)) \subseteq Range(q)
  <2>1. /\ Head(q) = q[1] /\ 1 \in DOMAIN q
        /\ Tail(q) \in Seq(S) /\ Len(Tail(q)) = Len(q) - 1
        /\ DOMAIN Tail(q) = 1 .. Len(q) - 1
        /\ \A i \in 1 .. Len(q) - 1 : Tail(q)[i] = q[i + 1] /\ i + 1 \in DOMAIN q
    BY <1>1, <1>3
  <2>2. QED
    BY <2>1 DEF Range
<1>4. ASSUME NEW c \in S
      PROVE  /\ Append(q, c) \in Seq(S) /\ Len(Append(q, c)) = Len(q) + 1
             /\ Range(Append(q, c)) \subseteq Range(q) \cup {c}
  <2>1. /\ Append(q, c) \in Seq(S) /\ Len(Append(q, c)) = Len(q) + 1
        /\ DOMAIN Append(q, c) = 1 .. Len(q) + 1
        /\ \A i \in 1 .. Len(q) + 1 :
              (i \in DOMAIN q /\ Append(q, c)[i] = q[i]) \/ Append(q, c)[i] = c
    BY <1>1
  <2>2. QED
    BY <2>1 DEF Range
<1>5. ASSUME NEW p \in Seq(S)
      PROVE  /\ q \o p \in Seq(S)
             /\ Range(q \o p) \subseteq Range(q) \cup Range(p)
  <2>1. /\ q \o p \in Seq(S)
        /\ DOMAIN (q \o p) = 1 .. Len(q) + Len(p)
        /\ DOMAIN p = 1 .. Len(p) /\ Len(p) \in Nat
    OBVIOUS
  <2>2. ASSUME NEW i \in DOMAIN (q \o p)
        PROVE  \/ i \in DOMAIN q /\ (q \o p)[i] = q[i]
               \/ i - Len(q) \in DOMAIN p /\ (q \o p)[i] = p[i - Len(q)]
    BY <1>1, <2>1
  <2>3. QED
    BY <2>1, <2>2 DEF Range
<1>6. QED
  BY <1>2, <1>3, <1>4, <1>5

LEMMA CopiesAreTyped ==
    ASSUME TypeOK
    PROVE  Copies \subseteq Copy
<1>1. stream \in Seq(Copy) /\ \A q \in Tasks : queue[q] \in Seq(Copy)
  BY DEF TypeOK
<1>2. Range(stream) \subseteq Copy /\ \A q \in Tasks : Range(queue[q]) \subseteq Copy
  BY <1>1, SequenceFacts
<1>3. \A q \in Selected : page[q] \subseteq Copy
  BY DEF TypeOK
<1>4. ASSUME NEW c \in Copies
      PROVE  c \in Copy
  <2>1. \/ c \in Range(stream)
        \/ \E q \in Selected : c \in page[q]
        \/ \E q \in Tasks : c \in Range(queue[q])
    BY DEF Copies
  <2>2. QED
    BY <1>2, <1>3, <2>1
<1>5. QED
  BY <1>4

\* The copies one can take now.
Current == {CopyOf(r) : r \in Stored}

LEMMA CurrentIsTyped ==
    ASSUME TypeOK
    PROVE  Current \subseteq Copy
<1>1. \A r \in Stored : store[r] \in Record
  BY DEF TypeOK, Stored
<1>2. QED
  BY <1>1 DEF Current, CopyOf, Record, Copy, Stored

-----------------------------------------------------------------------------
(* A step that only moves copies *)

Moves ==
    /\ Copies' \subseteq Copies \cup Current
    /\ UNCHANGED <<store, working, issued, settled>>

LEMMA MovesKeepInv ==
    ASSUME Inv, TypeOK', Moves
    PROVE  Inv'
<1>1. Stored' = Stored
  BY DEF Moves, Stored
<1>2. ASSUME NEW c \in Current
      PROVE  /\ c.run \in Stored
             /\ c.version = store[c.run].version /\ c.state = store[c.run].state
             /\ c.version <= store[c.run].version
             /\ Proper(c.version, c.state)
  <2>1. PICK r \in Stored : c = CopyOf(r)
    BY DEF Current
  <2>2. store[r].version \in 1 .. MaxVersion + 1
    BY DEF Inv, TypeOK, Stored, Record
  <2>3. QED
    BY <2>1, <2>2 DEF CopyOf, Inv, StatesAreProper
<1>3. StatesAreProper'
  BY <1>1, <1>2 DEF Moves, Inv, StatesAreProper, Proper
<1>4. CopiesAreOld'
  BY <1>1, <1>2 DEF Moves, Inv, CopiesAreOld
<1>5. FreshIsAbsent' /\ FreshIsDistinct'
  BY <1>1 DEF Moves, Inv, FreshIsAbsent, FreshIsDistinct, Added
<1>6. JobsAreBased'
  <2>1. ASSUME NEW w \in Workers, working[w] # Idle
        PROVE  Based(working[w])'
    <3>1. Based(working[w])
      BY <2>1 DEF Inv, JobsAreBased
    <3>2. QED
      BY <1>1, <3>1 DEF Moves, Based, Begins, Advances
  <2>2. QED
    BY <2>1 DEF Moves, JobsAreBased
<1>7. ParentsAreStored' /\ OneLivePerSchedule'
  BY <1>1 DEF Moves, Inv, ParentsAreStored, OneLivePerSchedule, Live
<1>8. CallbacksAreDistinct' /\ EachCallbackSettledOnce'
  BY <1>1 DEF Moves, Inv, CallbacksAreDistinct, EachCallbackSettledOnce, Gone, Waiting, Asking
<1>9. QED
  BY <1>3, <1>4, <1>5, <1>6, <1>7, <1>8 DEF Inv

-----------------------------------------------------------------------------
(* A step in which a worker takes up a job *)

Takes(w, job) ==
    /\ working' = [working EXCEPT ![w] = job]
    /\ Issue(job.new)
    /\ Copies' \subseteq Copies
    /\ UNCHANGED <<store, settled>>

Takeable(w, job) ==
    /\ working[w] = Idle
    /\ job \in Job
    /\ Proper(job.version + 1, job.new)
    /\ Based(job)
    /\ Added(job) \cap Stored = {}
    /\ \A other \in Workers : Added(job) \cap Added(working[other]) = {}
    /\ job.new.phase = "Await" => issued < MaxCallbacks /\ job.new.callback = issued + 1

LEMMA TakesKeepInv ==
    ASSUME Inv, TypeOK', NEW w \in Workers, NEW job, Takeable(w, job), Takes(w, job)
    PROVE  Inv'
<1>1. Stored' = Stored
  BY DEF Takes, Stored
<1>2. /\ working'[w] = job
      /\ \A other \in Workers \ {w} : working'[other] = working[other]
  BY DEF Takes, Inv, TypeOK
<1>3. StatesAreProper'
  BY <1>1, <1>2 DEF Takes, Takeable, Inv, StatesAreProper, Proper
<1>4. CopiesAreOld'
  BY <1>1 DEF Takes, Inv, CopiesAreOld
<1>5. \A j : Added(j)' = Added(j)
  BY DEF Added
<1>6. FreshIsAbsent' /\ FreshIsDistinct'
  BY <1>1, <1>2 DEF Takes, Takeable, Inv, FreshIsAbsent, FreshIsDistinct, Added
<1>7. JobsAreBased'
  <2>1. ASSUME NEW other \in Workers, working'[other] # Idle
        PROVE  Based(working[other])'
    <3>1. Based(working'[other])
      BY <1>2, <2>1 DEF Takeable, Inv, JobsAreBased
    <3>2. QED
      BY <1>1, <3>1 DEF Takes, Based, Begins, Advances
  <2>2. QED
    BY <2>1 DEF JobsAreBased
<1>8. ParentsAreStored' /\ OneLivePerSchedule' /\ EachCallbackSettledOnce'
  BY <1>1 DEF Takes, Inv, ParentsAreStored, OneLivePerSchedule, Live, EachCallbackSettledOnce
<1>9. CallbacksAreDistinct'
  <2>1. issued \in Nat /\ issued' \in Nat /\ issued' >= issued
    <3>1. issued \in Nat
      BY DEF Inv, TypeOK
    <3>2. issued' = issued \/ issued' = issued + 1
      BY DEF Takes, Takeable, Issue
    <3>3. QED
      BY <3>1, <3>2
  <2>2. Gone' = Gone /\ Waiting' = Waiting
    BY <1>1 DEF Takes, Gone, Waiting
  <2>3. 1 .. issued \subseteq 1 .. issued'
    BY <2>1
  <2>4. /\ Asking' \subseteq Asking \cup {w}
        /\ \A other \in Asking' \ {w} :
              other \in Asking /\ working'[other].new = working[other].new
        /\ w \notin Asking
    BY <1>2 DEF Takeable, Asking
  <2>5. w \in Asking' =>
           /\ working'[w].new.callback = issued + 1
           /\ issued' = issued + 1
    BY <1>2 DEF Takes, Takeable, Issue, Asking
  <2>6. w \in Asking' => working'[w].new.callback \in (1 .. issued') \ (1 .. issued)
    BY <2>1, <2>5
  <2>7. QED
    BY <2>2, <2>3, <2>4, <2>6 DEF Takes, Inv, CallbacksAreDistinct
<1>10. QED
  BY <1>3, <1>4, <1>6, <1>7, <1>8, <1>9 DEF Inv

LEMMA FreshRunsAreNew ==
    ASSUME NEW r \in FreshRun
    PROVE  r \in Runs \ Stored /\ \A w \in Workers : r \notin Added(working[w])
BY DEF FreshRun, FreshRuns, Stored, Added

\* A command that is applied to a copy of a run gives a job.
LEMMA ApplyTakes ==
    ASSUME Inv, NEW w \in Workers, working[w] = Idle,
           NEW cmd, NEW c \in Copies \cup Current,
           cmd \in {"stop", "resume"} => c.version < MaxVersion,
           Apply(w, cmd, c.run, c.version, c.state)
    PROVE  \E job : /\ Takeable(w, job)
                    /\ working' = [working EXCEPT ![w] = job]
                    /\ Issue(job.new)
<1>1. /\ c \in Copy
      /\ c.run \in Stored /\ c.version <= store[c.run].version
      /\ c.version = store[c.run].version => c.state = store[c.run].state
      /\ Proper(c.version, c.state)
  <2>1. CASE c \in Copies
    BY <2>1, CopiesAreTyped DEF Inv, CopiesAreOld, StatesAreProper
  <2>2. CASE c \in Current
    <3>1. PICK r \in Stored : c = CopyOf(r)
      BY <2>2 DEF Current
    <3>2. store[r].version \in 1 .. MaxVersion + 1
      BY DEF Inv, TypeOK, Stored, Record
    <3>3. c \in Copy
      BY <2>2, CurrentIsTyped DEF Inv
    <3>4. QED
      BY <3>1, <3>2, <3>3 DEF CopyOf, Inv, StatesAreProper
  <2>3. QED
    BY <2>1, <2>2
<1>2. /\ c.run \in Runs /\ c.version \in 1 .. MaxVersion + 1 /\ c.state \in State
      /\ c.version \in Nat
  BY <1>1 DEF Copy
<1>3. PICK new \in Transition(cmd, c.state, c.version), next \in NextRuns(cmd, c.state) :
         /\ working' = [working EXCEPT ![w] =
               [run |-> c.run, version |-> c.version, new |-> new, next |-> next,
                settles |-> IF cmd \in {"callback", "expire"}
                            THEN <<[callback |-> c.state.callback, by |-> cmd]>> ELSE <<>>]]
         /\ Issue(new)
  BY DEF Apply
<1> DEFINE settles == IF cmd \in {"callback", "expire"}
                      THEN <<[callback |-> c.state.callback, by |-> cmd]>> ELSE <<>>
           job == [run |-> c.run, version |-> c.version, new |-> new, next |-> next,
                   settles |-> settles]
<1>4. TransitionOK(new, cmd, c.state, c.version)
  BY <1>2, TransitionFacts DEF Inv, TypeOK
<1>5. next # Idle =>
         /\ cmd = "run" /\ c.state.option = "schedule"
         /\ next.run \in FreshRun
         /\ next = [run |-> next.run, state |-> next.state]
         /\ next.state = [phase |-> "Scheduled", callback |-> 0, due |-> now + 1,
                          retried |-> 0, option |-> "schedule", parent |-> c.state.parent]
  BY DEF NextRuns, Started
<1>6. next # Idle => next.run \in Runs \ Stored
  BY <1>5, FreshRunsAreNew
<1>7. next # Idle => next.state \in State
  <2>1. SUFFICES ASSUME next # Idle
                 PROVE  next.state \in State
    OBVIOUS
  <2>2. now + 1 \in Nat
    BY DEF Inv, TypeOK
  <2>3. "schedule" \in Options /\ c.state.parent \in Runs \cup {0}
    BY <1>2, <1>5, <2>1 DEF State
  <2>4. QED
    BY <1>5, <2>1, <2>2, <2>3 DEF State
<1>8. settles \in Seq(Settlement)
  <2>1. CASE cmd \in {"callback", "expire"}
    <3>1. c.state.phase = "Await"
      BY <1>4, <2>1 DEF TransitionOK
    <3>2. [callback |-> c.state.callback, by |-> cmd] \in Settlement
      BY <1>1, <2>1, <3>1 DEF Proper, Settlement
    <3>3. QED
      BY <2>1, <3>2
  <2>2. CASE cmd \notin {"callback", "expire"}
    BY <2>2
  <2>3. QED
    BY <2>1, <2>2
<1>9. c.version \in 0 .. MaxVersion /\ Proper(c.version + 1, new)
  <2>1. c.version <= MaxVersion
    BY <1>1, <1>4 DEF TransitionOK, Proper
  <2>2. CASE cmd \in {"stop", "resume"}
    <3>1. c.version < MaxVersion
      BY <2>2
    <3>2. CASE cmd = "stop"
      BY <1>2, <1>3, <2>1, <3>1, <3>2 DEF Transition, State, Proper
    <3>3. CASE cmd = "resume"
      <4>1. new = [c.state EXCEPT !.phase = "Scheduled", !.due = now + 1]
        BY <1>3, <3>3 DEF Transition
      <4>2. new.phase = "Scheduled"
        BY <1>2, <4>1 DEF State
      <4>3. QED
        BY <1>2, <3>1, <4>2 DEF Proper
    <3>4. QED
      BY <2>2, <3>2, <3>3
  <2>3. QED
    BY <1>2, <1>4, <2>1, <2>2 DEF TransitionOK
<1>10. job \in Job
  BY <1>2, <1>4, <1>5, <1>6, <1>7, <1>8, <1>9 DEF Job, TransitionOK
<1>11. Based(job)
  <2>1. /\ job.version # 0 /\ job.run \in Stored
        /\ job.version <= store[job.run].version
    BY <1>1, <1>2
  <2>2. next # Idle =>
           /\ c.state.phase = "Scheduled" /\ c.state.option = "schedule"
           /\ new.phase \notin Ahead
           /\ next.run # c.run
           /\ next.state.phase = "Scheduled"
           /\ next.state.option = "schedule" /\ next.state.parent = c.state.parent
    BY <1>1, <1>4, <1>5, <1>6 DEF TransitionOK
  <2>3. settles # <<>> =>
           /\ c.state.phase = "Await"
           /\ Len(settles) = 1 /\ settles[1].callback = c.state.callback
    BY <1>4 DEF TransitionOK
  <2>4. Advances(job, c.state)
    BY <1>4, <2>2, <2>3 DEF Advances, TransitionOK
  <2>5. QED
    BY <1>1, <2>1, <2>4 DEF Based
<1>12. \A r \in Added(job) : next # Idle /\ r = next.run
  BY <1>2 DEF Added
<1>13. /\ Added(job) \cap Stored = {}
       /\ \A other \in Workers : Added(job) \cap Added(working[other]) = {}
  BY <1>5, <1>12, FreshRunsAreNew
<1>14. Takeable(w, job)
  BY <1>4, <1>9, <1>10, <1>11, <1>13 DEF Takeable, TransitionOK
<1>15. working' = [working EXCEPT ![w] = job] /\ Issue(job.new)
  BY <1>3
<1> HIDE DEF job
<1>16. QED
  BY <1>14, <1>15

\* A Run command of a client gives a job.
LEMMA StartTakes ==
    ASSUME Inv, NEW h \in Handlers, NEW option \in Options, Start(h, option)
    PROVE  \E job : /\ Takeable(h, job)
                    /\ working' = [working EXCEPT ![h] = job]
                    /\ Issue(job.new)
<1>1. PICK r \in FreshRun : \E new \in Started(option, IF option = "schedule" THEN r ELSE 0, 0) :
         /\ working' = [working EXCEPT ![h] =
               [run |-> r, version |-> 0, new |-> new, next |-> Idle, settles |-> <<>>]]
         /\ Issue(new)
  BY DEF Start
<1> DEFINE parent == IF option = "schedule" THEN r ELSE 0
           job(new) ==
               [run |-> r, version |-> 0, new |-> new, next |-> Idle, settles |-> <<>>]
<1>2. r \in Runs \ Stored /\ \A w \in Workers : r \notin Added(working[w])
  BY <1>1, FreshRunsAreNew
<1> DEFINE s == [phase |-> "Scheduled", callback |-> 0, due |-> now + 1, retried |-> 0,
                 option |-> option, parent |-> parent]
<1>3. PICK new \in Started(option, parent, 0) :
         working' = [working EXCEPT ![h] = job(new)] /\ Issue(new)
  BY <1>1
<1>4. s \in State
  <2>1. now + 1 \in Nat
    BY DEF Inv, TypeOK
  <2>2. QED
    BY <1>2, <2>1 DEF State
<1>5. /\ new \in State /\ Proper(1, new)
      /\ new.option = option /\ new.parent = parent
      /\ new.phase = "Await" => issued < MaxCallbacks /\ new.callback = issued + 1
  <2>1. CASE option = "none"
    <3>1. new \in Executed(s, 0)
      BY <1>3, <2>1 DEF Started
    <3>2. ExecutedOK(new, s, 0)
      BY <1>4, <3>1, ExecutedFacts DEF Inv, TypeOK
    <3>3. QED
      BY <3>2 DEF ExecutedOK
  <2>2. CASE option # "none"
    <3>1. new = s
      BY <1>3, <2>2 DEF Started
    <3>2. QED
      BY <1>4, <3>1 DEF Proper
  <2>3. QED
    BY <2>1, <2>2
<1>6. job(new) \in Job
  BY <1>2, <1>5 DEF Job
<1>7. Based(job(new))
  BY <1>5 DEF Based, Begins
<1>8. Added(job(new)) \subseteq {r}
  BY DEF Added
<1>9. working[h] = Idle
  BY DEF Start
<1>10. Takeable(h, job(new))
  BY <1>2, <1>5, <1>6, <1>7, <1>8, <1>9 DEF Takeable
<1>11. working' = [working EXCEPT ![h] = job(new)] /\ Issue(job(new).new)
  BY <1>3
<1> HIDE DEF job
<1>12. QED
  BY <1>10, <1>11

LEMMA WorkersAreTyped ==
    ASSUME TypeOK, NEW w \in Workers, NEW job, Takeable(w, job),
           working' = [working EXCEPT ![w] = job], Issue(job.new)
    PROVE  /\ working' \in [Workers -> Job \cup {Idle}]
           /\ issued' \in 0 .. MaxCallbacks
BY DEF TypeOK, Takeable, Issue

-----------------------------------------------------------------------------
(* Actions that take up a job, or move copies *)

LEMMA StartKeepsInv ==
    ASSUME Inv, NEW h \in Handlers, NEW option \in Options, Start(h, option)
    PROVE  Inv'
<1>1. PICK job : /\ Takeable(h, job)
                 /\ working' = [working EXCEPT ![h] = job]
                 /\ Issue(job.new)
  BY StartTakes
<1>2. h \in Workers
  BY DEF Workers
<1>3. UNCHANGED <<store, stream, page, queue, settled, now>>
  BY DEF Start
<1>4. TypeOK'
  BY <1>1, <1>2, <1>3, WorkersAreTyped DEF Inv, TypeOK
<1>5. Takes(h, job)
  BY <1>1, <1>3 DEF Takes, Copies
<1>6. QED
  BY <1>1, <1>2, <1>4, <1>5, TakesKeepInv

LEMMA RequestKeepsInv ==
    ASSUME Inv, NEW h \in Handlers, NEW cmd \in Requests, NEW r \in Runs,
           Request(h, cmd, r)
    PROVE  Inv'
<1>1. h \in Workers /\ working[h] = Idle
  BY DEF Workers, Request
<1>2. r \in Stored /\ CopyOf(r) \in Current
  BY DEF Request, Stored, Current
<1>3. Apply(h, cmd, CopyOf(r).run, CopyOf(r).version, CopyOf(r).state)
  BY DEF Request, CopyOf
<1>4. cmd \in {"stop", "resume"} => CopyOf(r).version < MaxVersion
  BY DEF Request, CopyOf
<1>5. PICK job : /\ Takeable(h, job)
                 /\ working' = [working EXCEPT ![h] = job]
                 /\ Issue(job.new)
  BY <1>1, <1>2, <1>3, <1>4, ApplyTakes
<1>6. UNCHANGED <<store, stream, page, queue, settled, now>>
  BY DEF Request
<1>7. TypeOK'
  BY <1>1, <1>5, <1>6, WorkersAreTyped DEF Inv, TypeOK
<1>8. Takes(h, job)
  BY <1>5, <1>6 DEF Takes, Copies
<1>9. QED
  BY <1>1, <1>5, <1>7, <1>8, TakesKeepInv

LEMMA ProcessKeepsInv ==
    ASSUME Inv, NEW task \in Tasks, Process(task)
    PROVE  Inv'
<1> DEFINE c == Head(queue[task])
<1>1. /\ task \in Workers /\ working[task] = Idle
      /\ queue[task] # <<>> /\ queue' = [queue EXCEPT ![task] = Tail(@)]
      /\ UNCHANGED <<store, stream, page, settled, now>>
  BY DEF Workers, Process
<1>2. /\ c \in Range(queue[task])
      /\ Tail(queue[task]) \in Seq(Copy) /\ Len(Tail(queue[task])) = Len(queue[task]) - 1
      /\ Range(Tail(queue[task])) \subseteq Range(queue[task])
  BY <1>1, SequenceFacts DEF Inv, TypeOK
<1>3. c \in Copies
  BY <1>2 DEF Copies
<1>4. /\ queue' \in [Tasks -> Seq(Copy)]
      /\ \A q \in Tasks : /\ Len(queue'[q]) <= QueueCapacity
                          /\ Range(queue'[q]) \subseteq Range(queue[q])
  <2>1. \A q \in Tasks : queue'[q] = IF q = task THEN Tail(queue[q]) ELSE queue[q]
    BY <1>1 DEF Inv, TypeOK
  <2>2. queue[task] \in Seq(Copy) /\ Len(queue[task]) <= QueueCapacity
    BY DEF Inv, TypeOK
  <2>3. Len(Tail(queue[task])) <= QueueCapacity
    BY <1>2, <2>2
  <2>4. queue' \in [Tasks -> Seq(Copy)]
    BY <1>1, <1>2 DEF Inv, TypeOK
  <2>5. QED
    BY <1>2, <2>1, <2>3, <2>4 DEF Inv, TypeOK
<1>5. Copies' \subseteq Copies
  <2>1. ASSUME NEW d \in Copies'
        PROVE  d \in Copies
    <3>1. \/ d \in Range(stream)
          \/ \E q \in Selected : d \in page[q]
          \/ \E q \in Tasks : d \in Range(queue'[q])
      BY <1>1 DEF Copies
    <3>2. QED
      BY <1>4, <3>1 DEF Copies
  <2>2. QED
    BY <2>1
<1>6. CASE UNCHANGED <<working, issued>>
  <2>1. TypeOK'
    BY <1>1, <1>4, <1>6 DEF Inv, TypeOK
  <2>2. Moves
    BY <1>1, <1>5, <1>6 DEF Moves
  <2>3. QED
    BY <2>1, <2>2, MovesKeepInv
<1>7. CASE Apply(task, task, c.run, c.version, c.state)
  <2>1. task \notin {"stop", "resume"}
    BY DEF Tasks, Selected
  <2>2. PICK job : /\ Takeable(task, job)
                   /\ working' = [working EXCEPT ![task] = job]
                   /\ Issue(job.new)
    BY <1>1, <1>3, <1>7, <2>1, ApplyTakes
  <2>3. TypeOK'
    BY <1>1, <1>4, <2>2, WorkersAreTyped DEF Inv, TypeOK
  <2>4. Takes(task, job)
    BY <1>1, <1>5, <2>2 DEF Takes
  <2>5. QED
    BY <1>1, <2>2, <2>3, <2>4, TakesKeepInv
<1>8. QED
  BY <1>6, <1>7 DEF Process

LEMMA PushIsTyped ==
    ASSUME Inv, NEW task \in Tasks, NEW c \in Copies, Push(task, c)
    PROVE  /\ queue' \in [Tasks -> Seq(Copy)]
           /\ \A q \in Tasks : /\ Len(queue'[q]) <= QueueCapacity
                               /\ Range(queue'[q]) \subseteq Copies
<1>1. c \in Copy
  BY CopiesAreTyped DEF Inv
<1>2. /\ Append(queue[task], c) \in Seq(Copy)
      /\ Len(Append(queue[task], c)) = Len(queue[task]) + 1
      /\ Range(Append(queue[task], c)) \subseteq Range(queue[task]) \cup {c}
  BY <1>1, SequenceFacts DEF Inv, TypeOK
<1>3. Len(queue[task]) \in Nat /\ Len(queue[task]) < QueueCapacity
  BY DEF Inv, TypeOK, Push
<1>4. \A q \in Tasks : queue'[q] = IF q = task THEN Append(queue[q], c) ELSE queue[q]
  BY DEF Push, Inv, TypeOK
<1>5. \A q \in Tasks : Range(queue[q]) \subseteq Copies
  BY DEF Copies
<1>6. queue' \in [Tasks -> Seq(Copy)]
  BY <1>2 DEF Push, Inv, TypeOK
<1>7. Len(Append(queue[task], c)) <= QueueCapacity
  BY <1>2, <1>3
<1>8. QED
  BY <1>2, <1>4, <1>5, <1>6, <1>7 DEF Inv, TypeOK

LEMMA FindKeepsInv ==
    ASSUME Inv, NEW task \in Selected, Find(task)
    PROVE  Inv'
<1>1. /\ UNCHANGED <<store, stream, queue, working, issued, settled, now>>
      /\ page' = [page EXCEPT ![task] =
            {CopyOf(r) : r \in {x \in Runs : store[x] # Absent /\ Matches(task, store[x].state)}}]
  BY DEF Find
<1>2. \A q \in Selected : page'[q] \subseteq page[q] \cup Current
  BY <1>1 DEF Inv, TypeOK, Current, Stored
<1>3. TypeOK'
  <2>1. page' \in [Selected -> SUBSET Copy]
    BY <1>1, <1>2, CurrentIsTyped DEF Inv, TypeOK
  <2>2. QED
    BY <1>1, <2>1 DEF Inv, TypeOK
<1>4. Copies' \subseteq Copies \cup Current
  <2>1. ASSUME NEW d \in Copies'
        PROVE  d \in Copies \cup Current
    <3>1. \/ d \in Range(stream)
          \/ \E q \in Selected : d \in page'[q]
          \/ \E q \in Tasks : d \in Range(queue[q])
      BY <1>1 DEF Copies
    <3>2. QED
      BY <1>2, <3>1 DEF Copies
  <2>2. QED
    BY <2>1
<1>5. Moves
  BY <1>1, <1>4 DEF Moves
<1>6. QED
  BY <1>3, <1>5, MovesKeepInv

LEMMA PushFoundKeepsInv ==
    ASSUME Inv, NEW task \in Selected, PushFound(task)
    PROVE  Inv'
<1>1. UNCHANGED <<store, stream, working, issued, settled, now>>
  BY DEF PushFound
<1>2. PICK c \in page[task] : /\ Push(task, c)
                              /\ page' = [page EXCEPT ![task] = @ \ {c}]
  BY DEF PushFound
<1>3. c \in Copies
  BY <1>2 DEF Copies
<1>4. task \in Tasks
  BY DEF Tasks
<1>5. /\ queue' \in [Tasks -> Seq(Copy)]
      /\ \A q \in Tasks : /\ Len(queue'[q]) <= QueueCapacity
                          /\ Range(queue'[q]) \subseteq Copies
  BY <1>2, <1>3, <1>4, PushIsTyped
<1>6. \A q \in Selected : page'[q] \subseteq page[q]
  BY <1>2 DEF Inv, TypeOK
<1>7. TypeOK'
  <2>1. page' \in [Selected -> SUBSET Copy]
    BY <1>2, <1>6 DEF Inv, TypeOK
  <2>2. QED
    BY <1>1, <1>5, <2>1 DEF Inv, TypeOK
<1>8. Copies' \subseteq Copies
  <2>1. ASSUME NEW d \in Copies'
        PROVE  d \in Copies
    <3>1. \/ d \in Range(stream)
          \/ \E q \in Selected : d \in page'[q]
          \/ \E q \in Tasks : d \in Range(queue'[q])
      BY <1>1 DEF Copies
    <3>2. QED
      BY <1>5, <1>6, <3>1 DEF Copies
  <2>2. QED
    BY <2>1
<1>9. Moves
  BY <1>1, <1>8 DEF Moves
<1>10. QED
  BY <1>7, <1>9, MovesKeepInv

LEMMA PushChangeKeepsInv ==
    ASSUME Inv, PushChange
    PROVE  Inv'
<1>1. /\ stream # <<>> /\ stream' = Tail(stream)
      /\ UNCHANGED <<store, page, working, issued, settled, now>>
  BY DEF PushChange
<1>2. /\ Head(stream) \in Range(stream)
      /\ stream' \in Seq(Copy) /\ Range(stream') \subseteq Range(stream)
  BY <1>1, SequenceFacts DEF Inv, TypeOK
<1>3. Head(stream) \in Copies
  BY <1>2 DEF Copies
<1>4. /\ queue' \in [Tasks -> Seq(Copy)]
      /\ \A q \in Tasks : /\ Len(queue'[q]) <= QueueCapacity
                          /\ Range(queue'[q]) \subseteq Copies
  <2>1. CASE Push("recover", Head(stream))
    BY <1>3, <2>1, PushIsTyped DEF Tasks
  <2>2. CASE UNCHANGED queue
    BY <2>2 DEF Inv, TypeOK, Copies
  <2>3. QED
    BY <2>1, <2>2 DEF PushChange
<1>5. TypeOK'
  BY <1>1, <1>2, <1>4 DEF Inv, TypeOK
<1>6. Copies' \subseteq Copies
  <2>1. ASSUME NEW d \in Copies'
        PROVE  d \in Copies
    <3>1. \/ d \in Range(stream')
          \/ \E q \in Selected : d \in page[q]
          \/ \E q \in Tasks : d \in Range(queue'[q])
      BY <1>1 DEF Copies
    <3>2. QED
      BY <1>2, <1>4, <3>1 DEF Copies
  <2>2. QED
    BY <2>1
<1>7. Moves
  BY <1>1, <1>6 DEF Moves
<1>8. QED
  BY <1>5, <1>7, MovesKeepInv

LEMMA TickKeepsInv ==
    ASSUME Inv, Tick
    PROVE  Inv'
<1>1. /\ now < MaxTime /\ now' = now + 1
      /\ UNCHANGED <<store, stream, page, queue, working, issued, settled>>
  BY DEF Tick
<1>2. now' \in 0 .. MaxTime
  BY <1>1 DEF Inv, TypeOK
<1>3. TypeOK'
  BY <1>1, <1>2 DEF Inv, TypeOK
<1>4. Moves
  BY <1>1 DEF Moves, Copies
<1>5. QED
  BY <1>3, <1>4, MovesKeepInv

-----------------------------------------------------------------------------
(* A worker saves its job, or drops it *)

LEMMA DropKeepsInv ==
    ASSUME Inv, NEW w \in Workers,
           working' = [working EXCEPT ![w] = Idle],
           UNCHANGED <<store, stream, page, queue, issued, settled, now>>
    PROVE  Inv'
<1>1. Stored' = Stored /\ Copies' = Copies /\ Gone' = Gone /\ Waiting' = Waiting
  BY DEF Stored, Copies, Gone, Waiting
<1>2. /\ working'[w] = Idle
      /\ \A other \in Workers \ {w} : working'[other] = working[other]
  BY DEF Inv, TypeOK
<1>3. TypeOK'
  BY DEF Inv, TypeOK
<1>4. StatesAreProper' /\ CopiesAreOld'
  BY <1>1, <1>2 DEF Inv, StatesAreProper, Proper, CopiesAreOld
<1>5. FreshIsAbsent' /\ FreshIsDistinct'
  BY <1>1, <1>2 DEF Inv, FreshIsAbsent, FreshIsDistinct, Added
<1>6. JobsAreBased'
  <2>1. ASSUME NEW other \in Workers, working'[other] # Idle
        PROVE  Based(working[other])'
    <3>1. Based(working'[other])
      BY <1>2, <2>1 DEF Inv, JobsAreBased
    <3>2. QED
      BY <1>1, <3>1 DEF Based, Begins, Advances
  <2>2. QED
    BY <2>1 DEF JobsAreBased
<1>7. ParentsAreStored' /\ OneLivePerSchedule' /\ EachCallbackSettledOnce'
  BY <1>1 DEF Inv, ParentsAreStored, OneLivePerSchedule, Live, EachCallbackSettledOnce
<1>8. CallbacksAreDistinct'
  <2>1. \A other \in Asking' :
           other \in Asking /\ working'[other].new = working[other].new
    BY <1>2 DEF Asking
  <2>2. QED
    BY <1>1, <2>1 DEF Inv, CallbacksAreDistinct
<1>9. QED
  BY <1>3, <1>4, <1>5, <1>6, <1>7, <1>8 DEF Inv

\* A job that is saved without a conflict begins a run that is not there, or
\* advances the state that is stored.
Timely(job) ==
    /\ job \in Job
    /\ Proper(job.version + 1, job.new)
    /\ Added(job) \cap Stored = {}
    /\ IF job.version = 0
       THEN job.run \notin Stored /\ Begins(job)
       ELSE /\ job.run \in Stored /\ job.version = store[job.run].version
            /\ Advances(job, store[job.run].state)

LEMMA AcceptedIsTimely ==
    ASSUME Inv, NEW w \in Workers, working[w] # Idle, ~ Conflicts(working[w])
    PROVE  Timely(working[w])
<1> DEFINE job == working[w]
<1>1. job \in Job /\ Proper(job.version + 1, job.new) /\ Based(job)
  BY DEF Inv, TypeOK, StatesAreProper, JobsAreBased
<1>2. job.run \in Runs
  BY <1>1 DEF Job
<1>3. Added(job) \cap Stored = {}
  BY DEF Inv, FreshIsAbsent
<1>4. CASE job.version = 0
  <2>1. job.run \in Added(job)
    BY <1>2, <1>4 DEF Added
  <2>2. QED
    BY <1>1, <1>3, <1>4, <2>1 DEF Timely, Based
<1>5. CASE job.version # 0
  <2>1. job.run \in Stored
    BY <1>1, <1>5 DEF Based
  <2>2. job.version = store[job.run].version
    BY <2>1 DEF Conflicts, Stored
  <2>3. QED
    BY <1>1, <1>3, <1>5, <2>1, <2>2 DEF Timely, Based
<1>6. QED
  BY <1>4, <1>5

\* What a save does to the repository.
Saves(w, job) ==
    /\ Stored' = Stored \cup {job.run} \cup Added(job)
    /\ store' \in [Runs -> Record \cup {Absent}]
    /\ store'[job.run] = [version |-> job.version + 1, state |-> job.new]
    /\ job.next # Idle =>
          store'[job.next.run] = [version |-> 1, state |-> job.next.state]
    /\ \A r \in Stored \ {job.run} : store'[r] = store[r]
    /\ stream' \in Seq(Copy)
    /\ Copies' \subseteq Copies \cup Current'
    /\ settled' = settled \o job.settles
    /\ working' = [working EXCEPT ![w] = Idle]
    /\ UNCHANGED <<page, queue, issued, now>>

LEMMA AcceptedSaves ==
    ASSUME Inv, NEW w \in Workers, Save(w), Timely(working[w]), ~ Conflicts(working[w])
    PROVE  Saves(w, working[w])
<1> DEFINE job == working[w]
           a == [run |-> job.run, version |-> job.version + 1, state |-> job.new]
           b == [run |-> job.next.run, version |-> 1, state |-> job.next.state]
           saved == {a} \cup IF job.next = Idle THEN {} ELSE {b}
           At(r) == CHOOSE c \in saved : c.run = r
<1>1. /\ working' = [working EXCEPT ![w] = Idle]
      /\ store' = [r \in Runs |->
            IF \E c \in saved : c.run = r
            THEN [version |-> At(r).version, state |-> At(r).state]
            ELSE store[r]]
      /\ \E order \in Bijection(1 .. Cardinality(saved), saved) : stream' = stream \o order
      /\ settled' = settled \o job.settles
      /\ UNCHANGED <<page, queue, issued, now>>
  BY DEF Save
<1>2. /\ job.run \in Runs /\ job.version \in 0 .. MaxVersion /\ job.new \in State
      /\ job.next # Idle => job.next.run \in Runs /\ job.next.state \in State
  BY DEF Timely, Job
<1>3. job.next # Idle => job.next.run # job.run /\ job.next.run \notin Stored
  <2>1. job.next # Idle => job.next.run \in Added(job)
    BY <1>2, RecordTypes DEF Added, Timely
  <2>2. QED
    BY <2>1 DEF Timely, Begins, Advances
<1>4. saved \subseteq Copy
  BY <1>2 DEF Copy
<1>5. At(job.run) = a
  BY <1>3
<1>6. job.next # Idle => At(job.next.run) = b
  BY <1>3
<1>7. \A r \in Runs : r # job.run /\ (job.next # Idle => r # job.next.run)
                         => ~ \E c \in saved : c.run = r
  OBVIOUS
<1>8. /\ store'[job.run] = [version |-> a.version, state |-> a.state]
      /\ job.next # Idle => store'[job.next.run] = [version |-> b.version, state |-> b.state]
      /\ \A r \in Runs : r # job.run /\ (job.next # Idle => r # job.next.run)
                            => store'[r] = store[r]
  <2> HIDE DEF At, a, b
  <2>1. a \in saved /\ a.run = job.run
    BY DEF a
  <2>2. job.next # Idle => b \in saved /\ b.run = job.next.run
    BY DEF b
  <2> HIDE DEF saved
  <2>3. QED
    BY <1>1, <1>2, <1>5, <1>6, <1>7, <2>1, <2>2
<1>9. /\ store'[job.run] \in Record
      /\ job.next # Idle => store'[job.next.run] \in Record
  BY <1>2, <1>8 DEF Record
<1>10. store' \in [Runs -> Record \cup {Absent}]
  <2>1. DOMAIN store' = Runs /\ store' = [r \in Runs |-> store'[r]]
    BY <1>1
  <2>2. \A r \in Runs : store[r] \in Record \cup {Absent}
    BY DEF Inv, TypeOK
  <2>3. \A r \in Runs : store'[r] \in Record \cup {Absent}
    BY <1>8, <1>9, <2>2
  <2>4. QED
    BY <2>1, <2>3
<1>11. Stored' = Stored \cup {job.run} \cup Added(job)
  <2>1. Added(job) \subseteq {job.run} \cup IF job.next = Idle THEN {} ELSE {job.next.run}
    BY DEF Added
  <2>2. job.next # Idle => job.next.run \in Added(job)
    BY <1>2, RecordTypes DEF Added, Timely
  <2>3. QED
    BY <1>2, <1>8, <1>9, <2>1, <2>2, RecordTypes DEF Stored
<1>12. PICK order \in Bijection(1 .. Cardinality(saved), saved) : stream' = stream \o order
  BY <1>1
<1>13. order \in Seq(saved) /\ order \in Seq(Copy)
  <2>1. IsFiniteSet(saved)
    BY FS_Singleton, FS_EmptySet, FS_Union
  <2>2. Cardinality(saved) \in Nat
    BY <2>1, FS_CardinalityType
  <2>3. order \in [1 .. Cardinality(saved) -> saved]
    BY <1>12 DEF Bijection, Injection, Surjection
  <2> HIDE DEF saved
  <2>4. QED
    BY <1>4, <2>2, <2>3
<1>14. Range(order) \subseteq saved
  BY <1>13, SequenceFacts
<1>15. saved \subseteq Current'
  <2>1. ASSUME NEW r \in Stored'
        PROVE  [run |-> r, version |-> store'[r].version, state |-> store'[r].state] \in Current'
    BY DEF Current, CopyOf
  <2>2. job.run \in Stored' /\ (job.next # Idle => job.next.run \in Stored')
    BY <1>2, <1>9, RecordTypes DEF Stored
  <2>3. a \in Current'
    BY <1>8, <2>1, <2>2
  <2>4. job.next # Idle => b \in Current'
    BY <1>8, <2>1, <2>2
  <2>5. QED
    BY <2>3, <2>4
<1>16. /\ stream' \in Seq(Copy)
       /\ Range(stream') \subseteq Range(stream) \cup Range(order)
  BY <1>12, <1>13, SequenceFacts DEF Inv, TypeOK
<1>17. Copies' \subseteq Copies \cup Current'
  <2>1. ASSUME NEW d \in Copies'
        PROVE  d \in Copies \cup Current'
    <3>1. \/ d \in Range(stream')
          \/ \E q \in Selected : d \in page[q]
          \/ \E q \in Tasks : d \in Range(queue[q])
      BY <1>1 DEF Copies
    <3>2. QED
      BY <1>14, <1>15, <1>16, <3>1 DEF Copies
  <2>2. QED
    BY <2>1
<1>18. \A r \in Stored \ {job.run} : store'[r] = store[r]
  BY <1>3, <1>8 DEF Stored
<1>19. QED
  BY <1>1, <1>8, <1>10, <1>11, <1>16, <1>17, <1>18 DEF Saves

LEMMA SavesKeepInv ==
    ASSUME Inv, NEW w \in Workers, NEW job, job = working[w], job # Idle,
           Timely(job), Saves(w, job)
    PROVE  Inv'
<1>1. /\ working'[w] = Idle
      /\ \A other \in Workers \ {w} : working'[other] = working[other]
  BY DEF Saves, Inv, TypeOK
<1>2. /\ job.run \in Runs /\ job.version \in 0 .. MaxVersion
      /\ job.new \in State /\ job.settles \in Seq(Settlement)
  BY DEF Timely, Job
<1>3. /\ \A r \in Stored : store[r].version \in 1 .. MaxVersion + 1
      /\ \A r \in Stored' : store'[r].version \in 1 .. MaxVersion + 1
  BY DEF Saves, Inv, TypeOK, Stored, Record
<1>4. \A r \in Stored' : \/ r \in Stored /\ r # job.run
                         \/ r = job.run
                         \/ job.next # Idle /\ r = job.next.run
  BY DEF Saves, Added
<1>5. job.version = 0 => job.next = Idle /\ job.run \notin Stored
  BY DEF Timely, Begins
<1>6. /\ job.version # 0 =>
            /\ job.run \in Stored
            /\ job.new.option = store[job.run].state.option
            /\ job.new.parent = store[job.run].state.parent
      /\ job.next # Idle =>
            /\ job.version # 0
            /\ store[job.run].state.phase = "Scheduled"
            /\ store[job.run].state.option = "schedule"
            /\ job.new.phase \notin Ahead
            /\ store'[job.next.run].version = 1
            /\ store'[job.next.run].state.phase = "Scheduled"
            /\ store'[job.next.run].state.option = "schedule"
            /\ store'[job.next.run].state.parent = store[job.run].state.parent
      /\ store'[job.run].state = job.new
  <2>1. job.version # 0 => job.run \in Stored /\ Advances(job, store[job.run].state)
    BY DEF Timely
  <2>2. store'[job.run].state = job.new
    BY DEF Saves
  <2>3. job.next # Idle =>
           /\ store'[job.next.run].version = 1
           /\ store'[job.next.run].state = job.next.state
    BY DEF Saves
  <2>4. QED
    BY <1>5, <2>1, <2>2, <2>3 DEF Advances
\* Versions go up, and stay only if the state stays.
<1>7. \A r \in Stored : /\ r \in Stored'
                        /\ store[r].version <= store'[r].version
                        /\ store[r].version = store'[r].version => store'[r] = store[r]
  <2>1. ASSUME NEW r \in Stored
        PROVE  /\ r \in Stored'
               /\ store'[r] = store[r] \/ store'[r].version = store[r].version + 1
    <3>1. r = job.run => store'[r].version = store[r].version + 1
      BY DEF Timely, Saves
    <3>2. QED
      BY <3>1 DEF Saves
  <2>2. ASSUME NEW r \in Stored
        PROVE  /\ store[r].version <= store'[r].version
               /\ store[r].version = store'[r].version => store'[r] = store[r]
    <3>1. store[r].version \in Int
      BY <1>3
    <3>2. QED
      BY <2>1, <3>1
  <2>3. QED
    BY <2>1, <2>2
<1>8. TypeOK'
  <2>1. settled' \in Seq(Settlement)
    BY <1>2, ConcatProperties DEF Saves, Inv, TypeOK
  <2>2. working' \in [Workers -> Job \cup {Idle}]
    BY DEF Saves, Inv, TypeOK
  <2>3. QED
    BY <2>1, <2>2 DEF Saves, Inv, TypeOK
<1>9. StatesAreProper'
  <2>1. ASSUME NEW r \in Stored'
        PROVE  Proper(store'[r].version, store'[r].state)
    <3>1. CASE r \in Stored /\ r # job.run
      BY <3>1 DEF Saves, Inv, StatesAreProper
    <3>2. CASE r = job.run
      BY <3>2 DEF Saves, Timely
    <3>3. CASE job.next # Idle /\ r = job.next.run
      <4>1. /\ store'[r].version = 1 /\ store'[r].state.phase = "Scheduled"
            /\ 1 <= MaxVersion
        BY <1>6, <3>3
      <4>2. QED
        BY <4>1 DEF Proper
    <3>4. QED
      BY <1>4, <3>1, <3>2, <3>3
  <2>2. ASSUME NEW c \in Copies'
        PROVE  Proper(c.version, c.state)
    <3>1. CASE c \in Copies
      BY <3>1 DEF Inv, StatesAreProper
    <3>2. CASE c \in Current'
      BY <2>1, <3>2 DEF Current, CopyOf
    <3>3. QED
      BY <3>1, <3>2 DEF Saves
  <2>3. ASSUME NEW other \in Workers, working'[other] # Idle
        PROVE  Proper(working'[other].version + 1, working'[other].new)
    BY <1>1, <2>3 DEF Inv, StatesAreProper
  <2>4. QED
    BY <2>1, <2>2, <2>3 DEF StatesAreProper, Proper
<1>10. CopiesAreOld'
  <2>1. ASSUME NEW c \in Copies'
        PROVE  /\ c.run \in Stored'
               /\ c.version <= store'[c.run].version
               /\ c.version = store'[c.run].version => c.state = store'[c.run].state
    <3>1. CASE c \in Copies
      <4>1. /\ c.run \in Stored /\ c.version <= store[c.run].version
            /\ c.version = store[c.run].version => c.state = store[c.run].state
        BY <3>1 DEF Inv, CopiesAreOld
      <4>2. c.version \in Nat
        BY <3>1, CopiesAreTyped DEF Inv, Copy
      <4>3. /\ c.run \in Stored' /\ store[c.run].version <= store'[c.run].version
            /\ store[c.run].version = store'[c.run].version => store'[c.run] = store[c.run]
        BY <1>7, <4>1
      <4>4. store[c.run].version \in Int /\ store'[c.run].version \in Int
        BY <1>3, <4>1, <4>3
      <4>5. c.version <= store'[c.run].version
        BY <4>1, <4>2, <4>3, <4>4
      <4>6. c.version = store'[c.run].version => c.state = store'[c.run].state
        <5>1. SUFFICES ASSUME c.version = store'[c.run].version
                       PROVE  c.state = store'[c.run].state
          OBVIOUS
        <5>2. store[c.run].version = store'[c.run].version
          BY <4>1, <4>2, <4>3, <4>4, <5>1
        <5>3. QED
          BY <4>1, <4>3, <5>1, <5>2
      <4>7. QED
        BY <4>3, <4>5, <4>6
    <3>2. CASE c \in Current'
      BY <1>3, <3>2 DEF Current, CopyOf
    <3>3. QED
      BY <3>1, <3>2 DEF Saves
  <2>2. QED
    BY <2>1 DEF CopiesAreOld
<1>11. FreshIsAbsent' /\ FreshIsDistinct'
  <2>1. \A other \in Workers \ {w} :
           /\ Added(working[other]) \cap Stored = {}
           /\ Added(working[other]) \cap Added(job) = {}
    BY DEF Inv, FreshIsAbsent, FreshIsDistinct
  <2>2. job.run \in Stored \cup Added(job)
    BY <1>2 DEF Timely, Added
  <2>3. \A other \in Workers \ {w} : Added(working[other]) \cap Stored' = {}
    BY <2>1, <2>2 DEF Saves
  <2>4. Added(Idle) = {}
    BY DEF Added
  <2>5. \A other \in Workers : Added(working'[other]) \cap Stored' = {}
    BY <1>1, <2>3, <2>4
  <2>6. \A one, other \in Workers : one # other =>
           Added(working'[one]) \cap Added(working'[other]) = {}
    BY <1>1, <2>4 DEF Inv, FreshIsDistinct
  <2>7. QED
    BY <2>5, <2>6 DEF FreshIsAbsent, FreshIsDistinct, Added
<1>12. JobsAreBased'
  <2>1. ASSUME NEW other \in Workers, working'[other] # Idle
        PROVE  Based(working[other])'
    <3>1. /\ other # w /\ working'[other] = working[other]
          /\ working[other] \in Job /\ Based(working[other])
      BY <1>1, <2>1 DEF Inv, TypeOK, JobsAreBased
    <3>2. PICK j : j = working[other]
      OBVIOUS
    <3>3. CASE j.version = 0
      BY <3>1, <3>2, <3>3 DEF Based, Begins
    <3>4. CASE j.version # 0
      <4>1. /\ j.run \in Stored /\ j.version <= store[j.run].version
            /\ j.version = store[j.run].version => Advances(j, store[j.run].state)
        BY <3>1, <3>2, <3>4 DEF Based
      <4>2. j.version \in Nat
        BY <3>1, <3>2 DEF Job
      <4>3. /\ j.run \in Stored' /\ j.version <= store'[j.run].version
            /\ j.version = store'[j.run].version => Advances(j, store'[j.run].state)
        BY <1>3, <1>7, <4>1, <4>2
      <4>4. QED
        BY <3>1, <3>2, <3>4, <4>3 DEF Based, Advances
    <3>5. QED
      BY <3>3, <3>4
  <2>2. QED
    BY <2>1 DEF JobsAreBased
<1>13. ParentsAreStored'
  <2>1. ASSUME NEW r \in Stored', store'[r].state.option = "schedule"
        PROVE  store'[r].state.parent \in Stored'
    <3>1. CASE r \in Stored /\ r # job.run
      BY <1>7, <2>1, <3>1 DEF Saves, Inv, ParentsAreStored
    <3>2. CASE r = job.run /\ job.version = 0
      BY <2>1, <3>2 DEF Saves, Timely, Begins
    <3>3. CASE r = job.run /\ job.version # 0
      BY <1>6, <1>7, <2>1, <3>3 DEF Inv, ParentsAreStored
    <3>4. CASE job.next # Idle /\ r = job.next.run
      BY <1>6, <1>7, <3>4 DEF Inv, ParentsAreStored
    <3>5. QED
      BY <1>4, <3>1, <3>2, <3>3, <3>4
  <2>2. QED
    BY <2>1 DEF ParentsAreStored
<1>14. OneLivePerSchedule'
  <2>1. /\ Live = {r \in Stored : store[r].state.phase \in Ahead
                                  /\ store[r].state.option = "schedule"}
        /\ Live' = {r \in Stored' : store'[r].state.phase \in Ahead
                                    /\ store'[r].state.option = "schedule"}
    BY DEF Live, Stored, Ahead
  <2>2. \A r \in Live' : r \in Stored /\ r # job.run =>
           r \in Live /\ store'[r].state.parent = store[r].state.parent
    BY <2>1 DEF Saves
  <2>3. CASE job.version = 0
    <3>1. \A r \in Live' : r = job.run => store'[r].state.parent = job.run
      BY <2>1, <2>3 DEF Saves, Timely, Begins
    <3>2. \A r \in Live' : r # job.run => r \in Live /\ store'[r].state.parent # job.run
      BY <1>4, <1>5, <2>1, <2>2, <2>3 DEF Inv, ParentsAreStored
    <3>3. QED
      BY <2>2, <3>1, <3>2, <1>4, <1>5, <2>1, <2>3 DEF Inv, OneLivePerSchedule
  <2>4. CASE job.version # 0 /\ job.next = Idle
    <3>1. job.run \in Live' =>
             job.run \in Live /\ store'[job.run].state.parent = store[job.run].state.parent
      <4>1. /\ job.run \in Stored /\ Advances(job, store[job.run].state)
            /\ store'[job.run].state = job.new
        BY <2>4 DEF Saves, Timely
      <4>2. job.new.phase \in Ahead => store[job.run].state.phase \in Ahead
        BY <4>1 DEF Advances, Follows, Ahead
      <4>3. QED
        BY <2>1, <4>1, <4>2 DEF Advances
    <3>2. \A r \in Live' : r \in Live /\ store'[r].state.parent = store[r].state.parent
      BY <1>4, <2>1, <2>2, <2>4, <3>1
    <3>3. QED
      BY <3>2 DEF Inv, OneLivePerSchedule
  <2>5. CASE job.version # 0 /\ job.next # Idle
    <3>1. job.run \in Live /\ job.run \notin Live'
      BY <1>6, <2>1, <2>5 DEF Ahead
    <3>2. store'[job.next.run].state.parent = store[job.run].state.parent
      BY <1>6, <2>5
    <3>3. \A r \in Live' : r # job.next.run =>
             /\ r \in Live /\ r # job.run
             /\ store'[r].state.parent = store[r].state.parent
      BY <1>4, <2>1, <2>2, <3>1
    <3>4. \A r \in Live' : r # job.next.run =>
             store'[r].state.parent # store[job.run].state.parent
      BY <3>1, <3>3 DEF Inv, OneLivePerSchedule
    <3>5. QED
      BY <3>2, <3>3, <3>4 DEF Inv, OneLivePerSchedule
  <2>6. QED
    BY <2>3, <2>4, <2>5
\* The callback that is settled, if there is one, is the one that the stored
\* run waits for.
<1>15. job.settles # <<>> =>
          /\ job.run \in Waiting
          /\ Len(job.settles) = 1
          /\ job.settles[1].callback = store[job.run].state.callback
  BY DEF Timely, Begins, Advances, Waiting
<1>16. /\ settled \in Seq(Settlement) /\ settled' = settled \o job.settles
       /\ Gone \subseteq 1 .. issued /\ Gone' \subseteq 1 .. issued
       /\ job.settles = <<>> => settled' = settled /\ Gone' = Gone
       /\ job.settles # <<>> =>
             /\ DOMAIN settled' = 1 .. Len(settled) + 1
             /\ \A i \in 1 .. Len(settled) : i \in DOMAIN settled /\ settled'[i] = settled[i]
             /\ settled'[Len(settled) + 1].callback = store[job.run].state.callback
             /\ Gone' = Gone \cup {store[job.run].state.callback}
  <2>1. settled \in Seq(Settlement) /\ settled' = settled \o job.settles
    BY DEF Saves, Inv, TypeOK
  <2>2. Gone \subseteq 1 .. issued
    BY DEF Inv, CallbacksAreDistinct
  <2>3. CASE job.settles = <<>>
    <3>1. settled' = settled
      BY <2>1, <2>3
    <3>2. QED
      BY <2>1, <2>2, <2>3, <3>1 DEF Gone
  <2>4. CASE job.settles # <<>>
    <3>1. /\ DOMAIN settled = 1 .. Len(settled) /\ Len(settled) \in Nat
          /\ DOMAIN settled' = 1 .. Len(settled) + 1
          /\ \A i \in 1 .. Len(settled) : settled'[i] = settled[i]
          /\ settled'[Len(settled) + 1] = job.settles[1]
      <4>1. Len(job.settles) = 1 /\ Len(settled) \in Nat /\ DOMAIN settled = 1 .. Len(settled)
        BY <1>15, <2>1, <2>4
      <4>2. /\ settled' \in Seq(Settlement)
            /\ Len(settled') = Len(settled) + Len(job.settles)
            /\ \A i \in 1 .. Len(settled) + Len(job.settles) :
                  settled'[i] = IF i <= Len(settled) THEN settled[i]
                                ELSE job.settles[i - Len(settled)]
        BY <1>2, <2>1, ConcatProperties
      <4>3. QED
        BY <4>1, <4>2
    <3>2. Gone' = Gone \cup {store[job.run].state.callback}
      <4>1. settled'[Len(settled) + 1].callback = store[job.run].state.callback
        BY <1>15, <2>4, <3>1
      <4>2. \A i \in DOMAIN settled' : i \in 1 .. Len(settled) \/ i = Len(settled) + 1
        BY <3>1
      <4>3. 1 .. Len(settled) \subseteq DOMAIN settled' /\ Len(settled) + 1 \in DOMAIN settled'
        BY <3>1
      <4>4. \A c \in Gone' : c \in Gone \/ c = store[job.run].state.callback
        BY <3>1, <4>1, <4>2 DEF Gone
      <4>5. \A c \in Gone : c \in Gone'
        BY <3>1, <4>3 DEF Gone
      <4>6. store[job.run].state.callback \in Gone'
        BY <4>1, <4>3 DEF Gone
      <4>7. QED
        BY <4>4, <4>5, <4>6
    <3>3. store[job.run].state.callback \in 1 .. issued
      BY <1>15, <2>4 DEF Inv, CallbacksAreDistinct
    <3>4. QED
      BY <1>15, <2>1, <2>2, <2>4, <3>1, <3>2, <3>3
  <2>5. QED
    BY <2>3, <2>4
<1>17. EachCallbackSettledOnce'
  <2>1. CASE job.settles = <<>>
    BY <1>16, <2>1 DEF Inv, EachCallbackSettledOnce
  <2>2. CASE job.settles # <<>>
    <3>1. store[job.run].state.callback \notin Gone
      BY <1>15, <2>2 DEF Inv, CallbacksAreDistinct
    <3>2. \A i \in 1 .. Len(settled) :
             settled[i].callback # store[job.run].state.callback
      BY <1>16, <2>2, <3>1 DEF Gone
    <3>3. Len(settled) \in Nat
      BY <1>16
    <3>4. ASSUME NEW i \in DOMAIN settled', NEW j \in DOMAIN settled',
                 settled'[i].callback = settled'[j].callback
          PROVE  i = j
      <4>1. /\ i \in 1 .. Len(settled) \/ i = Len(settled) + 1
            /\ j \in 1 .. Len(settled) \/ j = Len(settled) + 1
        <5>1. /\ i \in 1 .. Len(settled) + 1 /\ j \in 1 .. Len(settled) + 1
              /\ Len(settled) \in Nat
          BY <1>16, <2>2, <3>3
        <5>2. QED
          BY <5>1
      <4>2. CASE i \in 1 .. Len(settled) /\ j \in 1 .. Len(settled)
        BY <1>16, <2>2, <3>4, <4>2 DEF Inv, EachCallbackSettledOnce
      <4>3. CASE i = Len(settled) + 1 /\ j \in 1 .. Len(settled)
        BY <1>16, <2>2, <3>2, <3>4, <4>3
      <4>4. CASE j = Len(settled) + 1 /\ i \in 1 .. Len(settled)
        BY <1>16, <2>2, <3>2, <3>4, <4>4
      <4>5. QED
        BY <4>1, <4>2, <4>3, <4>4
    <3>5. QED
      BY <3>4 DEF EachCallbackSettledOnce
  <2>3. QED
    BY <2>1, <2>2
<1>18. CallbacksAreDistinct'
  <2>1. \A other \in Asking' :
           /\ other \in Asking /\ other # w
           /\ working'[other].new = working[other].new
    BY <1>1 DEF Asking
  <2>2. \A r \in Waiting' :
           \/ r \in Waiting /\ r # job.run /\ store'[r] = store[r]
           \/ /\ r = job.run /\ job.new.phase = "Await" /\ w \in Asking
              /\ store'[r].state.callback = working[w].new.callback
    <3>1. ASSUME NEW r \in Waiting'
          PROVE  \/ r \in Waiting /\ r # job.run /\ store'[r] = store[r]
                 \/ /\ r = job.run /\ job.new.phase = "Await" /\ w \in Asking
                    /\ store'[r].state.callback = working[w].new.callback
      <4>1. r \in Stored' /\ store'[r].state.phase = "Await"
        BY DEF Waiting
      <4>2. CASE r \in Stored /\ r # job.run
        BY <4>1, <4>2 DEF Saves, Waiting
      <4>3. CASE r = job.run
        BY <4>1, <4>3 DEF Saves, Asking
      <4>4. CASE job.next # Idle /\ r = job.next.run
        BY <1>6, <4>1, <4>4
      <4>5. QED
        BY <1>4, <4>1, <4>2, <4>3, <4>4
    <3>2. QED
      BY <3>1
  <2>3. \A c \in Gone' : c \in Gone \/ (job.run \in Waiting /\ c = store[job.run].state.callback)
    BY <1>15, <1>16
  <2>4. issued' = issued
    BY DEF Saves
  <2>5. \A r \in Waiting' : store'[r].state.callback \in (1 .. issued) \ Gone'
    BY <2>2, <2>3 DEF Inv, CallbacksAreDistinct
  <2>6. \A other \in Asking' : working'[other].new.callback \in (1 .. issued) \ Gone'
    BY <2>1, <2>3 DEF Inv, CallbacksAreDistinct
  <2>7. \A r, other \in Waiting' :
           store'[r].state.callback = store'[other].state.callback => r = other
    BY <2>2 DEF Inv, CallbacksAreDistinct
  <2>8. \A one, other \in Asking' :
           working'[one].new.callback = working'[other].new.callback => one = other
    BY <2>1 DEF Inv, CallbacksAreDistinct
  <2>9. \A other \in Asking', r \in Waiting' :
           working'[other].new.callback # store'[r].state.callback
    BY <2>1, <2>2 DEF Inv, CallbacksAreDistinct
  <2>10. QED
    BY <1>16, <2>4, <2>5, <2>6, <2>7, <2>8, <2>9 DEF CallbacksAreDistinct
<1>19. QED
  BY <1>8, <1>9, <1>10, <1>11, <1>12, <1>13, <1>14, <1>17, <1>18 DEF Inv

-----------------------------------------------------------------------------
(* The theorems *)

LEMMA InitInv == Init => Inv
<1> SUFFICES ASSUME Init
             PROVE  Inv
  OBVIOUS
<1>1. Stored = {} /\ Copies = {} /\ Gone = {} /\ Live = {}
  BY DEF Init, Stored, Copies, Gone, Live, Range
<1>2. \A w \in Workers : working[w] = Idle
  BY DEF Init
<1>3. TypeOK
  BY DEF Init, TypeOK
<1>4. StatesAreProper /\ CopiesAreOld /\ JobsAreBased /\ ParentsAreStored
  BY <1>1, <1>2 DEF StatesAreProper, CopiesAreOld, JobsAreBased, ParentsAreStored
<1>5. FreshIsAbsent /\ FreshIsDistinct
  BY <1>1, <1>2 DEF FreshIsAbsent, FreshIsDistinct, Added
<1>6. OneLivePerSchedule /\ EachCallbackSettledOnce
  BY <1>1 DEF Init, OneLivePerSchedule, EachCallbackSettledOnce
<1>7. CallbacksAreDistinct
  BY <1>1, <1>2 DEF CallbacksAreDistinct, Waiting, Asking
<1>8. QED
  BY <1>3, <1>4, <1>5, <1>6, <1>7 DEF Inv

\* A save is dropped, or it is timely.
LEMMA SaveCases ==
    ASSUME Inv, NEW w \in Workers, Save(w)
    PROVE  /\ working[w] # Idle
           /\ \/ /\ working' = [working EXCEPT ![w] = Idle]
                 /\ UNCHANGED <<store, stream, page, queue, issued, settled, now>>
              \/ Timely(working[w]) /\ Saves(w, working[w])
<1>1. working[w] # Idle
  BY DEF Save
<1>2. CASE Conflicts(working[w])
  BY <1>1, <1>2 DEF Save
<1>3. CASE ~ Conflicts(working[w])
  BY <1>1, <1>3, AcceptedIsTimely, AcceptedSaves
<1>4. QED
  BY <1>1, <1>2, <1>3

LEMMA SaveKeepsInv ==
    ASSUME Inv, NEW w \in Workers, Save(w)
    PROVE  Inv'
<1>1. PICK job : job = working[w]
  OBVIOUS
<1>2. CASE Timely(job) /\ Saves(w, job)
  BY <1>1, <1>2, SaveCases, SavesKeepInv
<1>3. CASE /\ working' = [working EXCEPT ![w] = Idle]
           /\ UNCHANGED <<store, stream, page, queue, issued, settled, now>>
  BY <1>3, DropKeepsInv
<1>4. QED
  BY <1>1, <1>2, <1>3, SaveCases

LEMMA NextInv == Inv /\ [Next]_vars => Inv'
<1> SUFFICES ASSUME Inv, [Next]_vars
             PROVE  Inv'
  OBVIOUS
<1>1. ASSUME NEW h \in Handlers, NEW option \in Options, Start(h, option)
      PROVE  Inv'
  BY <1>1, StartKeepsInv
<1>2. ASSUME NEW h \in Handlers, NEW cmd \in Requests, NEW r \in Runs, Request(h, cmd, r)
      PROVE  Inv'
  BY <1>2, RequestKeepsInv
<1>3. ASSUME NEW w \in Workers, Save(w)
      PROVE  Inv'
  BY <1>3, SaveKeepsInv
<1>4. ASSUME NEW task \in Selected, Find(task)
      PROVE  Inv'
  BY <1>4, FindKeepsInv
<1>5. ASSUME NEW task \in Selected, PushFound(task)
      PROVE  Inv'
  BY <1>5, PushFoundKeepsInv
<1>6. CASE PushChange
  BY <1>6, PushChangeKeepsInv
<1>7. ASSUME NEW task \in Tasks, Process(task)
      PROVE  Inv'
  BY <1>7, ProcessKeepsInv
<1>8. CASE Tick
  BY <1>8, TickKeepsInv
<1>9. CASE UNCHANGED vars
  <2>1. Moves
    BY <1>9 DEF vars, Moves, Copies
  <2>2. TypeOK'
    BY <1>9 DEF vars, Inv, TypeOK
  <2>3. QED
    BY <2>1, <2>2, MovesKeepInv
<1>10. QED
  BY <1>1, <1>2, <1>3, <1>4, <1>5, <1>6, <1>7, <1>8, <1>9 DEF Next

THEOREM InvHolds == Spec => []Inv
<1>1. QED
  BY InitInv, NextInv, PTL DEF Spec

\* Every record, copy and job has its type, and no queue holds more than its
\* capacity.
THEOREM TypeCorrect == Spec => []TypeOK
<1>1. Inv => TypeOK
  BY DEF Inv
<1>2. QED
  BY <1>1, InvHolds, PTL

\* No schedule is forked, however often its due run is found, pushed and
\* processed, and whoever stops or resumes it meanwhile (x/taskqueue,
\* UpdateRecords, ScheduleNext).
THEOREM SchedulesAreNotForked == Spec => []OneLivePerSchedule
<1>1. Inv => OneLivePerSchedule
  BY DEF Inv
<1>2. QED
  BY <1>1, InvHolds, PTL

\* Of the answers to a callback and its timeout, which are all applied to
\* copies, one is saved at most.
THEOREM CallbacksAreSettledOnce == Spec => []EachCallbackSettledOnce
<1>1. Inv => EachCallbackSettledOnce
  BY DEF Inv
<1>2. QED
  BY <1>1, InvHolds, PTL

\* Nobody overwrites a run with a state that its current state does not lead
\* to.
THEOREM RunsFollowLifecycle == Spec => StoredRunsFollowLifecycle
<1> DEFINE Step == \A r \in Runs : store[r] # Absent /\ store'[r] # store[r]
                       => store'[r].state.phase \in Follows(store[r].state.phase)
<1>1. ASSUME Inv, Next
      PROVE  Step
  <2>1. CASE UNCHANGED store
    BY <2>1
  <2>2. ASSUME NEW w \in Workers, Save(w)
        PROVE  Step
    <3>1. PICK job : job = working[w]
      OBVIOUS
    <3>2. CASE Timely(job) /\ Saves(w, job)
      <4>1. ASSUME NEW r \in Runs, store[r] # Absent, store'[r] # store[r]
            PROVE  store'[r].state.phase \in Follows(store[r].state.phase)
        <5>1. r = job.run /\ r \in Stored
          BY <3>2, <4>1 DEF Saves, Stored
        <5>2. Advances(job, store[r].state) /\ store'[r].state = job.new
          BY <3>2, <5>1 DEF Timely, Saves
        <5>3. QED
          BY <5>2 DEF Advances
      <4>2. QED
        BY <4>1
    <3>3. QED
      BY <1>1, <2>1, <2>2, <3>1, <3>2, SaveCases
  <2>3. UNCHANGED store \/ \E w \in Workers : Save(w)
    BY <1>1 DEF Next, Start, Request, Find, PushFound, PushChange, Process, Tick
  <2>4. QED
    BY <2>1, <2>2, <2>3
<1>2. Inv /\ [Next]_vars => [Step]_vars
  BY <1>1
<1>3. QED
  BY <1>2, InvHolds, PTL DEF Spec, StoredRunsFollowLifecycle
=============================================================================
