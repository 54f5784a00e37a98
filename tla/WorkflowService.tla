--------------------------- MODULE WorkflowService ---------------------------
(***************************************************************************)
(* Workflow runs as records of a repository (example/my-app): requests     *)
(* from clients, and three background tasks, each a queue fed from the     *)
(* repository (x/taskqueue) and a processor that sends a command to the    *)
(* run in every task: Run when a scheduled run is due, TryRecover after an *)
(* error, ExpireAsync when a callback is late.                             *)
(*                                                                         *)
(* All of them do the same: take a copy of a record, apply a command to    *)
(* the copy, which calls the functions of the flow, and save the new state *)
(* under the version of the copy.  Any of them may act between two steps   *)
(* of another.  UpdateRecords is one step, as in Repository; a run is what *)
(* WorkflowLifecycle says, with the times that selectors look at.          *)
(***************************************************************************)
EXTENDS Integers, Sequences, FiniteSets, Functions

CONSTANTS
    MaxRuns,        \* bound on the number of runs
    Handlers,       \* concurrent HTTP requests
    Options,        \* the RunOption of the runs that clients start
    Outcomes,       \* what executing a flow may come to, besides Done
    Requests,       \* the commands clients send to runs
    Timeout,        \* ApplyAwaitOptions.TimeoutSeconds
    MaxRetries,     \* DefaultMaxRetries
    QueueCapacity,  \* 100 in the code
    MaxTime,        \* bound on the clock
    MaxCallbacks,   \* bound on the callbacks generated
    MaxVersion      \* bound on the versions of a record

ASSUME BoundsAssumption ==
    /\ {MaxRuns, Timeout, MaxRetries, QueueCapacity, MaxTime, MaxCallbacks, MaxVersion}
           \subseteq Nat
    /\ QueueCapacity > 0 /\ MaxVersion > 0
ASSUME OptionsAssumption == Options \subseteq {"none", "schedule", "delay"}
ASSUME OutcomesAssumption == Outcomes \subseteq {"Await", "Error", "Failed"}
ASSUME RequestsAssumption == Requests \subseteq {"callback", "recover", "stop", "resume"}

VARIABLES
    store,     \* the records of type "process"
    stream,    \* the changes the subscription of RunCDC has not seen
    page,      \* per selector, what it found and has not pushed
    queue,     \* per task, the channel
    working,   \* per processor or request, what it is about to save
    issued,    \* number of callback IDs generated
    settled,   \* auxiliary: the callbacks that were answered or expired and
               \* saved without an error, in order
    now

vars == <<store, stream, page, queue, working, issued, settled, now>>

Runs == 1 .. MaxRuns
Callbacks == 1 .. MaxCallbacks
Selected == {"run", "expire"}                \* tasks fed by RunSelector
Tasks == Selected \cup {"recover"}           \* and by RunCDC
Workers == Tasks \cup Handlers

\* due: ExpectedRunTimestamp or ExpectedTimeoutTimestamp. parent: the parent
\* run of a ScheduleRun. "Failed" is an Error that cannot be recovered.
State == [phase : {"Scheduled", "ScheduleStopped", "Await", "Error", "Failed", "Done"},
          callback : Callbacks \cup {0}, due : Nat, retried : Nat,
          option : Options, parent : Runs \cup {0}]
Record == [version : 1 .. MaxVersion + 1, state : State]
Absent == [version |-> 0]
Copy == [run : Runs, version : 1 .. MaxVersion + 1, state : State]

Settlement == [callback : Callbacks, by : {"callback", "expire"}]

Idle == [run |-> 0]
Job == [run : Runs, version : 0 .. MaxVersion, new : State,
        next : [run : Runs, state : State] \cup {Idle}, settles : Seq(Settlement)]

TypeOK ==
    /\ store \in [Runs -> Record \cup {Absent}]
    /\ stream \in Seq(Copy)
    /\ page \in [Selected -> SUBSET Copy]
    /\ queue \in [Tasks -> Seq(Copy)] /\ \A q \in Tasks : Len(queue[q]) <= QueueCapacity
    /\ working \in [Workers -> Job \cup {Idle}]
    /\ issued \in 0 .. MaxCallbacks
    /\ settled \in Seq(Settlement)
    /\ now \in 0 .. MaxTime

Init ==
    /\ store = [r \in Runs |-> Absent]
    /\ stream = <<>>
    /\ page = [q \in Selected |-> {}]
    /\ queue = [q \in Tasks |-> <<>>]
    /\ working = [w \in Workers |-> Idle]
    /\ issued = 0
    /\ settled = <<>>
    /\ now = 0

-----------------------------------------------------------------------------
(* Commands, as in WorkflowLifecycle *)

\* A state that executing the flow may lead to. Where the bounds end it is
\* Done.
Executed(s, version) ==
    LET to(phase, callback, due) ==
            [s EXCEPT !.phase = phase, !.callback = callback, !.due = due, !.retried = 0]
        all == {to("Done", 0, 0), to("Error", 0, 0), to("Failed", 0, 0)}
                   \cup IF issued < MaxCallbacks
                        THEN {to("Await", issued + 1, now + Timeout)} ELSE {}
    IN  {t \in all : t.phase = "Done" \/ (t.phase \in Outcomes /\ version < MaxVersion)}

\* The states Transition may return for a command; none when it refuses.
Transition(cmd, s, version) ==
    CASE cmd = "run" /\ s.phase = "Scheduled" -> Executed(s, version)
      [] cmd = "callback" /\ s.phase = "Await" /\ s.due >= now -> Executed(s, version)
      [] cmd = "recover" /\ s.phase = "Error" /\ s.retried < MaxRetries ->
            {IF t.phase = "Error" /\ again THEN [t EXCEPT !.retried = s.retried + 1] ELSE t :
                t \in Executed(s, version), again \in BOOLEAN}
      [] cmd = "stop" /\ s.phase = "Scheduled" -> {[s EXCEPT !.phase = "ScheduleStopped"]}
      [] cmd = "resume" /\ s.phase = "ScheduleStopped" ->
            {[s EXCEPT !.phase = "Scheduled", !.due = now + 1]}
      [] cmd = "expire" /\ s.phase = "Await" /\ now >= s.due ->
            {[s EXCEPT !.phase = "Failed", !.retried = MaxRetries, !.callback = 0, !.due = 0]}
      [] OTHER -> {}

\* The state of a Run command that starts a run, with RunOption or without.
Started(option, parent, version) ==
    LET s == [phase |-> "Scheduled", callback |-> 0, due |-> now + 1, retried |-> 0,
              option |-> option, parent |-> parent]
    IN  IF option = "none" THEN Executed(s, version) ELSE {s}

\* GenerateRunID: one that no record and no one at work has.
FreshRuns == {r \in Runs : /\ store[r] = Absent
                           /\ \A w \in Workers : working[w] # Idle
                                 => r \notin {working[w].run, working[w].next.run}}
FreshRun == {r \in FreshRuns : \A other \in FreshRuns : r <= other}

Issue(new) == issued' = IF new.phase = "Await" THEN new.callback ELSE issued

\* Mutation: a resumed schedule gets a next run too.
NextRunsOnResume(cmd, s) ==
    IF cmd \in {"run", "resume"} /\ s.option = "schedule"
    THEN {[run |-> f, state |-> t] : f \in FreshRun, t \in Started("schedule", s.parent, 0)}
    ELSE {Idle}

\* ScheduleNext: after a scheduled run comes the next one of its schedule.
NextRuns(cmd, s) ==
    IF cmd = "run" /\ s.option = "schedule"
    THEN {[run |-> f, state |-> t] : f \in FreshRun, t \in Started("schedule", s.parent, 0)}
    ELSE {Idle}

\* Worker w holds a copy of run r, has applied cmd to it, and will save the
\* new state, together with the next run.
Apply(w, cmd, r, version, s) ==
    \E new \in Transition(cmd, s, version) :
        \E next \in NextRuns(cmd, s) :
            /\ working' = [working EXCEPT ![w] =
                  [run |-> r, version |-> version, new |-> new, next |-> next,
                   settles |-> IF cmd \in {"callback", "expire"}
                               THEN <<[callback |-> s.callback, by |-> cmd]>> ELSE <<>>]]
            /\ Issue(new)

\* Mutations: PolicyOverwriteServerChanges, and a check for older copies only.
NeverConflicts(job) == FALSE
ConflictsIfAhead(job) == store[job.run] # Absent /\ store[job.run].version < job.version

\* UpdateRecords, on a conflict nothing is saved and the worker drops it.
Conflicts(job) == store[job.run] # Absent /\ store[job.run].version # job.version

Save(w) ==
    LET job == working[w]
        saved == {[run |-> job.run, version |-> job.version + 1, state |-> job.new]}
                     \cup IF job.next = Idle THEN {}
                          ELSE {[run |-> job.next.run, version |-> 1, state |-> job.next.state]}
    IN  /\ job # Idle
        /\ working' = [working EXCEPT ![w] = Idle]
        /\ IF Conflicts(job)
           THEN UNCHANGED <<store, stream, settled>>
           ELSE /\ store' = [r \in Runs |->
                      IF \E c \in saved : c.run = r
                      THEN LET c == CHOOSE c \in saved : c.run = r
                           IN  [version |-> c.version, state |-> c.state]
                      ELSE store[r]]
                /\ \E order \in Bijection(1 .. Cardinality(saved), saved) :
                      stream' = stream \o order
                /\ settled' = settled \o job.settles
        /\ UNCHANGED <<page, queue, issued, now>>

-----------------------------------------------------------------------------
(* Requests *)

\* A Run command. A schedule without ParentRunID is its own parent.
Start(h, option) ==
    /\ working[h] = Idle
    /\ \E r \in FreshRun :
          \E new \in Started(option, IF option = "schedule" THEN r ELSE 0, 0) :
              /\ working' = [working EXCEPT ![h] =
                    [run |-> r, version |-> 0, new |-> new, next |-> Idle, settles |-> <<>>]]
              /\ Issue(new)
    /\ UNCHANGED <<store, stream, page, queue, settled, now>>

\* Any other command, to the record that the query of the handler finds:
\* StopSchedule and ResumeSchedule ask for a ScheduleRun.
Request(h, cmd, r) ==
    /\ working[h] = Idle
    /\ store[r] # Absent
    /\ cmd \in {"stop", "resume"} =>
          store[r].state.option = "schedule" /\ store[r].version < MaxVersion
    /\ Apply(h, cmd, r, store[r].version, store[r].state)
    /\ UNCHANGED <<store, stream, page, queue, settled, now>>

-----------------------------------------------------------------------------
(* Background tasks *)

\* Mutation: the filters ask for times before now.
MatchesEarlier(task, s) ==
    CASE task = "run" -> s.phase = "Scheduled" /\ s.due < now
      [] task = "expire" -> s.phase = "Await" /\ s.due < now
      [] task = "recover" -> s.phase \in {"Error", "Failed"} /\ s.retried < MaxRetries

\* The filters of the three descriptions.
Matches(task, s) ==
    CASE task = "run" -> s.phase = "Scheduled" /\ s.due <= now
      [] task = "expire" -> s.phase = "Await" /\ s.due <= now
      [] task = "recover" -> s.phase \in {"Error", "Failed"} /\ s.retried < MaxRetries

CopyOf(r) == [run |-> r, version |-> store[r].version, state |-> store[r].state]

\* Mutation: a queue without a limit.
PushUnbounded(task, c) == queue' = [queue EXCEPT ![task] = Append(@, c)]

Push(task, c) ==
    /\ Len(queue[task]) < QueueCapacity
    /\ queue' = [queue EXCEPT ![task] = Append(@, c)]

\* RunSelector: look for records, push them one by one, start over.
Find(task) ==
    /\ page[task] = {}
    /\ page' = [page EXCEPT ![task] =
          {CopyOf(r) : r \in {x \in Runs : store[x] # Absent /\ Matches(task, store[x].state)}}]
    /\ UNCHANGED <<store, stream, queue, working, issued, settled, now>>

PushFound(task) ==
    /\ \E c \in page[task] :
          /\ Push(task, c)
          /\ page' = [page EXCEPT ![task] = @ \ {c}]
    /\ UNCHANGED <<store, stream, working, issued, settled, now>>

\* RunCDC: every change once, in the order of the log.
PushChange ==
    /\ stream # <<>>
    /\ stream' = Tail(stream)
    /\ IF Matches("recover", Head(stream).state)
       THEN Push("recover", Head(stream))
       ELSE UNCHANGED queue
    /\ UNCHANGED <<store, page, working, issued, settled, now>>

\* RunProcessor: a command that is refused is logged, and the task is gone.
Process(task) ==
    /\ working[task] = Idle
    /\ queue[task] # <<>>
    /\ queue' = [queue EXCEPT ![task] = Tail(@)]
    /\ LET c == Head(queue[task])
       IN  IF Transition(task, c.state, c.version) = {}
           THEN UNCHANGED <<working, issued>>
           ELSE Apply(task, task, c.run, c.version, c.state)
    /\ UNCHANGED <<store, stream, page, settled, now>>

Tick ==
    /\ now < MaxTime
    /\ now' = now + 1
    /\ UNCHANGED <<store, stream, page, queue, working, issued, settled>>

Next ==
    \/ \E h \in Handlers : \/ \E option \in Options : Start(h, option)
                           \/ \E cmd \in Requests, r \in Runs : Request(h, cmd, r)
    \/ \E w \in Workers : Save(w)
    \/ \E task \in Selected : Find(task) \/ PushFound(task)
    \/ PushChange
    \/ \E task \in Tasks : Process(task)
    \/ Tick

Spec == Init /\ [][Next]_vars

\* The goroutines of selectors, subscription and processors run for ever and
\* the clock goes on; a handler finishes the request it has begun.
Fairness ==
    /\ \A task \in Selected : WF_vars(Find(task)) /\ WF_vars(PushFound(task))
    /\ WF_vars(PushChange)
    /\ \A task \in Tasks : WF_vars(Process(task))
    /\ \A w \in Workers : WF_vars(Save(w))
    /\ WF_vars(Tick)

FairSpec == Spec /\ Fairness

-----------------------------------------------------------------------------
(* Properties *)

\* Two callbacks, or a late one and the timeout, race for the same run, and
\* a selector pushes the same run again and again: one of them is saved, and
\* all the others get an error or are dropped.
EachCallbackSettledOnce ==
    \A i, j \in DOMAIN settled : settled[i].callback = settled[j].callback => i = j

Live == {r \in Runs : store[r] # Absent
                      /\ store[r].state.phase \in {"Scheduled", "ScheduleStopped"}
                      /\ store[r].state.option = "schedule"}

\* A schedule has one run ahead, which StopSchedule can find, or none: it is
\* not forked by a task that is processed twice, nor by a stop or a resume
\* that happens while the due run is being executed.
OneLivePerSchedule ==
    \A r, other \in Live : store[r].state.parent = store[other].state.parent => r = other

\* A run in the repository moves as one command on its current state moves
\* it, although all commands are applied to copies. So nothing wakes a run
\* that is done or has timed out, and a stopped schedule runs only after it
\* was resumed.
Follows(p) ==
    CASE p = "Scheduled" -> {"ScheduleStopped", "Await", "Error", "Failed", "Done"}
      [] p = "ScheduleStopped" -> {"Scheduled"}
      [] p \in {"Await", "Error"} -> {"Await", "Error", "Failed", "Done"}
      [] OTHER -> {}

StoredRunsFollowLifecycle ==
    [][\A r \in Runs :
          store[r] # Absent /\ store'[r] # store[r]
              => store'[r].state.phase \in Follows(store[r].state.phase)]_vars

Pending(task, s) ==
    CASE task = "run" -> s.phase = "Scheduled" /\ s.due <= now
      [] task = "expire" -> s.phase = "Await" /\ s.due <= now
      [] task = "recover" -> s.phase = "Error" /\ s.retried < MaxRetries

\* Nothing stays undone: a run that is due, a callback that is late and an
\* error that can be retried are taken up, whatever is lost to conflicts,
\* refused or pushed twice on the way, and with queues that fill up.
EveryTaskIsDone ==
    \A task \in Tasks, r \in Runs, v \in 1 .. MaxVersion :
        (store[r].version = v /\ Pending(task, store[r].state)) ~> store[r].version # v
=============================================================================
