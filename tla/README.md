# Verification of mkunion's runtime packages

mkunion is a generator of union types for Go, and a set of runtime packages
built on them: state machines, a document store with optimistic concurrency
control and a change log, a workflow engine, task queues fed from the store,
and windowed projections over streams. The generators turn text into text. What
is hard to test is the runtime: several goroutines and processes act on stored
copies of the same state, work is repeated after failures, and readers follow a
log that is being written. That is what is specified here.

All paths are relative to the repository's root (`src/` in `PROJECT.json`).

1. [Inventory](#1-inventory)
2. [Modules](#2-modules)
3. [Module and code](#3-module-and-code)
4. [What the runs show](#4-what-the-runs-show)
5. [Fairness](#5-fairness)
6. [What is proved](#6-what-is-proved)
7. [Disagreements between the code and what is said of it](#7-disagreements)
8. [Not modelled](#8-not-modelled)
9. [Plan](#9-plan)

## 1. Inventory

| component | state | operations | meets | what is hard |
|---|---|---|---|---|
| **Schemaless repository** `x/storage/schemaless/schema.go`, `storage.go` | map of records with a version (uint16) | `Get`, `UpdateRecords` (batch of saves and deletions, two policies), `FindingRecords` | appends each write to the change log under its own mutex | read-modify-write of several clients; deletion without a version check; batches in map order; the version wraps; pages of a list that changes between them |
| **Change log** `x/storage/schemaless/stream.go` | linked list, `closed`, RWMutex, condition variable on its read side | `Change`, `Delete`, `Push`, `Append`, `Close`, `Subscribe` | written by the repository, read by task queues, aggregates and projections | wakeups; `Close` under the read lock; messages while the callback runs unlocked; resuming from an offset |
| **Typed repository and keyed aggregate** `typedful/with_aggregator.go`, `aggregate_keyed.go` | per call, the aggregates by key and the versions they were read at | `Get`, `UpdateRecords`, `FindingRecords`; `Append`, `GetVersionedIndices` | the repository: saves records and aggregates in one batch | an aggregate is read, changed and saved like a record, while other calls do the same |
| **Task queue** `x/taskqueue` | a bounded channel | `RunSelector` (poll), `RunCDC` (subscribe), `RunProcessor` | repository, change log, the processor's function | the same record is pushed every second until it changes; `Push` blocks at 100 |
| **Workflow machine** `x/workflow` | `State` (Scheduled, ScheduleStopped, Await, Error, Done) with variables and results | `Run`, `Callback`, `TryRecover`, `StopSchedule`, `ResumeSchedule`, `ExpireAsync` | calls functions; a callback answers an awaited call | every command executes the flow again from its first expression; deadlines; retry counter |
| **Machine** `x/machine` | one state | `Handle` | wraps a transition function | keeps the old state when the transition fails |
| **Workflow service** `example/my-app/server.go`, `background.go` | records of the repository | HTTP endpoints and three tasks: run what is due, recover errors, expire late callbacks | all of the above | callback against timeout, stop against run, lost executions on a conflict, schedules that must not fork |
| **State machine example** `example/state_machine` | orders in the repository | commands with retry on conflict | repository | the retry loop |
| **Streams** `x/stream` | topics in memory (no lock), Kafka | `Push`, `Pull`, offset comparison | projections | topics keep everything, so replays repeat; order of offsets, int8 comparison |
| **Projections, windows and recovery** `x/projection` | snapshot of offset and watermark, window store | `Recovery`, `DoLoad`, `DoMap`, `DoWindow`, `DoJoin`, `DoSink` | streams, two repositories | failure between any two steps, replay from an older snapshot, snapshotting goroutines that outlive their attempt; watermarks that must not overtake what they promise, through a join of two topics |
| **Older projection engine** `x/storage/schemaless/projection` | nodes joined by channels with their subscribers, window buffers, triggers | `Run`; `Publish`, `Subscribe`, `Process`, `Finish`; `Append`, `SignalWatermark` | change log | three kinds of goroutines, bounded channels, who closes what and waits for whom, subscribers that come late, handlers that fail |
| **External backends** DynamoDB, OpenSearch, Kinesis, SQS, Kafka | outside | | external services | not modelled |
| **Predicates, schema, shape, generators, commands, `f/`, search** | none | pure conversions | | not modelled |

What makes each part correct:

* *Repository.* A checked save never overwrites what its client has not read; a
  batch is written as a whole or not at all; a conflict is never spurious; the
  log is a complete history of the store.
* *Lists.* What keeps its place while a list is read page by page is listed exactly
  once; going back leads back.
* *Aggregates.* The index of a group counts what was saved in it, whatever calls
  interleave, fail or conflict.
* *Change log.* Each subscriber gets what it is due once, in order; none sleeps
  while there is something to read; a call ends when the log is closed and read.
* *Workflow.* An awaited call is started once; results are those of the callbacks
  that were accepted and are used by the steps they were sent for; every callback
  ends in one way; retries are bounded.
* *Service and queues.* One of a callback and its timeout wins; a schedule has one
  run ahead; whatever is due is done in spite of conflicts and full queues.
* *Pipelines of stages.* A replay repeats records and leaves none out; a watermark
  comes after everything it promises, from both sides of a join; the end of the
  stream reaches the sink, and only after every record.
* *Older engine.* Every subscriber is called with the messages of its source in
  order, by one goroutine at a time; nothing is left behind when a node finishes;
  `Run` returns.
* *Recovery.* Nothing is merged twice or lost, a nil result means that all was
  pushed, and `Recovery` returns.

The hazards, at their lines, with the properties that cover them, are in
`PROJECT.json` under `hazards`.

## 2. Modules

| module | models | proofs |
|---|---|---|
| `Repository` | clients, `Get`, `UpdateRecords`, the log it writes | `RepositoryProofs` |
| `TypedRepository` | the typed repository with its aggregate, over `Repository` | `RepositoryProofs` |
| `Paging` | `FindingRecords` of both repositories, page by page | `PagingProofs` |
| `EventLog` | abstract: an append-only log with one cursor for each reader | `AppendLogProofs` |
| `AppendLog` | the writers, `Close`, and `Subscribe` step by step; implements `EventLog` | `AppendLogProofs` |
| `WorkflowLifecycle` | abstract: the states of a run and its callbacks, without a flow | `WorkflowProofs` |
| `Workflow` | `Transition` with the execution of flows and the IDs of their steps; implements `WorkflowLifecycle` | `WorkflowProofs` |
| `WorkflowLimits` | the limits that the two share | |
| `WorkflowService` | many runs in a repository, requests, the three tasks with their queues | `WorkflowServiceProofs` |
| `WindowRecovery` | `Recovery`, its snapshots, and `DoWindow` | `WindowRecoveryProofs` |
| `Pipeline` | `DoLoad`, `DoMap`, `DoJoin` and `DoSink` over the topics of the in-memory stream, with failing calls, crashes and snapshots | `PipelineProofs` |
| `NodeInterpreter` | the older engine: `InMemoryTwoInterpreter`, `PubSubMulti`, `PubSubChan`, `WindowBuffer`, `TriggerManager` | `NodeInterpreterProofs` |

`MC*.tla` give constants their values for TLC. Definitions called *Mutation* are
wrong versions of the definition that follows them, each what a plausible slip in
the code would be; the module's specification does not use them. They are listed
with the property that each breaks under `mutants`, and so show that the
properties can fail.

The composition of the system is in layers. `TypedRepository` extends `Repository`, and
every behaviour of it is one of `Repository`, which is proved. `WorkflowService` uses the
repository's contract (one atomic step that compares versions, `Conflicts`) and the
lifecycle's contract (`Transition` goes where `WorkflowLifecycle` goes) and adds
what happens between them. `Workflow` is shown to keep the lifecycle's contract by
refinement (`ImplementsLifecycle`), which TLC checks for a few flows and is proved for
all. In the same way `AppendLog` implements `EventLog` (`ImplementsEventLog`).
`Pipeline` composes the stages over the topics between them, each topic being the
output of one stage and the input of others; `NodeInterpreter` composes the nodes of a
graph over their channels.

## 3. Module and code

`PROJECT.json`, `map`, names the lines of every definition.

**Repository.** `UpdateRecords` holds the mutex from the validation loop to the
append to the log, so a call is one step. What interleaves is the clients'
read-modify-write: `Get` stores a copy in `held`, a later `UpdateRecords` sends
its version (`SentVersion`, 0 for a record that was not there). The maps of saves
and deletions are ranged over in any order (`Orders`). A record that is not in the
store passes the check with the version the client sent, because the loop's
`record.Version = 0` changes a copy. `readAt` and `origin` are auxiliary: they
remember when a client read and which call made an entry. `Keys` stands for what
`toKey` returns; payloads are model values.

**TypedRepository.** A call of `UpdateRecords` is several steps: `Begin` makes the
aggregator, `LoadIndex` reads the index of each group that the batch has a record of
(once, as `dataByKey` remembers it), `CombineFails` leaves with an error, and `Commit` saves
records and indices in one batch, as one step of `Repository`. Between them other calls
go on. `call` and `loaded` are the locals of a call. The aggregate is the one of the
repository's test: every record contributes 1 to the group it holds, and combining
adds. As in the code, deletions take nothing out, and a record that is saved again is
counted again. A type without an aggregate is a record that is not in `Aggregated`.

**Paging.** A call of `FindingRecords` holds the read lock, so a page is one step. Its
steps of filtering, sorting and cutting are `Matching`, `Listings` and `Places`, `Page`. Maps
have no order and the sort is not stable, so a listing is any order of the records
that agrees with the sort. `Link` is the query of `Next` and `Prev`: without its type from the
schemaless repository, and with names that were wrapped in place from the typed one.
IDs are numbers for their order as strings, `Data` is one field. A reader follows `Next`
and `Prev` as it likes (`GoOn`, `GoBack`); in between `UpdateRecords` takes the store anywhere.
`stayed`, `read`, `sound` and `trail` are auxiliary: which records were there, in their
place, ever since; how often each was given; whether the reader went forward from
records that stayed; and its last two pages. Errors of the store are left out.

**AppendLog.** A writer holds the mutex alone (`WriteLockFree`) and is one step. A
subscriber is a program counter: it looks for a message under the read lock,
calls f without a lock, and waits in two steps, `park...` (it has seen that there
is nothing, and still holds the read lock) and `parked...` (in the condition's
notify list). `sync.Cond.Wait` enters the list before it unlocks; `Close` shares the
read lock and so can broadcast between the two, which a writer cannot. `start` and
`handled` are auxiliary. f returns nothing, and so cannot fail. `EventLog` is the same log
without lock, condition and sleepers, in which a reader moves past an event and is
called with it, or does not want it, in one step; `Stage` says which of its five places
each program counter is. It has no fairness: that a sleeper is woken is
`EveryMessageArrives`.

**Workflow.** A flow is the sequence of its expressions in the order in which they are
written and visited, nested ones after the one they are part of: `e.val` expressions
are the value of an assignment, `e.yes` and `e.no` the branches of a choice. `ExecuteExpr`
calls itself for those; here each of its calls is a step. `execution` is what `Transition`
is doing: the command, the next expression (`at`), the `BaseState` so far, the last result,
and what has been entered and not left (`pending`), with the `BaseState` it was entered with,
because an assignment keeps only the result of evaluating its value (`Assigned`). Every
command that goes on with a run executes the flow from the start, with the variables and
results it has; a step whose result is known is skipped, any call may be missing, return
an error or a value, and an awaited call stops the execution (`CallFunction`). The State
changes when the execution stops (`Return`), the clock meanwhile too; commands that act on
copies of a run at the same time are `WorkflowService`'s subject. `GenerateCallbackID` is the
number of the call: all that matters is that it is new. Reshapers are reduced to the variables
they read, predicates to one comparison, the error of a function to its name. `GetFlow` gives
steps their IDs before every execution, from a flow that may come from the state of the run
and have them already: a step without an ID is named for its function, and a name that is
taken is numbered. `FlowsAssumption` leaves out names that look numbered (section 7).
`calls`, all calls there were, and `answers`, the callbacks that were accepted, are auxiliary.
`now` is the clock in seconds.

**WorkflowService.** A worker is a request or one of the processors; each takes a
copy of a record, applies a command (`Apply`) and saves (`Save`) in a later step, with
the version of its copy. A handler finds the record and applies the command in one
step: a change between the two is caught by the same check as one after them.
`RunSelector` finds a page and pushes it item by item; the model has fewer runs than
a page. `RunCDC` reads the log in order. Tasks that are refused, or lose to a
conflict, are dropped, as in the code. The next run of a schedule is saved in the
same call as the run. `ScheduleNext` does not fail in the model: the interval was parsed
before, and the flow was found a moment ago (section 7).

**WindowRecovery.** The state object of an attempt is a cell of `heap`, because the
in-memory repository keeps the pointer it is given, and a snapshot then goes on
changing with the attempt; other repositories keep a copy (`Copying`). Each attempt
leaves a goroutine in `holders` that saves that attempt's cell at any time until
`Recovery` returns. `DoWindow` is split where it may fail or where a snapshot sees a
difference: pull, merge of n of the windows, push of n results, deletion, watermark
pushed, watermark acknowledged, offset acknowledged. What `MkWindow` returns for a
record is part of the input; nothing comes after the end of the stream in it.
`PullFails` is any error from the source. `NewFor` compares offsets as the in-memory
stream does, by the difference as an int8 (`Int8`). The window store lives as long as
the process.

**Pipeline.** `projection_test.go` (17-122) composes the stages: a loader pushes records and
watermarks to a topic, `DoMap` reads it and writes a second one, `DoJoin` reads both
and writes a third, `DoSink` reads the second or the third. The in-memory stream has
no lock, so stages run one at a time, in turn; a call goes on until its source has
nothing more, and its caller then calls the next stage, or, after an error, the same
one again. A call is split where a failure, a crash or a snapshot sees a difference:
pulled and pushed (with `DoJoin`'s watermark, which is assigned right after the push),
watermark acknowledged, offset acknowledged. Acknowledging assigns the state object,
so a call that fails leaves what it acknowledged; `DoJoin`'s locals `watermarkA` and
`watermarkB` (`seen`) are lost with the call. `Crash` goes on from the latest snapshot
of the stage, which `Recovery`'s goroutine takes at any time. A record is its place
in the input and whether it went through the map; what f returns is left out.

**NodeInterpreter.** Every goroutine has a program counter: the node's own (`node`), the
`Process` of its channel (`process`), and of each subscription the call of `Subscribe`
and the worker (`sub`). Process holds the channel's read lock while it sends to the
buffers of its subscribers, one by one (`Push`), or closes them, one by one (`Shut`,
`Settle`); `Unlocked` is what a subscriber that adds or removes itself waits for. A
handler is a sequence of messages to publish on the channel of its own node (`emit`),
each of which may have to wait for room; `by` is the goroutine it runs in, which
depends on the number of subscribers when the message was taken off. Publishing looks
at the context and then waits for room, so a goroutine that had looked before the run
was cancelled still sends. When `Subscribed` cancels the run, `sending` becomes any set
of those that are about to publish (`Publishing`): they had looked already, and send
(`Sends`); the others are refused (`Refused`). `WindowBuffer`
and `TriggerManager` are inside the handler of a window node: an item may be in
several windows in the code, in one here, and all window nodes have the same windows. A
message names the items it was made of (`ids`) and the window that its event time is in
(`at`): the group of a window is a message again, at the end of its window (`Group`), so
that groups of groups can be told apart. The triggers of a window node are a set of
sets, one of which has to be true as a whole, which says any nesting of `AnyOf` and
`AllOf`. A graph is a constant, listed in the order in which `Run` starts its nodes,
consumers first as `DAGBuilder` lists them.
`published`, `handled`, `joined` (what a channel had dropped when a subscription
began) and `failed` are auxiliary.

## 4. What the runs show

| run | question | bounds |
|---|---|---|
| `repository` | Do version checks protect what a client has not read, is the log a complete, chained history, and does the index of a group count every record saved in it? | 2 clients, 2 records and the index of their group, both policies, versions modulo 3. Clients either all use the schemaless repository, with 3 changes: enough for two clients with a stale copy each, a batch of two of which one is stale, deletion and revival, and a version that goes round to 0 (one that comes back to what a client had read takes a fourth change). Or all use the typed one, with 5: two calls that load the same index, of which one conflicts, and a third after them |
| `paging` | Is what stays in a list given exactly once, and does going back lead back? | 1 reader (readers do not meet), 3 records and one of another type with the ID of one of them, 2 values, 8 queries through both repositories with pages of 1 and 2, any store, and one batch of any changes between any two pages: lists of up to 3 pages, cursors deleted, moved, inserted before and behind |
| `append_log` | Does each subscriber get everything once, in order, and always eventually? | 2 subscribers (a filtered one from the back, a cancellable one from an offset), 3 messages, batches of 2: appends before, during and after the wait, both waiting loops, close at any time |
| `workflow` | Do real flows implement the lifecycle, start an awaited call once, and hold the results they were sent, each used by its own step? | 4 flows (assignment and branch, two awaited steps, an awaited step in a nested value, the README's), 6 calls of functions over the whole run, awaited or not, 2 seconds, callbacks in and out of time, also while a flow is executed |
| `service` | Two clients and three tasks on one delayed run: does one settlement win, and is everything due done? | queues of capacity 1, 3 versions, 2 seconds, 1 callback |
| `service_schedule` | Does a schedule fork when it is run, stopped and resumed at the same time? | 3 runs, queues of capacity 2, 3 versions |
| `window_recovery` | After failures anywhere and replays from any snapshot, is anything lost, merged twice, or unfinished? | 5 items with overlapping windows and one after its window was flushed, 3 attempts, copying and aliasing repositories, failing snapshots |
| `pipeline` | Do replays leave out a record, does a watermark overtake one, does the end come? | 2 records, each followed by a watermark, the second being the end; any 2 calls that fail or crashes, to any snapshot; with and without the join. Two faults are enough for a replay of a replay, and for one stage to be replayed before and one behind the join |
| `node_interpreter` | Does every subscriber get what its source published, in order, and does a run end? | 9 graphs of up to 4 nodes: a line with a window, a window of a size, a window of the groups of another, a fork, a join into a window, a node that is joined with itself, and three with a handler that fails; 4 windows; channels of 2 (1000 in the code) and up to 3 items, so that they fill up |

What is shown beyond single steps:

* `NoLostUpdate` has two exceptions, which it names: the record was deleted and created
  again since the read, or its counter went round. Each needs four changes of one
  record, and the run has three, so the run shows that there is no other way to lose
  an update in so few; that there is none at all is a theorem (`NoUpdateIsLost`). With
  four changes there are too many states.
* `HeldBoundsStore` is why comparing versions works at all: what a client holds
  bounds what is stored. It is also the core of the proof.
* `IndexIsTotal` is optimistic concurrency control at work for a read-modify-write that
  the caller does not see: an index that was loaded too early makes the whole batch
  conflict. It excludes calls that overwrite, after which the count is too low, and
  the mutant that only conflicts if all records are stale breaks it. A version that
  goes round to the one a call has loaded is beyond 5 changes, and is the theorem's.
* `PagesCoverWhatStays` needs an order without ties: `RunSelector` (`taskqueue.go`, 91-115)
  pages by ten without any, over a map that is ranged over in a new order for each
  page, and may miss records until it starts over a second later. It also needs that
  the record a page ended with is still there.
* `PrevUndoesNext` is what makes `Prev` a way back. It needs the page before a record to
  end with that record, which is what the code does and the comment on it denies
  (`paging_before`, section 7).
* `NoMissedAppend` holds because writers exclude waiting subscribers; the mutant that
  lets them in breaks it, and `Close`, which does let itself in, breaks the run
  `append_log_closed_wakeup`.
* `EachCallbackSettledOnce` (service) is over copies: two handlers, the timeout's task
  and its duplicates all act on the version that waits, and one of them is saved.
  The functions that the losers called have been called, though: nothing undoes
  them, and none of the properties says so.
* `EachStepUsesItsOwnResult` is about IDs that are generated anew for every command. The
  mutant that names steps without numbers gives one step the result of another.
* `StoredRunsFollowLifecycle` says that acting on copies shows nothing that acting on
  the record itself would not: a stopped schedule does not run although its due
  copy was in a queue.
* `EveryTaskIsDone` covers what a conflict throws away: a selector finds the record
  again, and the change that won is announced by the log.
* `NothingIsLost` and `WindowsSkipNothing` hold from any snapshot, also from that of an
  older attempt; `ResultsAreComplete` does not (section 7).
* `RecordsSkipNothing` is the promise of at-least-once: a stage that goes back to an
  older snapshot pushes old records again, behind newer ones, and still before any
  record there is every earlier one. `WatermarksKeepTheirPromise` is the same for
  watermarks, and holds through `DoJoin` although a call begins with other watermarks
  than the one before ended with, since they are never higher.
* `WatermarksRise` is about runs without a crash: a load that failed begins again and
  repeats its watermarks, and the test in `DoMap` and `DoJoin` filters them.
* `EndReachesSink` is about pipelines without a join; with one it does not hold
  (section 7).
* `DeliveredInOrder` and `OneHandlerAtATime` are about a design that changes goroutines:
  one subscriber is called by `Process`, several by workers of their own, and the
  number changes while messages are on their way.
* `FinishedIsComplete` and `RunReturns` exclude runs in which a node subscribed late or
  a handler failed, because they do not hold there (section 7).

Deadlock is not checked where a system may stop: when the log has reached its
bound and every subscriber sleeps or has returned, a call of the typed repository
would not fit in it, a reader is at the end of its list, a run is Done, a bound on
versions is reached, `Recovery` or `Run` has returned. In `pipeline` it is
checked.

Symmetry is used in `repository`, over clients and records, which no definition tells
apart; the run has no liveness property. Its next-state relation (`EitherNext` of
`MCRepository`) is `Repository`'s `Next` for records without an aggregate, until an index
is read, and `TypedNext` while nothing was saved without one: the histories of both
specifications under one roof, and no mixture of the two. The properties of
`Repository` are checked for both.

The type invariants of `TypedRepository` and `Paging` are proved (section 6) and not
checked by a run of their own.

## 5. Fairness

* `AppendLog`: weak fairness of each subscriber's steps. A goroutine that can run
  runs, a broadcast wakes all sleepers, f returns. Writers, `Close` and cancellation
  are free: no property needs them to happen.
* `WorkflowService`: weak fairness of each selector, of the subscription, of each
  processor, of each save that was begun, and of the clock. `server.go` starts
  these as endless loops in goroutines of their own (586-633). Clients are free.
* `WindowRecovery`: weak fairness of the goroutine that called `Recovery`. Failures
  are not fair, and neither are the snapshotting goroutines: `RecoveryReturns` does not
  need that snapshots are ever taken, or that pulls fail when there is nothing to
  pull. It is about streams that end with the final watermark.

* `Pipeline`: weak fairness of the whole: the caller goes on calling the stages in turn.
  Faults are bounded by `MaxFaults`; a stage that fails for ever is not a question of
  this model. Which of several enabled steps is taken is free.
* `NodeInterpreter`: weak fairness of the whole. No goroutine of the engine loops without
  taking a message off a channel, so every behaviour is finite; fairness says that the
  runtime runs some goroutine that can go on until none can.

No strong fairness is assumed.

## 6. What is proved

All theorems hold for every value of the constants that satisfies the modules'
named assumptions: any sets of clients, payloads, subscribers and messages, any
finite set of keys, any limit of the counter above 1, any bound on a log, any queries,
any input of a pipeline and any number of faults, any number of workflow runs, requests,
retries and versions, any graph of nodes.

`RepositoryProofs`:

* `TypeCorrect`: the type invariant.
* `HeldRecordsBoundStore`, `NoSpuriousConflict`, `NoUpdateIsLost`: the three
  properties of the version check. `NoLostUpdate` is about entries of the log, and a
  new entry satisfies it if the copy its client held was current in the sense of
  `HeldBoundsStore`. So `HeldBoundsStore` is the strengthening. Its step is proved key
  by key: a change of a key either takes its version up by one, to 0, or the record
  away; what is unseen after the step is what was unseen before and the step's own
  changes. That a call changes a key at most twice (a save and a deletion, one entry
  each, saves first) is a lemma about `ChangesOf` and `Orders`.
* `VersionsContiguous`: `(before + 1) % VersionLimit` under both policies. It needs that
  the log is never rewritten.

* `LogIsTheStore` and `ChangesChained`: `LogReplaysToStore` and `ChangesAreChained`. Entries of
  different keys may come in any order, so the argument goes key by key again (`Leads`):
  a batch adds one or two entries for a key, which lead from the record in the store
  to the record that the call leaves, a deletion last. Replaying (`ReplayStep`) and
  chaining (`ChainStep`) then follow for the grown log; chaining uses that the last entry
  of a key is what is stored, which is `LogReplaysToStore`.

TLC checks the wrap with a limit of 3; the theorems cover the code's 65536.

`RepositoryProofs` on `TypedRepository`, for any groups, records, batches and clients:

* `TypedTypeCorrect`: the types, and that a call holds whatever it is about to save.
* `IndicesAreTotal`: `IndexIsTotal`. Two facts are needed of a call under way: the index it
  holds is not newer than the stored one (`HeldBoundsStore` for an index, by way of
  `ImplementsRepository`), and no index counts more than was saved (`NoneCountsMore`). At the
  save, a checked index is the stored one unless versions went round, so the new count
  is the old one and the contributions of the batch, which are as many as the entries
  the batch adds for the group (`BatchIsCounted`).
* `ImplementsRepository`: every behaviour is one of `Repository`, so that the theorems on
  `Repository` hold of records and indices alike.

`PagingProofs`, for any records, queries, limits and changes:

* `TypeCorrect`: links are queries.
* `StayingIsListed`: `PagesCoverWhatStays`. The strengthening `SoundReadersCover` says where a
  list stands between two pages: of the records that stayed, those up to the cursor,
  in the order of the list, were given once, and those behind it never. It holds after
  updates because whatever stays keeps its rank. A page extends it because the places
  of a list without ties are those of the ranks (`PlacesByRank`), and a page is what lies
  behind its cursor (`PlacesBehind`) up to the cursor of its link (`LimitedPages`).
* `BackIsBack`: `PrevUndoesNext`. Without ties there is one list (`ListIsUnique`, since the place
  of a record is the number of those up to it), a page with a link to the next one is the
  `limit` places up to that link's record (`PageForwards`), and the page back from that record
  is the same places (`PageBackwards`). `TrailsTell` carries the record from the link to the page.

`PipelineProofs`, for any input with its end:

* `TypeCorrect`: the types, with every offset, of snapshots too, inside its topic. It is
  inductive together with what the program counters say.
* `SkipNothing`, `PromisesKept` and `EndIsEverything`. What a stage has acknowledged says what it
  has pushed (`Delivered`), what a watermark stands for (`Kept`), also in the snapshots that
  it may go back to; topics are sound (`TopicsSound`) because each new item comes from an
  item of a sound topic behind everything that was delivered. `Faithful` is their
  conjunction, and the inductive invariant.
* `Rise`: `WatermarksRise`, from the types and the watermark each stage holds (`Risen`).

`AppendLogProofs`, on an invariant of three layers, each resting on the ones before:

* `TypeCorrect` and `NoAppendMissed`: the types, with positions inside the log, and that
  whoever sleeps, or holds the read lock in order to sleep, is at its end. A writer
  excludes the latter and wakes the former; the proof uses the log's lock and no
  timing. `PositionKnown` adds that a subscriber past its first message is not before
  the position it began at, and that any other has handled nothing.
* `OnceInOrder`: `ExactlyOnceInOrder`. Appending changes no position that was passed;
  f is called with a position after all those before; moving on passes none over.
* `ReturnsOnlyAtTheEnd`: the action property `ReturnsAtTheEnd`, from the invariant at
  the one step that returns. No run checks it by itself: the run checks that `EventLog`
  is implemented, where `End` says so.
* `EventLogImplemented`: `ImplementsEventLog`, for any subscribers, messages and batches.
  Locking, sleeping, waking and the move to the next message are stutters
  (`HiddenSteps`, `WakingIsHidden`); a delivery is `Give` and a return `End`, both at the
  position that the invariant puts inside the log.

`WorkflowProofs`, for any flows whose names do not look numbered, any values, outcomes of
calls, callbacks and commands, and any limit of retries:

* `OwnResults`: `EachStepUsesItsOwnResult`. The IDs of a flow are distinct (`OnceIsDistinct`: of two
  steps with the same name the later one counts more before it), and numbering them again
  changes nothing (`TwiceIsOnce`), so a result is recorded for one place of the flow.
* `TypeCorrect`: the types of the state and of an execution. What is pending lies around the next
  expression, in the order it was entered (`PlacesInv`), which needs that flows are nested;
  and an assignment is left with a result, since the last expression of its value is not an
  assignment itself (`AssignedHasResult`).
* `StartedOnce` and `ResultsAreAnswers`: `AwaitedCallStartsOnce` and `ResultsComeFromCallbacks`. Neither is
  inductive. Between commands every awaited call has its result recorded, but for the one that
  the run waits for, or that expired (`WaitInv`); an execution begins with the results of the
  state, and the answer if its command is a callback (`CommandInv`), so with a result for every
  awaited call there was, and it changes none of them. It stops at the first awaited call, which
  is at a place without a result, so that none was made there before (`AwaitKeeps`). What is
  recorded is what was answered (`AnswersInv`).
* `LifecycleImplemented`: `ImplementsLifecycle`. The lifecycle moves when an execution returns
  (`ReturnMaps`, `AwaitMaps`), as the command it was begun by; the callback that a command answers is
  the last one that was started because of `WaitInv`, and the one that is waited for is new
  because calls are numbered. All other steps of an execution stutter (`Stutters`).
* `CallbacksSettled` and `RetriesBounded`: `EachCallbackSettledOnce` and `RetriesAreBounded` of the
  lifecycle, and so of every run. They are inductive with the lifecycle's type invariant: a
  callback is generated fresh, and leaves the state only into `answered` or `Expired`. The limit
  bounds the counter, not the number of attempts: the counter starts over when another problem
  comes up (`workflow_transition.go`, 156-160), so alternating errors retry for ever.

`WorkflowServiceProofs`, for any interleaving of requests, selectors, the subscription and
processors:

* `TypeCorrect`: the types, with every queue inside its capacity. It is inductive together
  with `StatesAreProper`: a state that is still to be executed has a version below the bound,
  and one that waits has a callback.
* `SchedulesAreNotForked`, `CallbacksAreSettledOnce` and `RunsFollowLifecycle`:
  `OneLivePerSchedule`, `EachCallbackSettledOnce` and the action property
  `StoredRunsFollowLifecycle`. They are not inductive, since what a save does was decided
  when the copy was taken. The strengthening says what a version is worth: a copy of the
  version that is stored is what is stored (`CopiesAreOld`), so a job made from it advances
  the stored state (`JobsAreBased`), or is in conflict; the runs and callbacks that a job
  adds are nobody else's (`FreshIsAbsent`, `FreshIsDistinct`, `CallbacksAreDistinct`), and the
  parent of a schedule was stored before (`ParentsAreStored`), so that a schedule that begins
  has no run yet. All actions are of three kinds, each with a lemma: copies move (`Moves`), a
  worker takes up a job (`Takes`), a job is saved (`Saves`) or dropped.

`WindowRecoveryProofs`, for any input of at most 128 items, any windows and number of
attempts, both kinds of snapshot repositories, and failures anywhere. The theorems
assume `Short`, because the comparison of offsets as an int8 tells the later of two only
when they are less than 128 apart (`Int8Compares`, `NewForCompares`); section 7 says what goes
wrong beyond.

* `TypeCorrect`: the types; an attempt makes at most one state object.
* `AcknowledgedIsKept`, `MergesSkipNothing`, `AllIsPushedAtTheEnd`: `NothingIsLost`,
  `WindowsSkipNothing`, `EverythingIsPushed`. Whatever is in a window stays there until it is in
  the output (`Grows`), so that what a state object has acknowledged is safe for ever
  (`CellsAreSafe`), and it does not matter which of them an attempt begins with. The first two
  properties need each other: a record is merged behind all that its attempt has
  consumed, so a window has no gap before it; and a record that a window skips as
  processed is in it because windows have no gaps. The watermark of the end is
  acknowledged only when every window was due (`EndMeansPushed`).

`NodeInterpreterProofs`, for any graph whose nodes come before their inputs, any assignment of
windows and any capacity:

* `TypeCorrect`: the types. Channels and buffers stay within their capacity.
* `Delivered` and `OneAtATime`: `DeliveredInOrder` and `OneHandlerAtATime`. The invariant is about a
  channel and the subscriptions to it (`Channel`), and adds up where messages are: one that
  Process took off has been handled, is in the subscriber's buffer, or is the one that
  Process has still to push (`Followed`). The optimisation of `Process` (`pub_sub_chan.go`, 127-129)
  would break the order if the number of subscribers fell to one while the last of them
  had messages in its buffer; that no subscriber leaves in this situation is `Leaving`, without
  which `OneHandlerAtATime` is not inductive: who leaves before the channel ends failed as the only
  subscriber and is still the first in the list, with a closed buffer, at which `Process`
  panics before it reaches those that came later. A step touches one channel, and the
  others keep their part (`OtherChannels`).
* `NothingLeftBehind`: `FinishedIsHandled`, the first half of `FinishedIsComplete`. The end of a
  channel is a protocol of four goroutines: the producer closes it and waits, Process
  empties it, closes each subscriber and waits for its worker, the worker empties its
  buffer, the consumer returns. The second invariant, `Progress`, says what has been done
  when each of them is where it is: the channel (`Ends`), the subscribers Process has
  still to close (`Waits`), the call of `Subscribe` (`Calling`), and the worker (`Served`). Then
  nothing is left of the sum in `Followed` but what was handled. The hypotheses exclude
  failures and late subscribers, no more.
* `Complete`: `FinishedIsComplete`, the conservation of items, which counts an item with its
  repetitions: two ways may lead to the same node, and a group may hold the same item
  twice. The third invariant, `Accounts`, is about one node (`Conserved`): as often as the
  handlers of its subscriptions were called with the item, it is on the node's channel, in
  a window, or in what a handler has still to publish. It is kept because a flush moves
  the items of the windows that are due to the groups it emits, each window once
  (`FlushCounts`, `OutcomeCounts`), and because no handler is called before it has published
  what came of its last call (`Idle`). When the node ends, all its calls of `Subscribe` have
  returned (`Passed`), so that its handlers have had all of the input (`AllHandled`, from
  `Progress`) and owe nothing; and no window that the watermark alone triggers has items
  (`Emptied`). A count is the cardinality of the set of places in which the item is (`Places`),
  so the lemmas about it are bijections between such sets (`Moved`, `Parted`) and need no
  induction over sequences.

Model-checked only: everything about liveness (`RunReturns` and the other temporal properties
under fairness).

## 7. Disagreements

Found by runs that are expected to fail (`findings` in `PROJECT.json`):

* `append_log_closed_wakeup`: `Close` holds the read lock only; it can broadcast
  between a subscriber's look at `closed` and its entry in the notify list, and the
  subscriber then sleeps for ever.
* `window_recovery_results`: goroutines of failed attempts go on saving, a later
  attempt starts from a state that is older than the windows, and a window that was
  flushed is filled again from there and pushed with a part of its records.
* `paging_before`: `schema.go`, 172-179: the comment has "find limit=4 before=4" give the
  records 1 to 3; the code (217-225) takes the record along and gives 1 to 4
  (`BeforeIsLeftOut`). The package's test (`schema_test.go`, 46-53) sides with the code,
  and going back from the second page to the first is right because of that
  (`PrevUndoesNext`); going back twice gives the record at which the pages meet in both.

Seen while modelling, described in the modules, without a run of their own:

* `stream.go`, 110: `Append` asks whether the log it copies *from* is closed, so a closed
  log grows (`Append_`).
* `schema.go`, 77: the comment says that a new record "should have version 1"; the
  assignment is to a copy, and a record that was deleted comes back under a version
  above 1 when a client saves its old copy (`Written`).
* `stream.go`, 143-145: a scan for an offset that stops at the last message is taken for
  one that found nothing, so a subscriber cannot resume at the last message
  (`SelectStart`).
* `stream.go`, 125: the first waiting loop does not look at `closed`; a subscriber of an
  empty log that is closed waits for ever (`WaitFirst`).
* `schema.go`, 134: a key of the store is the ID and the type without a separator, so
  records of different types may share one. `Keys` stands for what `toKey` returns.
* `schema.go`, 179-193: a page behind a record that was deleted meanwhile is empty and
  the last one (`Places`).
* `schema.go`, 196-242: the links do not take over `RecordType`, so the next page of the
  schemaless repository is of all types; the typed repository puts it in again (`Link`).
* `with_aggregator.go`, 148: the names of the fields to sort by are wrapped in the caller's
  own query, which is handed back in `Next` and `Prev`. Following them, or asking again with
  the same query, wraps a field of `Data` twice, and that panics (`Panic`).
* `with_aggregator.go`, 80: deletions are not taken out of the aggregate, and a record that
  is saved again is counted again, while the comment of `ReindexAll` (206-228) speaks of an
  aggregate that "retracts" old versions; `ReindexAll` itself panics.
* `in_memory.go`, 146: `InMemoryOffsetCompare` returns int8(a - b), negative when a is 128 to 255
  behind b. `DoWindow` (`window.go`, 238) then drops a record of a window as "already
  processed", when the last one of that window was so far before (`Int8`, `NewFor`). The runs
  of `WindowRecovery` have shorter inputs, and its theorems assume them.
* `workflow_transition.go`, 268: a run that refers to a flow looks it up for every command,
  and my-app lets clients change and delete flows (`server.go`, 429). The results a run has
  are then those of other steps, if their IDs are the same; and `ScheduleNext` (394-398)
  returns nil when the flow is gone, so that the schedule ends without an error. `Workflow`
  is about flows that stay as they are.
* `workflow_transition.go`, 752-764: a generated ID ("apply-f-1") is not remembered among those
  that are taken, so an ID of the user that looks like it is used twice, and numbered
  at the next command: a result then goes to another step. `FlowsAssumption` excludes it.
* `workflow_transition.go`, 568: the flow of the package's README (5-36) ends in an Error when
  its callback comes, since its first assignment is executed again and finds the
  variable set (`Assigned`).
* `workflow_transition.go`, 623: a repeated call is given another call ID, and a call
  that is not awaited none, while the package's README (139) asks functions to
  deduplicate by it (`CallbackID`).
* `recovery.go`, 137-142: after a snapshot that could not be saved, `Recovery` returns nil
  for a failed attempt (`ReturnCancelled`). `EverythingIsPushed` excludes this case by
  name.
* `projection.go`, 407-408: a call of `DoJoin` begins with the watermark of its state for
  both sides, so what one side alone had brought is forgotten when a call ends. If the
  left side brought the end of the stream, the call failed, and the right side brings
  it in the next call, the lower of the two is the old watermark: the end is never
  pushed, and the sink waits for ever (`JoinWatermark`).
* `projection.go`, 419-425: `DoJoin` takes turns, and returns when the side whose turn it is
  has nothing more. If one topic is longer than the other, as after a replay of the
  map, the rest of the longer one is never read (`Return`).
* `interprete_in_memory_two.go`, 70-72: the comment says that channels are ready before
  nodes run, but the subscribers are not: `Run` waits for the `Process` goroutines, and
  what a load publishes before its consumer has subscribed is dropped (`joined`).
* `pub_sub_chan.go`, 144-162: a subscription that is added when `Process` has ended waits
  for ever; one that finds the channel closed gets an error, upon which its node
  cancels the run, and publishing or finishing panics in the others (`Late`,
  `FinishPanics`, `EmitFails`).
* `interprete_in_memory_two.go`, 511-535: the error of an item that was not published is
  overwritten by what `OnLoad.Process` returns, so a load whose run was cancelled goes
  on to its watermark and to `Finish`, which panics (`LoadFails`, `FinishPanics`).
* `interpreter_in_memory.go`, 109-120: `Wait` returns nil whatever the nodes returned, so the
  branch of `Run` for a failed node (84-90) is never taken.
* `pub_sub_chan.go`, 51-58: a worker whose handler failed closes its own subscriber, which
  waits for the worker (`Fail`). A node of which a handler failed is not finished, so
  its consumers wait for ever, and a message sent to a subscriber that is closed
  panics (`PushPanics`).
* `interprete_in_memory_two.go`, 306-310: the last flush signals the watermark only; a window
  that waits for its size as well and stays smaller is never published (`LastFlush`).
* `triggering.go`, 425: the ticker of `AtPeriod` flushes windows in a goroutine of its own,
  without a lock.

## 8. Not modelled

* Backends that are clients of external services (DynamoDB, OpenSearch, Kinesis, SQS,
  Kafka), and the pure parts: predicates, schema, shape, serialisation, generators.
* The typed wrapper of the change log and of streams: they convert data. `ReindexAll`
  panics. What predicates select is a set of values in `Paging`.
* A crash of the process. The in-memory stores die with it, so there is nothing to
  recover to; with a durable repository the queues and the copies at work would be
  lost, and the model of the service does not show that.
* Of the projections: what f makes of a record, `MkWindow`, triggers other than
  `AtWatermark` in `DoWindow`. `DoWindow` is not a stage of `Pipeline`: it has a module of
  its own, with its window store.
* Of the older engine: the flush modes (what the result of a window contains),
  `AtPeriod`, `PubSub` and `PubSubSingle`, the first interpreter, the sink, and a load
  whose `OnLoad` returns an error of its own.
* Of my-app: the endpoint `/state-updating` (`server.go`, 466-486), which writes any states
  with any policy, past the machine. It can break every property of the service, and
  these are about a service that does not use it. Endpoints that only read, and the chat.

## 9. Plan

Done, in order of importance: the repository, its log, the workflow, the service that
composes them, recovery, the stages of projections, the older engine, the typed
repository with its aggregate, step IDs, lists in pages. To come:

1. `OrderProcessing` (`concurrent_processing.go`): the retry loop on a conflict.
2. `Topic` (`x/stream/in_memory.go`): waiting pulls, and offsets that are 128 apart, composed
   with `WindowRecovery`'s `NewFor`.
3. Flows that change while runs wait, in `Workflow`; a `ScheduleNext` that fails, and the
   pages of `RunSelector`, in `WorkflowService`.

Abstract specifications: `WorkflowLifecycle` (done, proved), `Repository` for
`TypedRepository` (done, proved); `EventLog` for `AppendLog` (done, proved); an atomic
register per key, to be implemented by `Repository` under the checked policy alone; windows as a fold of the
input, for `WindowRecovery` with snapshots that only go forward.

Theorems: every invariant and action property that a run checks is proved (section 6).
