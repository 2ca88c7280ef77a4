# Specifications of mini-langgraph-rs

TLA+ modules, TLC configurations and TLAPS proofs kept beside the code of
`mini-langgraph-rs`, a Rust port of the core of LangGraph: a graph of node
functions is compiled into channels, triggers and writers, and executed by a
Pregel-style loop in supersteps.

Paths below are relative to the repository root.

## 1. The system

### Components

| Component | Source | State it keeps | Operations |
|---|---|---|---|
| Channels | `src/channel/*.rs` | the value of one channel (`LastValue`, `BinaryOperatorAggregate`, `EphemeralValue`) or the names a barrier has seen (`NamedBarrierValue`) | `update`, `consume`, `is_available`, `get`, `checkpoint`, `from_checkpoint` |
| Writers | `src/channel/channel_writer.rs` | none | `assemble`: node output and state to a list of writes |
| Builder | `src/graph/state.rs`, `branch.rs`, `waiting_edge.rs`, `node.rs` | nodes, edges, branches, waiting edges | `add_node`, `add_edge`, `add_conditional_edges`, `add_sequence`, `compile`, `validate` |
| Compiler | `src/graph/compiled.rs` | the `Pregel` under construction | `attach_node`, `attach_edge`, `attach_branch` |
| Graph program | `src/pregel/pregel.rs` | `Pregel`: nodes, channel prototypes, trigger index; read-only once compiled | `validate`, `stream`, `invoke` |
| Loop | `src/pregel/loops.rs` | `PregelLoop`: step, channels, `channel_versions`, `versions_seen`, `updated_channels`, status | `enter`, `tick`, `execute`, `after_tick` |
| Tasks | `src/pregel/task.rs` | tasks of the current superstep | `prepare_tasks`, `execute_pending_tasks` |
| Checkpoints | `src/checkpoint/*.rs` | `MemorySaver`: checkpoints and pending writes by thread, namespace and id | `get_tuple`, `put`, `put_writes`, `delete_thread` |
| Context, managed values, errors | `src/runtime`, `src/managed`, `src/error.rs` | configuration of a run | none with behaviour of its own |

### How they interact

`compile` turns an edge `a -> b` into a writer of `a` on the ephemeral channel
`branch:to:b` that `b` subscribes to, a waiting edge `[a, b] -> c` into a
barrier channel `join:a+b:c`, a conditional edge into a writer that runs the
branch function. `Pregel::stream` spawns a tokio task that owns a
`PregelLoop` and a clone of nothing else: it copies the channels, applies the
input, and then repeats

    tick        check the limit; a task for every node subscribed to an updated
                channel, if a trigger is available and newer than what it has seen
    execute     one scoped thread per task (a single task runs inline),
                joined in path order; Updates mode sends an item
    after_tick  consume the triggers, apply the writes channel by channel, record
                and bump versions; Values mode sends a snapshot; step += 1

until no task is left, an error occurs or the receiver is gone. Items go
through `mpsc::channel(16)`: data with `try_send`, whose failure is ignored,
errors with `send().await`. `invoke` runs the same thing on a current-thread
runtime of its own and drains the receiver.

### What is hard

- threads of a superstep finish, fail and panic in any order;
- barriers accumulate arrivals over several supersteps and are reset by the
  superstep their target runs in, while new arrivals may come in that same step;
- two mechanisms, the trigger index and the version gate, decide who runs;
- channels are updated one by one and any of them may refuse;
- a bounded queue in which data may be lost and errors must not be;
- the receiver can be dropped at any time;
- a run may be continued from a checkpoint that holds only part of its state.

The hazards this gives rise to are listed at their lines in `PROJECT.json`.

### What makes each component correct

- Channels: a failed update leaves a legal state; a barrier is complete exactly
  when all its names have arrived since it was last consumed.
- Loop and tasks: a node runs in a superstep exactly if the superstep before
  triggered it; a superstep is all or nothing; results, merges and errors are
  independent of thread timing; the recursion limit bounds every run; every
  run ends.
- stream and invoke: errors are delivered, data that fits is delivered in order
  and completely, nobody waits for ever, an abandoned run stops.
- Builder and compiler: a compiled graph satisfies what the loop assumes of it,
  and distinct edges get distinct channels.
- Checkpoints: a resumed run continues as the interrupted one would have.

## 2. The modules

| Module | Models | In terms of the code |
|---|---|---|
| `Channels` | the four channel types | operators on a channel state; the reducer is uninterpreted, its result is the sequence of operands |
| `Updates` | `apply_writes` | operators on the channels of a run: triggers consumed, writes grouped by channel in path order, groups applied channel by channel |
| `Program`, `GraphProgram` | a compiled graph, as a run is given it | constants only, seen from the loop and from its nodes, and what compiling guarantees of them: `GraphFits`, `InputFits`, `TokensFit`, `WritersFit` |
| `PregelLoop` | a run without checkpointer | `phase` is the position in the main loop of `Pregel::stream`; `thread[n]` the thread of task `n`; the other variables are the fields of `PregelLoop` of the same or a similar name |
| `Superstep` | the promise of a run | abstract: rounds over a set of active nodes, joins that count arrivals |
| `LoopRefinesSuperstep` | the refinement mapping | active nodes = tasks during a superstep, candidates before one; arrivals = names seen by the barrier |
| `AtomicRun` | what a run computes | abstract: the nodes of a superstep answer, and the superstep is a function of the answers |
| `LoopRefinesAtomic` | the refinement mapping | a node has answered when its thread has ended; channels, step, outcome and error are those of the run |
| `StreamRun` | a run with its queue and its caller | extends `PregelLoop` by `queue`, `sender`, `caller`, `received`; items carry their data; `Invoke` selects `invoke` or a caller of `stream` |
| `ChannelWriter` | the writers of a compiled node | operators on a node, the state it has read and the outcome of its function: `state_writer`, `trigger_writer`, `branch_writer` |
| `GraphRun` | a run of a compiled graph | extends `StreamRun` by `input`, what every task has read; `GReturn`, `GFail`, `GPanic` take the place of `Return`, `Fail`, `Panic` |
| `MemorySaver` | the in-memory checkpoint storage | operators on its two maps; an id is a number |
| `CheckpointedLoop` | runs of one graph on one thread with a checkpointer | extends `PregelLoop` by `saver`, `config`, `base` and the history variables `last` and `prior`; `NextRun` starts the next run |
| `GraphBuilder` | the builder and the compiler | one action per call, a refused call is no step; `program` is the `Pregel` that `compile` makes: channels, barriers, triggers, reads and what each node may write to |
| `CompiledGraph` | what `compile` hands to a run | extends `GraphBuilder` by the types of the channels and the outcomes of the node functions; `Run` is the compiled program as the constants of `GraphProgram` |
| `CodeReview` | `examples/plan_execute_review.rs` | its graph compiled by `GraphBuilder!Compiled`, its node functions, reducer and totals; `run` says whether the stream or an invocation is looked at |
| `Throughput` | the chain of `benches/throughput.rs` | compiled likewise, for any length `N` |
| `MCPregelLoop`, `MCStreamRun`, `MCRouting`, `MCCodeReview`, `MCThroughput`, `MCReadme`, `MCCheckpointedLoop`, `MCGraphBuilder` | instances for TLC | |
| `Selections` | `retain` and the other filters of lists | one operator, that counts instead of recurring, so that it can be proved about |
| `ChannelsProofs`, `PregelLoopProofs`, `RefinementProofs`, `StreamRunProofs`, `GraphRunProofs`, `CheckpointProofs`, `GraphBuilderProofs`, `CompiledGraphProofs` | theorems | |

`StreamRun` and `CheckpointedLoop` both extend `PregelLoop` and reuse its
actions; a checkpointer does not touch the queue, so the two are not composed.
`GraphRun` extends `StreamRun` and `GraphProgram`, which extends `ChannelWriter`. The constants of a run that
describe its graph are what `GraphBuilder!Compiled` makes: `CodeReview`,
`Throughput`, `MCRouting` and `MCReadme` instantiate `GraphBuilder` with the calls a
program makes and hand the parts of the compiled program to `GraphRun`.

`PregelLoop` is parameterised by the graph: `Nodes`, `Triggers`, and for every
node the set `Outputs[n]` of write functions it may return, from which a node
chooses freely each time it runs. `GraphAssumption`, `InputAssumption` and
`ChannelAssumption` state what `validate` and the compiler guarantee of it. In `GraphRun` the choice is
the node function's: it is a relation between the state read and an outcome, and the
writers turn the outcome into writes. `GraphRunAssumption` says that these writes are
among `Outputs`, so `GraphRun` is an instance of everything said about `PregelLoop`.
All these assumptions are predicates of `Channels`, `Program` and `GraphProgram`, and
`CompiledGraph` asks of every program `compile` can make whether it meets them
(`CompiledRuns`).

Actions of `PregelLoop` and the code they stand for:

| Action | Code |
|---|---|
| `Enter`, `EnterEmpty` | `enter`, `first`, `map_input` |
| `OutOfSteps`, `Prepare`, `Done` | `tick`, `prepare_tasks`, `prepare_task` |
| `Return`, `Fail`, `Panic` | `execute_task_inner` on a thread |
| `JoinOk`, `JoinErr`, `Unwind`, `LeaveScope` | `execute_pending_tasks`: the join loop, its early return, the inline task, the end of the scope |
| `AfterTick`, `AfterTickErr` | `after_tick` with `apply_writes`, and the `is_stream_closed` check |
| `DropReceiver` | the caller |

Actions of `StreamRun` and `GraphRun`:

| Action | Code |
|---|---|
| `SExecute`, `SAfterTick` | `execute` and `after_tick` with the item they send: `map_output_updates`, `read_stream_channels`, `try_send` |
| `SQuiet` | the other steps of the main loop |
| `SendError` | `send(Err(error)).await` |
| `Receive`, `ReceiveNone` | the receive loop of `invoke`, or a caller of `stream` |
| `CallerDrops` | a caller of `stream` drops its receiver |
| `GTask` | the main loop, with `proc_input` for every task it prepares |
| `GReturn`, `GFail`, `GPanic` | `execute_task_inner`: the node function, then its writers |

Actions of `CheckpointedLoop`:

| Action | Code |
|---|---|
| `CEnter` | `enter` with a checkpointer: `get_tuple`, replay of pending writes, restore, input, input checkpoint |
| `CAfterTick`, `CAfterTickErr` | `after_tick`: `put_writes` for every task, `apply_writes`, `put_checkpoint` |
| `Unsaved` | all other actions of `PregelLoop` |
| `NextRun` | the caller starts another run, after `delete_thread` or without |

The loop takes its saver by value and drops it at the end, so that no caller gets
it back; but `put` and `put_writes` are public, and a caller can fill a new
saver. `Refill` says whether it does. The runs with `Refill = TRUE` ask what a
saver that keeps its contents is worth, as one on disk would.

Actions of `GraphBuilder`:

| Action | Code |
|---|---|
| `AddNode`, `AddEdge`, `AddConditionalEdges` | the methods of that name |
| `SetEntryPoint`, `SetFinishPoint`, `SetConditionalEntryPoint` | likewise, by way of `AddEdge` and `AddConditionalEdges` |
| `AddSequence` | `add_sequence`, up to the first node that is refused |
| `Compile` | `validate`, `attach_node`, `attach_edge`, `attach_branch`, `Pregel::validate` |

`AfterTick` is one action: the loop runs it on one thread with no await, and
nobody else can see the channels.

Definitions whose comment begins with "Variant" are not part of the models.
Each is a plausible mistake in the definition that follows it; `PROJECT.json`
pairs every property with one that violates it.

## 3. The runs

| Run | Configuration | Shows |
|---|---|---|
| supersteps | `PregelLoop.cfg` | type invariant; `JoinNotStranded`, `NoTriggerLost`, `FirstErrorReported`, `StepsBounded`, `AllOrNothing`, `MergedInPathOrder`; `PregelLoop` implements `Superstep` and `AtomicRun`; every step leaves less to do, and every run ends |
| stream_invoke | `StreamInvoke.cfg` | `invoke` returns, reports exactly the errors, returns the final state of a run that fits its queue, never a snapshot of a superstep that was not applied; routing follows the state before the superstep |
| stream_caller | `StreamCaller.cfg` | a slow or vanishing caller of `stream`: its updates replay to the state, the error comes last and once, the run stops within a superstep, its task is not leaked, no item is sent or received twice |
| code_review | `CodeReview.cfg` | the example: the report sees every finding, the stream has three items, the printed totals are right, every run ends with a report |
| checkpoints | `Checkpoints.cfg` | three runs on one thread: the next run finds the last checkpoint, restores its values exactly once, versions never fall back, no trigger is lost, the input alone decides what runs first |
| graph_builder | `GraphBuilder.cfg` | what the builder stores is well-formed; `compile` refuses for two reasons only; joins keep apart; signals arrive; a compiled graph is what the modules about runs assume |
| invoke_final | `InvokeFinal.cfg` | violated: `invoke` returns a snapshot that is not the last |
| invoke_panic | `InvokePanic.cfg` | violated: a panic of a lone task makes `invoke` return Ok |
| readme_output | `ReadmeOutput.cfg` | violated: a graph with one state channel returns no object |
| resume_readme | `ResumeReadme.cfg` | violated: the saver is gone with its run |
| barrier_restored | `BarrierRestored.cfg` | violated: the arrivals of a half-filled join are not restored |
| join_collision | `JoinCompiled.cfg` | violated: two waiting edges share a channel when names contain `+` |

**Bounds.** The graph of `MCPregelLoop` has START, two parallel nodes, a join of
both, a branch back to either or both, and a direct route past the join. So the
join is entered with one or both starts, in one or in several supersteps, its
target is triggered by the join, by the branch or by both, and arrivals of the
next generation come in the superstep the target runs in. Both nodes may write
a `LastValue` at once (a refused update) and a reducer that refuses one operand
(an update that fails half way). `RecursionLimit = 6` gives eight supersteps:
the join fires at least twice and the limit is hit. The graph of `MCStreamRun` is
smaller; a queue of 2 with a limit of 3 (five supersteps) overflows in every
way. Queue and limit are the code's own, 16 and 25, wherever a real program
is run: `code_review`, `invoke_final`, `readme_output`.

In `MCRouting` one node goes round on a branch that reads the log it has written so
far and loses its way when the other has written "bad"; a second branch of it
signals the other node or nobody. The other node may return an update with and
without fields that are no channel, nothing, something that is no object, a Command,
an error, or panic. START has its plain edges only.

`CodeReview` has the graph, the data and the limits of the program, so that the only
choices left are those of the scheduler. The severities of the findings are those
of the source. `Throughput` is run with the largest chain of the benchmark, 20.

In `MCCheckpointedLoop` a join fills up in one superstep or in two, a run may fail or
panic between the two arrivals, and two nodes write a reducer or a
`LastValue`, so that pending writes are left behind by a refused update. Three
runs are the least in which a resumed run is itself resumed; before any of them the
thread may be deleted. The saver of the first run holds checkpoints of another
thread, and of another namespace of this thread, with greater ids (`Given`). In
`checkpoints` the input node START, which the compiler gives no code of its own but
branches, does not fail: section 5 says what happens if it does.
`StateRestored` leaves out barriers (`barrier_restored`) and threads whose last run
ended in a refused update, whose replay is meant to add to the state.

`MCGraphBuilder` has three nodes and a name with a reserved character; its
calls contain every kind that is refused, a waiting edge written in two orders,
with a repeated start and to END, two waiting edges with the same starts, a
branch whose end may never be added, and sequences that stop half way. TLC explores
them in every order. A node's function may return an update with a field that is no
channel, nothing, or an error.

**Fairness.** `FairSpec` assumes weak fairness of the loop, which tokio keeps
polling and which never waits for anything but its own threads, and of each
node's thread: the operating system schedules it, and node functions are
assumed to return. In `SFairSpec` the caller is fair only for `invoke`, whose
receive loop is code of the library; a caller of `stream` may stop receiving
for ever, and then a task with an error to send may wait for ever. `GFairSpec` says
the same of a compiled graph. `CodeReview` takes its receive loop, which is code of
the example, to be fair as well; `CFairSpec` asks only that some process that can
go on does, since none of them can wait for more than the others.

## 4. What is proved

For every graph, every limit and all node behaviour the assumptions allow:

| Theorem | Statement |
|---|---|
| `TypeCorrect` | `Spec => []TypeOK` |
| `ErrorDeterministic` | `Spec => []FirstErrorReported` |
| `SuperstepAtomic` | `Spec => AllOrNothing` |
| `LimitHolds` | `Spec => []StepsBounded` |
| `JoinsFire` | `Spec => []JoinNotStranded` |
| `TriggersKept` | `Spec => []NoTriggerLost` |
| `MergesInOrder` | `Spec => MergedInPathOrder` |
| `LoopImplementsSuperstep` | `Spec => RefinesSuperstep`: a run is a run of `Superstep` |
| `LoopIsAtomic` | `Spec => RefinesAtomic`: a run is a run of `AtomicRun` |
| `RunsAreFinite` | `Spec => EveryStepCounts` |
| `PathOrderSorts` | the sort by path is a sort |
| `BuilderTypeCorrect` | `GraphBuilder`: `Spec => []GTypeOK` |
| `RefusalsAreTwo` | `GraphBuilder`: `Spec => []CompileRefusals` |
| `SignalsAlwaysArrive` | `GraphBuilder`: `Spec => []SignalsArrive` |
| `JoinsCompiledIfDistinct` | `GraphBuilder`: `Spec => []JoinCompiled`, if `DistinctJoins` |
| `CompiledIsRun` | `CompiledGraph`: `Spec => []CompiledRuns` |
| `StreamImplementsLoop` | `SSpec => Spec`: a run with queue and caller is a run |
| `StreamTypeCorrect` | `SSpec => []STypeOK` |
| `NothingAfterError` | `SSpec => []ErrorIsLast` |
| `ErrorsReachInvoke` | `SSpec => []InvokeReportsError` |
| `AbandonedStops` | `SSpec => []AbandonedStopsSoon` |
| `StreamedWasApplied` | `SSpec => []StreamedIsApplied` |
| `FinalIfShort` | `SSpec => []ShortRunFinal`, if `StreamsState` |
| `UpdatesGiveState` | `SSpec => []UpdatesReplay`, if `StreamsState` |
| `StreamsAreFinite` | `SSpec => EveryItemCounts` |
| `GraphImplementsStream` | `GSpec => SSpec`: a run of a compiled graph is a run of `StreamRun` |
| `RoutingFollowsState` | `GSpec => RoutesFollowState` |
| `SaverTyped` | `CSpec => []CTypeOK` |
| `ResumeTriggersKept` | `CSpec => []NoTriggerLost` |
| `InputFirst` | `CSpec => []InputDecides` |
| `ResumesLast` | `CSpec => []LatestIsLast`, if `Refill` and `EntrySafe` |
| `VersionsGrow` | `CSpec => VersionsKept`, if `Refill` and `EntrySafe` |
| `ResumesValues` | `CSpec => StateRestored`, if `Refill` and `EntrySafe` |

The assumptions are those the modules make of their constants, which TLC evaluates
in every run that extends them: `ChannelAssumption`, `GraphAssumption` and `InputAssumption` of a graph,
`TokenAssumption` for the refinement (only a node's own name is written to a
barrier), `StreamAssumption`, `GraphRunAssumption`, `ThreadAssumption` and
`BuilderAssumption`. By `GraphImplementsStream` and `StreamImplementsLoop`, what is
proved of `PregelLoop` and of `StreamRun` holds of compiled graphs.

Of these, the assumptions about graphs are not left to belief: `CompiledIsRun` proves
that every graph the compiler accepts, whatever calls have built it, meets
`ChannelsFit`, `GraphFits`, `InputFits`, `TokensFit` and `WritersFit`, which are what
`ChannelAssumption`, `GraphAssumption`, `InputAssumption`, `TokenAssumption` and
`GraphRunAssumption` say. It rests on `CompiledAssumption`: the names of state
channels, START, `branch:to:...` and `join:...` are four different sorts of names,
strings are totally ordered, and a node function returns values. The first is a
condition on the user, since nobody checks the names of state channels; two joins may
have the same name here.

Four conditions are hypotheses of single theorems, since the code can be used
without them:

- `DistinctJoins`: different joins have different channel names (section 5).
- `StreamsState`: the stream channels are `LastValue` or reducer channels. Without a
  state schema the only stream channel is START (`graph/state.rs` line 272), whose
  input no snapshot is ever made of.
- `Refill`: the saver keeps what it holds. Otherwise nothing can be resumed.
- `EntrySafe`: the entry node neither fails nor writes to a state channel. The compiler
  gives START a function that does nothing; only a branch of START can fail, and then
  the input checkpoint stays behind as the last one (section 5).

The MC modules of the passing runs assume `StreamsState` and `EntrySafe` in turn, so
the runs show that they can be met.

*Types and order of joins.* `TypeOK` is inductive only together with
`JoinOrder`: what `LeaveScope` reports is of a legal kind because the task in
`failed` has failed. `JoinOrder` says that joined tasks have returned Ok, that
whoever precedes the failed task has been joined, and that all tasks have been
joined when writes are applied. `FirstErrorReported` and `AllOrNothing` follow.
The values of a channel reach `update` through the sort by path, so typing needs
`PathOrderSorts`, whose core is that an injection of a finite set into an
interval of the same size is onto (`CountingSorts`). `MergedInPathOrder` needs in
addition that a task that has returned Ok holds one of its node's outputs
(`WritesReturned`), so that a value leads back to its writer.

*Triggers and joins.* `JoinNotStranded` and `NoTriggerLost` need each other's
strengthening: `UpdatedFresh` says that no node has seen a version from the
future, and that when a superstep is planned every updated channel is available
and newer than what any node has seen. So every candidate passes the version
gate. A barrier found complete when a superstep is planned was incomplete
after its consumption in the superstep before: either it was incomplete anyway, or,
by `JoinNotStranded`, its target was among the tasks and consumed it. Then
`CompletionReported` says that the update that completed it reported a change.

*The refinement.* `Enter` maps to `Start`, `AfterTick` to `Round`, `Done` to
`Finish`, every way to end early to `Abort`, and everything else to a stutter. Two facts
carry it. Tasks are the candidates they were when the superstep was planned
(`TasksAreCandidates`, from `NoTriggerLost`), so the abstract active nodes do not
change when a superstep is planned or a thread ends. And the triggers that
`apply_writes` reports are those that were fired, joins only when complete
(`UpdatedTriggers`): an ephemeral channel that is written is always reported, a barrier
when it has seen all its starts, which it cannot have had before
(`JoinNotStranded`). The arrivals of a join grow by the nodes that wrote to its
barrier, since each writes its own name (`ArrivalsAccumulate`).

*Atomicity.* `AtomicRun` has no threads, scopes, joins or versions: its nodes answer,
in any order, and when all have answered, the superstep is applied, refused, or broken
by the first node that went wrong. `Return`, `Fail` and `Panic` map to `Answer`;
`LeaveScope` and `Unwind` to `Break`, `AfterTick` and `AfterTickErr` to `Apply` and
`Refuse`, planning and joining to stutters. Nothing is left of the thread timing but
the order of the answers, and `Apply`, `Refuse` and `Break` do not look at it. What has to
be proved is that a run joins exactly up to the first thread that went wrong
(`JoinOrder`), that threads run only while their superstep lasts (`ThreadsScoped`), and,
from the part about triggers, that the nodes planned are those that subscribe to an
updated channel (`TasksAreCandidates`), so that versions play no part.

*Termination.* Termination under fairness is checked by TLC. That a run has only
finitely many steps needs no fairness and is proved: `Remaining` counts what the
threads, the joins and the remaining supersteps can still do, and every step but the
waiting of an ended run decreases it. It is a natural number because of
`StepsBounded` and because the graph is finite. `StreamRemaining` counts two for each
of those steps, one for the step and one for the item it may send, plus the items in
the queue and the error that may still be sent.

*Builder.* `GTypeOK` is inductive: the guards of every call keep edges between known
nodes. `BuilderInv` adds that a compiled program is `Compiled` of a graph whose
branch ends are known; the graph is not touched afterwards. That validate can find
nothing else wrong follows from `GTypeOK` (`ValidationOfWellFormed`), and that
`Pregel::validate` finds nothing at all from the shape of `Compiled`
(`CompiledIsRunnable`). How names are joined to channel names plays no part in
this. `JoinCompiled` does depend on it and holds for some names only; what it
needs of them is `DistinctJoins`, and then each channel is inserted once.

*Compiled graphs.* `CompiledNodes` and `CompiledWriters` read off the shape of
`Compiled` what matters to a run: barriers wait for nodes and have a subscriber, every
signal and route goes to the trigger channel of a node, every token is the name of its
own node. Both need `BuilderInv`, since only the guards of the calls keep edges between
nodes. That the four sorts of channels are apart (`ChannelsApart`) makes a write to a
barrier a token (`OutputsTyped`), even if two joins share the barrier. There are
finitely many nodes because each call adds finitely many (`FiniteNodes`).

*Stream.* Every step of `StreamRun` is a step of `PregelLoop` or a stutter.
`Lifecycle` ties the sender to the phase: while the loop runs the sender is alive,
and afterwards there is an error to send exactly if the outcome is one.
`ErrorsClose` says that an error is the last item of the queue, or of what was
received with the queue empty, and that the sender is gone then, which makes
`ErrorIsLast` inductive. `ErrorAwaited` says where the error of a run that ended in
one is: still to be sent, queued or received, which gives `InvokeReportsError`.
`LastSuperstep` bounds the step of an abandoned run by whether it has applied its
superstep yet. `SentIsApplied` says that in Values mode every item sent is older than
`step`.

*Results.* `Delivered` relates what was received and queued to what was produced: it
is never longer, and it is the same as soon as it is as long, because an item that
is dropped is missed by one for ever; and `invoke`, which receives nothing while the
run goes on, drops none of a run that fits. `LastSnapshot` says that the last
snapshot produced is what the stream channels hold: the input and `consume` do not
touch them, and a superstep that writes one of them reports it as updated. `ShortRunFinal`
is the conjunction of the two. In Updates mode `ReplaysState` says that all updates
produced replay to what the stream channels hold or, between the last join of a
superstep and `after_tick`, to what they are going to hold. The item lists, by node,
the values that `apply_writes` lists by channel (`UpdatesAreGroups`). The
replay is a recursive function; that it exists, is unique and grows by one step per
item (`ReplayOneMore`) is proved from the fact that a set of numbers has a
smallest member, which stands in for induction (`SmallestNumber`).

*Routing.* `Snapshots` says that the input of every task of a superstep is what the
channels held when it was planned, which is what they still hold, and that the
writes of a thread that has returned Ok are what its writers assemble from that
input. `RoutesFollowState` then only has to look at the step that applies them.

*Checkpoints.* A run of `CheckpointedLoop` is not a run of `PregelLoop`, since it
starts from what it has loaded, so `CheckpointProofs` proves the invariants of a run
again from the state `enter` leaves (`RunInv`), and with them what holds of the saver
(`ThreadInv`): checkpoints of the thread have seen nothing (`SeenNothing`), so no node
can have seen a version newer than a restored one and the version gate stays open; the
first superstep is that of the entry nodes (`StartsAtEntry`); and `config`, `base` and
`step` agree with the last checkpoint (`CheckpointFollows`). For `LatestIsLast` the
greatest id must be the last one stored (`LastStored`). A run counts on from the
checkpoint it has loaded, so its ids grow, but for the input checkpoint, which is
stored with the step -1 and from which the next run would count from the start. It
does no harm if it is replaced before the run is over (`InputReplaced`), which takes
the first superstep to be applied (`EntryApplies`): hence the hypothesis
`EntrySafe`. `VersionsKept` follows from `LastStored`, since what is loaded is what
was stored last. For `StateRestored`, writing a checkpoint's value to an empty channel
must give that value back, which fails for a reducer value whose later operands are
refused (`ValuesRestorable`), and the pending writes that are replayed
before it must be of ephemeral channels that hold a value (`PendingApplied`), so that
restoring overwrites what the replay has done.

Model-checked only:

- `ReportSeesAll`, `TotalsAddUp` and `SuperstepItems` of `CodeReview`. It is one program
  with one input, its constants are the program's own, and TLC explores all of its
  runs, so that its check is complete. The provers could not evaluate the names of its
  channels, which are concatenated, nor the totals of its lists.
- Liveness under fairness: `Termination`, `InvokeReturns`, `AbandonedTaskEnds`,
  `ReviewCompletes`. It is out of the provers' reach, as is ENABLED. Of `Termination`,
  `RunsAreFinite` proves what does not depend on fairness: that no run goes on for ever.
- What a recursive definition computes for every input, beyond what
  `SmallestNumber` gives: no theorem of induction can be instantiated.

## 5. What the code does not keep

- `ResultIsFinal`: a run with more than 16 snapshots loses its last ones, and
  `invoke` returns the 16th as the result, without an error. The benchmark
  `linear_chain/20` does so.
- `OutputIsObject`: `read_stream_channels` gives the bare value of the channel when
  there is only one; the README's graph with the single channel `counter` is
  documented (lines 181-187) to return an object.
- `InvokeOkMeansDone`: a panic in a superstep with a single task is not reported.
- `LatestIsLast`: README line 201 has a run resumed by its thread id, but the saver
  is moved into the run and lost.
- `BarrierRestored`: a barrier refuses the list of names its checkpoint holds, and the
  error is dropped.
- `JoinCompiled`: `+` is allowed in names and separates them in names of joins.

`docs/doc/implementation_scope_runtime.md` line 41 says that `apply_writes` sends
empty updates to the available channels that were not updated and calls `finish()`
at the end. It does neither, and `PregelLoop` models what it does: a trigger channel
keeps its value for ever. Scheduling does not suffer, since the trigger index and the
versions decide (`NoTriggerLost`, `RefinesSuperstep`).

Four more follow from the same actions of `CheckpointedLoop`, in configurations that
are not kept, since nobody can yet resume a run without filling a saver by hand:

- With `Faulty = {"__start__"}`, `LatestIsLast` fails: the input checkpoint of a
  resumed run is stored with step -1 (`loops.rs` line 542). If the run ends in
  its first superstep, the next one counts from 0, and the ids of its
  checkpoints are smaller than those stored before.
- `JoinNotStranded` fails: `enter` discards the set of channels that the replay of
  pending writes has updated (`loops.rs` line 136), so a join can fill up without
  its target being triggered, and later arrivals report no change.
- The input checkpoint and the first loop checkpoint both have id 1
  (`checkpoint/mod.rs` line 106), so the saver holds one checkpoint after the
  first superstep, where a test comment speaks of two (`loops.rs` line 1640).
- For the same reason the parent of the first loop checkpoint is that checkpoint
  itself: `put` records the id of the configuration, which is that of the input
  checkpoint it replaces (`memory.rs` line 96).

## 6. Not modelled

- Mappers of nodes and of entries, `Passthrough` and `skip_none`: the compiler makes
  no writer and no node that has one. `EphemeralValue`'s guard, likewise.
- The empty `update` and `finish`: nobody calls them.
- The context value, managed values and state schemas, which have no behaviour of
  their own in this repository: what a node makes of its context is part of what it
  returns.
- Time stamps, `copy_checkpoint`, and the entry `__interrupt__` in `versions_seen`:
  nothing reads them.
- Wording of errors; numbers and strings beyond what tells them apart.
- The tests and the other benchmarks, which use the library in ways the models
  above contain.
- A checkpointer together with a stream: what the loop does to the saver and what it
  does to the queue touch no common state.

## 7. Plan

1. Done: the modules and theorems above. Every safety property a passing run checks is
   proved, but for those of `CodeReview`, and so is what the theorems assume of graphs.
2. When the repository gives the saver back to its caller, `Refill` and the two
   violated properties about resuming are to be looked at again.
