# Verification of the Nazh workflow engine

Nazh deploys a workflow (a DAG of nodes) as a set of Tokio tasks connected by
bounded channels, lends field-bus and network connections to its nodes, and is
operated from a desktop shell. This directory holds TLA+ models of those parts
of it that keep state, race, fail or decide; the TLC runs that check them on
small instances; and TLAPS proofs of what holds for every instance.

Paths are relative to `src/` of the repository. `PROJECT.json` relates each
definition to lines of the code (`map`), lists the hazards of the code with the
properties aimed at them (`hazards`), and for every property names a plausible
bug that the property finds (`mutants`; those operators stand in the modules,
before the definition they would replace, under a comment "Mutant: ...").

## 1. The system: inventory

| Part (path) | State it keeps | Operations | What makes it correct | Module |
|---|---|---|---|---|
| Payload store (`crates/core/src/data.rs`) | map id -> payload, remaining consumers | `write`, `read`, `read_mut`, `release` | a payload lives exactly as long as a consumer has not released it | `FanOut`, `DataPlane` |
| Node runners, channels (`crates/graph/src/runner.rs`) | a task and a bounded channel per node | receive, transform, fan-out, stop | a fan-out settles one claim per target, nobody waits for ever, a task outlives its feeders | `DataPlane` |
| Ingress, triggers, result stream (`types.rs`, `lifecycle.rs`) | senders, tokens, result receiver | `submit`, `emit`, `next_result`, `shutdown` | a publication cut short releases what was not sent | `DataPlane` |
| Deployment of a graph (`deploy.rs`, `topology/`, `pin_validator.rs`) | order, guards, tasks | validate, layer, `on_deploy` with roll-back, shutdown | cycles and only cycles refused; no task outlives its deployment | `GraphDeploy` |
| Pull path (`core/cache.rs`, `graph/pull/`) | output cache with TTL, memo per trace | write, pull, wait, clear | what is pulled fits the input; a wait ends | `DataPull` |
| Edge window (`edge_window.rs`, `emit_event` of `core/event.rs`) | counters per edge | record, drop, flush | sums add up, one alarm per window, also where the event stream is full | `EdgeWindow` |
| Workflow variables (`core/variables/`) | typed entry, watch channel, events, row | get, set, cas, reset, remove, subscribe, restore | entry, watchers and database agree | `WorkflowVariables` |
| Connection health (`connections/health.rs`, `manager/health_ops.rs`, `policy.rs`) | phase, counters, moments of retry, breaker, rate limit | success, failure, heartbeat, reset, reconcile | each fault counts once, isolation lasts its time and ends | `ConnectionHealth` |
| Connection pool (`manager/mod.rs`, `guard.rs`) and its users | records, leases, windows | acquire, drop, upsert, replace, idle | one holder per connection, no leak, lent again | `ConnectionLease` |
| Shared sessions (`manager/session.rs`, CAN, EtherCAT) | sessions, initializer locks | ensure, use, take, clean up | nobody uses a session nobody else can reach | `SharedSession` |
| CAN over SLCAN (`nodes-io/can/`) | frames, reader thread, shared receiver | send, receive, filter | frames survive the adapter, one reader each | `CanBus` |
| I/O nodes (`nodes-io/`) | the outcome on their guard | transform | the breaker hears of faults, and of faults only | `NodeIo` |
| Capability calls and reading back (`capability_call/`, `signal_decode/`) | template text, device registers, frame, image | resolve, encode, write, decode | what is written is what was asked for | `CapabilityCall` |
| Serial and signal listeners (`serial_trigger/`, `device_event_trigger/`, `mqtt_client/`) | buffer, pending signals, health reports | read, cut, emit, cancel | no byte lost, no event missed, a cancelled listener ends | `SerialListener`, `SignalListener` |
| Approvals (`nodes-io/human_loop/`) | pending slots | ask, respond, time out, clean up | one verdict, with a cause | `HumanLoop` |
| Flow and script nodes (`nodes-flow/`, `scripting/`) | budget, shared variable | evaluate, route | outputs reach a pin; a failure is caught | `FlowNodes`, `StateMachine` |
| Workflow compiler (`dsl-compiler/`) | none | check, build | the machine that runs is the specification | `DslCompiler` |
| Dispatch router (`src-tauri/src/runtime.rs`) | lane, retries, dead letters | enqueue, deliver, bury | nothing accepted vanishes | `DispatchRouter` |
| Deploy, undeploy, select (`commands/workflow_*.rs`) | deployed workflows, active id | three commands at once | the active id names a deployed workflow | `DesktopDeploy` |
| Session file, crash marker (`deployment_session.rs`, `session_marker.rs`) | files | load, save, start, crash | what was saved is read; an anomaly is reported | `AppSession` |
| Asset library, confirmed writes (`asset_files/`, `commands/devices/`, `commands/copilot.rs`) | latest, versions, snapshots, tokens | save, delete, roll back, bind, confirm | no text lost, no token used twice | `AssetLibrary` |
| Observability, batch writer (`observability/`, `crates/store/src/batch.rs`) | spans, queue, buffer, table | record, flush, shut down | every record written or counted as lost | `Telemetry` |
| AI client, ESI import, TypeScript bindings, web front end | no state of the engine | I/O, generated code | - | section 8 |

How they interact. Deploying resolves the connection definitions and gives them
to the pool (`replace_connections` when nothing runs, `upsert_connections`
otherwise), creates the store, the channels and the variables, runs `on_deploy`
of every node (which starts the loops of triggers and listeners) and spawns the
runners. The dispatch router submits payloads through the ingress; runners pass
references to payloads from channel to channel, pull Data inputs from the cache
before a transform, and sum up what they send in edge windows; nodes and loops
borrow connections or share a session. Variables, edges and nodes emit events
through one proxy task; a recorder hands them to the batch writer. Undeploying
drops the ingress, cancels the loops and waits for them; the runners end by the
cascade of closed channels.

The hard behaviours: fan-outs cut off midway; payloads released by several
tasks; everybody waiting on bounded channels; look-ups whose result is used
after the lock was given up; health reports of several tasks on one record;
cooling-off periods restarted by those who wait for them; loops stopped while
others use their connection; factories that overlap; timers racing with
answers; events published after the unlock; files read, changed and written
without a lock and cut short by a crash; codecs at their limits.

## 2. Plan and order of the work

Written in this order: the data plane with its abstract ledger and proofs; the
connection pool with its proofs; shared sessions; the pull path, variables,
approvals and the lane; the desktop commands and files; the writer and the
windows; the CAN bus, the I/O nodes, graph deployment; the state machine and the
compiler; capability calls, flow nodes, listeners, the asset library; proofs
about windows, files and sessions; proofs of the refinement, of the breaker, and
of approvals, variables, the pull path and the lane; proofs of the desktop
commands, of graph deployment, of the I/O nodes, the script nodes and the CAN bus;
proofs that the asset library keeps texts, that the records of a trace add up and
that serial frames are the bytes received; proofs of the signal listeners, of
the snapshots, texts and tokens of the asset library, of the capability calls, and
of the compiler with its machine.

What a next step would add, most important first:

- the composition of `DispatchRouter` with `DataPlane` at the roots (now the
  roots of the lane open and close freely), and of `GraphDeploy` with
  `ConnectionLease` at `on_deploy`;
- chains of pure nodes, subgraphs, the alert engine of the observability.

## 3. The modules

### FanOut and DataPlane

`FanOut` knows payloads, the claims receivers have on them, and which payloads
are held. A payload is published for a non-empty set of receivers, each claim is
settled once, and the payload is held exactly as long as a claim is open.

`DataPlane` is the code: `store` is the map of `ArenaDataStore` reduced to its
counters; `queue` and `open` are the mpsc channels, the result channel `Sink`
among them; `pc`, `cur`, `pend` and `todo` are the positions of the tasks in
`run_node`, `NodeHandle::emit` and `WorkflowIngress::submit`. `leaked` is a
history variable: references that vanished with a receiver or an aborted task
without a `release`. A reference is a pair of payload and edge. Actions and code:

| Action | Code |
|---|---|
| `Submit`, `ClientSendClosed` | `WorkflowIngress::submit`, `submit_to`, and their release of the rest on failure |
| `Emit`, `TriggerSendClosed` | `NodeHandle::emit`, which skips a closed target and goes on |
| `Receive` | `recv`, `read_mut`, `release` at the head of the loop of `run_node` |
| `TransformFails`, `TransformReturns` | `pull_data_inputs` and `guarded_execute` |
| `WriteOutput`, `CacheOnly` | `store.write` for the matched targets, or for the result stream; `output_is_data_only` |
| `SendOk`, `TrySendFull`, `DropChecked`, `NodeSendClosed` | the two backpressure branches; the `is_closed` test is a step of its own because the receiver may go away after the full `try_send` |
| `InputsClosed` | `recv` returns `None` |
| `Consume`, `CloseSink`, `StopClient`, `StopTrigger` | `next_result`, and the parts of `shutdown` |

Targets are served in the order of the edge list; the roots of a submission in
any order, because `root_senders` is a `HashMap`. The result of a transform is
free: any number of outputs up to `MaxOutputs`, each to all targets or to those
of some source ports. This covers every flow node; which outputs a node does
produce is the subject of `FlowNodes`. A pure-form node has no task and its
receiver is dropped at deployment, as in `deploy.rs`.

### ConnectionHealth and ConnectionLease

`ConnectionHealth` has one operator per transition of a health record:
`Reconcile` (`reconcile_timed_state`, in its four checks), `Failed`
(`apply_runtime_failure`), `Succeeded`, `Beaten` (heartbeat), `Disconnected`,
`Invalidated`, `Reset`, `Idled`, `Borrowed`, `Throttled`, `Released`
(`finalize_release`). Time is discrete and relative: a moment in the future is
the number of ticks left, 0 when it has passed, `None` when it is not set. The
two counters of failures are always equal in the code and kept as one, capped at
the threshold: from there on the breaker opens and the wait is `OpenTime`,
whatever its value.

`ConnectionLease` is the pool with its users:

- `table` leads from connection ids to records, `rec` holds the records (those
  replaced while somebody still uses them included), `window` the attempts.
- `Lookup` and `Borrow`/`Refused` are `acquire`. The look-up under the lock of
  the map and the use under the lock of the record are two steps, because the
  code gives up the first lock before it takes the second.
- `Succeed`, `Fail`, `Abandon` are the ends of an operation of a caller or a
  poll; each includes the drop of the guard.
- `ReportFailure` is the poller's report of a failed or refused turn.
- `Connected`, `Heartbeat`, `Broken`, `GiveUp`, `Cancelled`, `MarkDisconnected`
  follow a listener through its loop; `Checked`, `WrongKind`, `MarkInvalid` are
  the check in `on_deploy` of a serial trigger.
- `Upsert`, `Replace`, `MarkAllIdle`, `ResetCircuit`, `Inspect` are what the
  deployer, the operator and the user interface call.
- `Tick` lets one unit of time pass; `DeviceFails` and `DeviceReturns` move the
  device.

Abstractions, all deliberate: a user waits only where the code waits, so no tick
passes between two calls of the pool that follow each other directly, although
others may act there. The windows are emptied together with the upsert. One
definition is upserted or replaced at a time. A record nobody refers to is reset
to a new one, since nothing can see it. The definition is always valid at
`acquire`, because it is validated when it is inserted. A poller keeps tokio's
schedule of bursts: `turn` is the time to its next turn and negative when it is
late, by at most `MaxLag`. `faults` and `quiet` are history variables: what the
users saw of the device, whatever they reported to the pool.

`NodeIo` is the other view of the same health record (it instantiates
`ConnectionHealth`): every way out of the transform of each kind of I/O node,
taken as one step, with the mark it leaves on its guard or the report it makes
to the manager. It asks what a run of faults does to the breaker. Nodes that borrow
their connection (`Lending`) are refused while the circuit is open (`Refused`). The
CAN and EtherCAT nodes borrow nothing: they share a session (`ioSession`), opened by
the first that needs it (`RunSession`, `DeploySession`), whatever the circuit says;
an open bus is a success and clears counter and circuit, a fault closes the session,
and so does the clean-up of any of the nodes (`UndeploySession`).

### The other parts of a running workflow

- `SharedSession`: `cached`, `busOpen`, `evicted`, the initializer locks, and per
  user the step of `ensure_shared_session` it is in (fast path, lock created on
  demand, second look, factory, insertion, removal of the lock). Both protocols:
  with CAN the handle is used without the lock of the session, with EtherCAT the
  lock is held during the transfer. Clean-up by a failing node and by a
  lifecycle guard.
- `DataPull`: one consumer task after the other through its Data edges:
  `ReadCache`, the empty policies, `SubscribeCache`/`CacheChanged`/
  `BlockTimesOut` of `BlockUntilReady`, `ReadMemo`, `PureReturns`, and the three
  ends of a loop body, of which only one clears the memo. A payload is the cache
  value it was computed from.
- `WorkflowVariables`: one variable. A write is two steps (entry and watch
  channel under the lock, event after it; a removal tells the watchers with the
  event); the event goes through the bounded channel, the proxy that serves two
  channels in turn, and the forwarder into the row; an undeployment aborts the
  forwarders; a deployment restores. `watch` is what each watcher knows: `Tell`
  reaches those who have subscribed and nobody else, as `watch::Sender::send` stores
  nothing without a receiver; who subscribes later reads the variable itself.
- `HumanLoop`: the registry of slots, a node that polls first the receiver and
  then the timer, an operator whose `respond` is two steps (remove, send),
  undeployment and redeployment of the same workflow id.
- `EdgeWindow`: the counters of one window, the clock reduced to "100 ms are
  over", and the event stream that summaries and alarms are put into with
  `try_send` while others fill and empty it. The histories `totals`, `alarms` and
  `drops` tell the events that arrived from those the full stream dropped; the
  window starts again in either case.
- `DispatchRouter`: `dispatch_payload` looks the router up in the map and
  submits with the map unlocked, so undeployment (out of the map, then the lane
  aborted) may come between; `enqueue_async` under both policies, the lane with
  its retries and back-offs, dead letters; the count of the depth is a step
  apart from the send it belongs to.
- `Telemetry`: recorder, channel, buffer and flush task of the batch writer
  (`biased` select: receiving comes first), shutdown and drop, the summary of a
  trace from the newest `QueryLimit` rows, of which audits count against the
  limit and are never applied.
- `GraphDeploy`: both topologies by Kahn's loop step by step, pin checks, edge
  classification, `on_deploy` with roll-back, background tasks beside it,
  shutdown with time-outs.

### Devices

- `CanBus`: a line is its letter, identifier, length digit and number of
  characters; `EncodeSlcan`/`DecodeSlcan` work on these; readers queue at the
  shared receiver.
- `CapabilityCall`: a byte is a digit below `Base`; templates are resolved place
  by place; encoders for Modbus registers, CAN windows, the EtherCAT image; the
  decoders of `device_signal_read`. Reading and writing the image are two steps
  under the lock of the bus. One Modbus address has several slaves (`Units`): the
  writer takes `unit_id` of the metadata (`unit` of a call), the readers `unit`
  (`reader`).
- `SerialListener`: the two loops that cut a byte stream into frames, by
  delimiter, idle gap and maximal length, with cancellation and broken lines.
  A delimiter is the text of the metadata, characters by their codes; the two
  loops decode it differently (every escape for the trigger, `\n` and `\r\n`
  alone for the event listener). Delimiters spelt in hexadecimal are left out.
- `SignalListener`: the MQTT, CAN and Modbus listeners signal by signal. A client
  of MQTT takes `RequestCap` requests before somebody polls its loop; with more
  topics the listener waits for ever (`blocked`).
- `FlowNodes`: a script is a sequence of abstract operations run against the
  budget, several instances over one shared variable; then the node's own
  transform routes the result.
- `StateMachine`: reading the state variable, choosing the transition, writing
  the state back are three steps, since the user interface may write between
  any two.

### Desktop

- `DslCompiler` extends `StateMachine`: the validation passes in their order,
  the safety rules (reachability, dead ends, cycles in the order of a hash map,
  ranges, conflicting actions), the graph that is built, and that machine
  started and run.
- `DesktopDeploy`: each command is a task with locals that takes the lock of the
  map and the lock of the active id several times, never both; connection
  definitions, loans and sessions of the manager as sets.
- `AppSession`: start, end, panic and kill of the application with marker and
  crash report; the session file, truncated and written in two steps.
- `AssetLibrary`: a command is a plan of file operations, each of which may
  fail; the editors interleave between them; a restart abandons what runs;
  tokens of pending writes age and are confirmed or cancelled. The module is
  about one file stem: two ids with the same sanitised stem share their files
  (ids without ASCII characters all become `asset`). A text carries an id, which a
  patch may change (`Renamed`) and by which the detail looks up the version; and
  the asset whose name this one's begins with may be deleted (`DeletePrefixPlan`),
  which takes the version files of this one.

`MCRuntime`, `MCDevices` and `MCDesktop` put modules that share no variable side
by side: each behaviour chooses one part at the start and runs it alone, so that
a state graph is the sum and not the product of its parts. They give the
constants, bound the parts, and state the fairness and the liveness of each.

## 4. The runs and what they show

| Run | Question | Properties |
|---|---|---|
| `DataPlaneFan` | may a fan-out be cut off anywhere? client -> a -> {b, c}, channels of capacity 1, every task may fail, two outputs per transform, undeployment at any moment | `TypeOK`, `QueuedRefReadable`, `RefsAccounted`, `RunnersAlive`, `ImplementsFanOut` |
| `DataPlaneDropNewest` | the same graph with a DropNewest edge a -> b, a Data output and a trigger on a, not undeployed; no deadlock. If the transform of b hangs for ever, does the rest go on? | `RefsAccounted`, `ImplementsFanOut`, `StallsIsolated` |
| `DataPlaneLive` | a trigger and a client press on one chain: under fairness, does every fan-out end, do the tasks end after the sources, does the store drain? | `FanOutsEnd`, `CascadeStops`, `DrainsToEmpty` |
| `LeaseCallers` | two callers, an operator who resets: leases and breaker | `ExclusiveLease`, `InUseIsHeld`, `BreakerCountsFaults`, `RetryEnds`, `BreakerIsolates` |
| `LeaseAdmin` | a listener while definitions come and go, connections are idled, breakers reset, the loop stopped or rejected | `TypeOK`, `PhaseEnds` |
| `LeaseLive` | a caller, a poller and a listener: is a healthy connection lent again and again? | `LentAgain` |
| `Runtime` | the parts of a running workflow beside its channels | `PullSound`, `VariablesSound`, `ApprovalsSound`, `LaneSound`, `WindowSound`, `RecordsSound`, `OutcomesSound`, `RuntimeAnswers` |
| `Devices` | sessions, buses, deployment, capability calls, scripts, listeners | `SessionSound`, `CanSound`, `DeploySound`, `CallsSound`, `FlowSound`, `SerialSound`, `SignalSound`, `DevicesAnswer` |
| `Desktop` | commands that overlap, files over crashes, the compiler and its machine, editors of one asset | `ShellSound`, `SessionFilesSound`, `CompilerSound`, `AssetsSound`, `WorkKept` |
| `DataPlaneDropUndeploy`, `LeaseStop`, `UnconditionalCycle` | three errors of the code, section 6 | one each, violated |

The properties named `...Sound` are conjunctions; each conjunct is a definition
of its own at the end of its module, with a comment that says what it is about.
The most telling ones:

- `StallsIsolated`: the transform of a node behind a DropNewest edge may never
  return, its channel stay full, and a trigger wait on it: every fan-out that a node
  or a caller has begun still ends. Triggers are left out because `NodeHandle::emit`
  waits on such an edge (section 6).
- `PureMatchesInput`: with a memo shared by all consumers of a trace and a cache
  rewritten between two pulls, a consumer is never given what was computed from
  somebody else's input; `MemoOnlyLeaksUnfinished`: which entries stay behind.
- `WatchFollowsEntry`, `DatabaseCatchesUp`: a watcher, whenever it subscribes,
  misses no change and sees none out of order; the order of writes survives three
  hops unless an event is dropped, aborted or overtaken after the unlock.
- `NextAlarmTellsTheRest`: the counter the next alarm will send is the number of
  drops that no alarm has spoken of and no flush has forgotten, those of earlier
  windows without traffic included. `SummariesAddUp` counts the messages of
  summaries that were dropped by a full event stream apart.
- `ToldFaultsOpenCircuit`: as many faults as the threshold, met by whatever nodes
  that tell of them, in any order with nodes that tell of nothing, and the next node
  that borrows is refused; unless a bus was opened in between.
- `VerdictHasCause`: an approval that times out while an answer arrives ends in
  the one or the other, never in the opposite of the answer.
- `NoSilentLoss`: an envelope whose command was told Ok is queued, in hand,
  delivered to every root or a dead letter. `DepthCoversQueue`: the depth may
  overstate and never understates.
- `RecordsAccounted`, `FailureShows`: a record is in one place or counted lost;
  no later event hides a failure until `QueryLimit` newer records have pushed it
  out of the query.
- `NoOrphanSession`, `CachedSessionUsable`: although two factories may run at a
  time, nobody uses a session the others cannot reach.
- `EchoIsTheFrame`, `ReadsBackWritten`, `FrameCarriesValue`, `WindowsSurvive`:
  what the encoders write is what the decoders read, over all widths, orders and
  offsets of the instance, and neighbours in the EtherCAT image are not lost. A
  register reads back if the connection names the same slave for writer and readers;
  if it does not, the readers see what another slave has held all along.
- `FramesAreTheBytes`, `FramesAreWholeLines`: no byte is lost, doubled or moved
  however a delimiter is spread over the reads.
- `CompiledRunsTheSpec`, `WarningsAreTrue`: the machine that runs does what the
  specification says, and what the report calls unreachable or dead is so.
- `SnapshotsHaveFiles`, `DetailIsItsVersion`: where no commands overlapped, every
  snapshot has its version file, unless a deletion stopped half-way or was that of
  the asset whose name this one's begins with; and the number the detail shows is
  that of the text it shows, as long as the text carries the id of the asset.
- `HistoryKept`, `RollbackKeepsWork`: no command overwrites a version file, and
  a rollback saves what it replaces, whichever file operation has failed before.
- `RuntimeAnswers`, `DevicesAnswer`: each part comes to its end (a pull, the way
  of an event, a timed approval, a retry, a record; a session, a receive, a
  deployment, a call, a script, a listener that was cancelled).

### Bounds and why they are enough

- `Data` is a pool of identities, taken in order. A source publishes only while
  more than `Reserve` identities are free, so that a node never waits for an
  identity where the code would not wait.
- Channels have capacity 1: full and empty are both one step away, and a larger
  buffer only delays what capacity 1 shows at once. `MaxOutputs` is 2 in
  `DataPlaneFan`, where the order of outputs matters, and 1 elsewhere; two targets
  show every partial fan-out.
- The breaker has a threshold of 2 (3 for `NodeIo`, which asks about runs of
  faults of different nodes) and times of 1 or 2 ticks, so that "before", "at"
  and "after" each moment occur; an operation may last longer than `OpTimeout`
  (`MaxHold` 2 against 1). `Obj` has one record per connection, one for a user
  that holds a replaced one, and one to replace it again. `LeaseAdmin` has a
  threshold of 1 and one listener because its question is about one record; two
  holders are the question of the other lease runs.
- `Runtime`: two consumers of one trace, one of them with a pure and a cached
  edge; two writers of a variable (a node and a command) with three values of
  two types, channels of capacity 1, and one watcher (`Watchers`) that subscribes and
  leaves again and again (watchers do not act on each other); two deployments of one workflow and two
  approvals; two envelopes, two roots, two retries; an edge of capacity 2 and
  six offers (`OfferBound`), enough for a full window and a young one, with an event
  stream of 1 (`StreamCap`), so that it is full or has room at each event; two
  stages and four records (`RecordBound`) over a buffer and a channel of 2 and a
  query of 3 (`QueryLimit`), so that one record may push another out.
- `Devices`: a node, a listener and a guard on one session, with one identity
  more than there are holders; two CAN readers with different filters and two
  lines (`CanLines`) out of valid, short, remote and overlong ones; three nodes
  (trigger, middle, pure) with the sets of edges between them; a byte has 4
  values (`Base`), so that values of one, two and four bytes, negative ones and
  those out of range all occur; two slaves (`Units`), equal and different for writer
  and reader; a budget of 4 operations and 3 rounds of a
  loop; delimiters of 0, 1 and 2 bytes, escaped and plain, over reads of 1 to 3 (`MaxReceived`, and
  `MaxOpens` for reconnecting); two messages (`MaxMessages`) over four signals
  that share a payload, and `RequestCap` 4 for the ten requests of the code, so that
  four topics fit and five do not.
- `Desktop`: two commands on two workflows, three deployments (`DeployBound`);
  three processes; some thousand specifications over two or three states (every
  graph of up to three transitions, every combination of conflicting actions of
  a list); two editors, three commands (`MaxCommands`), one failure
  (`MaxFaults`), and two snapshots (`MaxSnapshots`) for the twenty of the code; one
  asset and the id of one other (`Asset`, `Others`), whose greatest version is 1
  (`ForeignVersion`). The commands of a behaviour are of one of four
  menus, in which operations on the same files meet.

`CHECK_DEADLOCK FALSE` is set where the system may stop: a workflow that is
undeployed, parts that come to their end, and the runs that look for one
violation. `DataPlaneDropNewest` and the lease runs keep the check.

## 5. Fairness

`DataPlane!Fairness`: Tokio runs every task that can go on, and mpsc gives free
capacity to waiting senders first come first served, so a sender that can go on
again and again does (strong fairness of a node's step and of the sending of a
trigger or client). Transforms end: `guarded_execute` applies the timeout of the
node. Results are consumed, as the shell does in its drain loop. Nobody has to
submit, emit or undeploy. `DataPlane!StallSpec` assumes less, for a workflow that
runs: a node that others reach over DropNewest edges only (`BehindDrops`) has no
time-out (it is optional), so its transform may hang for ever, though its task goes
on otherwise; and no trigger has to go on.

`ConnectionLease!PromptSpec`: a user that has begun goes on (weak fairness of
`Proceed`), loops take their turn (weak fairness of `Lookup` for pollers and
listeners, not for callers), time passes (strong fairness of ticks, because a
tick has to wait until nobody is between two calls). A loop whose pause is over
wakes before the next tick: timers of tokio fire when they are due, and a tick
stands for many milliseconds. `Abandon`, `Heartbeat`, administration and the
device are never forced.

`MCRuntime!MCFairness` and `MCDevices!MCFairness`: weak fairness of the tasks of
a part (a pull, the proxy, the forwarders, the approval node, the lane, the
flush task, a CAN reader, a deployment, a call, a script, a listener) and of
their timers. Strong fairness in two places: of the variable branch of the
proxy, since `tokio::select!` picks at random among the branches that are
ready; and of the users of a shared session, since tokio's mutexes are first
come first served. Operators, undeployments, cancellations, peers and producers
of messages are never forced.

## 6. Where the code disagrees with what is said of it

Three are runs with a violated property; the quotes are in `PROJECT.json`.

1. `DataPlaneDropUndeploy`: `try_send` finds a DropNewest channel full, one
   reference is released, the receiver goes away, `is_closed` is true, and the
   error path releases the rest, the dropped one included. Another target of
   the same payload finds it gone. While results are consumed this cannot
   happen (theorem `RunningCounts`).
2. `LeaseStop`: a stopped listener drops its guard and then marks the
   connection disconnected, which clears `in_use` under the next holder.
3. `UnconditionalCycle`: the depth-first search for cycles keeps one set of
   visited states, so a cycle of transitions that always hold is not found when
   a conditional transition leads into it first; whether the compiler refuses
   the specification depends on the order of a hash map.

Three more have a configuration beside the runs (`tlc -config <it>` finds the
violation):

4. `DataPlanePull.cfg` (`MCDataPlane`): a Reactive edge into the Data input of a
   pure-form node passes validation (`pin.rs:66`), but the receiver of that node
   was dropped at deployment. The first push finds a closed channel and ends the
   upstream task.
5. `LeaseSlowListener.cfg` (`MCConnectionLease`): a listener that held its guard
   longer than `operation_timeout_ms` (every long-lived one) reports its broken
   session, and the drop of the guard counts the same fault again as a timeout
   (against `connections/src/tests.rs:234`).
6. `LeaseTwoPollers.cfg`: while the breaker is open two pollers report their
   refusals as failures in turn, each of which restarts the cooling-off: the
   breaker never closes although the device answers (against `health.rs:219`).

Others are stated as definitions of the modules, next to what does hold, and are
in no run; put as an `INVARIANT` (or `PROPERTY`) into the configuration of the
part, TLC finds each violated:

| Definition | Said | The code |
|---|---|---|
| `HumanLoop!DefaultOnlyOnTimeout` | the default action is for timeouts (`config.rs:7`) | an undeployment drops the slots, which a node with `autoApprove` takes as approval |
| `Telemetry!DropDrains` | dropping the writer drains it (`batch.rs:89`) | `Drop` aborts the flush task |
| `WorkflowVariables!RestoresLastValue` | a variable comes back with its last value (ADR-0022) | undeploying aborts the forwarder with writes in flight |
| `SharedSession!FactorySerial` | factories run one at a time (`session.rs:88`) | the lock is removed after a success, so newcomers make a new one |
| `EdgeWindow!AlarmTellsAllDrops` | drops since the last report (core `event.rs:101`) | the count restarts with each flush, alarm or not |
| `NodeIo!FaultsOpenCircuit` | a guard counts as failed unless told otherwise (`guard.rs:12`) | an unmarked guard counts neither way, and some nodes never mark |
| `StateMachine!ActionsNeedTransition` | actions run on a transition (`state_machine.rs:3`) | a message without a match is broadcast to all action ports |
| `AppSession!PanicReportMeansCrash` | the last session crashed (`session_marker.rs:19`) | the hook also writes for panics that are caught |
| `DesktopDeploy!DefinitionsAreInstalled` | the pool is replaced (`manager/mod.rs:170`) | it is left alone, with Ok, while any connection is lent |
| `AssetLibrary!ConfirmedWritesWhereAsked` | the confirmed write is the one asked for (`copilot.rs:97`) | it passes no workspace, so it goes to the default one |

Seen while modelling, and described by the comments of the modules where they
limit a property:

- Pool: a redeployment between look-up and use lends the old and the new record
  of one connection at once; `mark_all_idle` clears the mark of lent
  connections; one deployment empties the attempt windows of all connections; a
  report by a refused poller shortens the isolation; `NodeHandle::emit` ignores
  DropNewest and waits. A CAN or EtherCAT bus that opens and then fails at its first
  use, again and again, never opens the circuit, because each opening is reported as
  a success (`can/session.rs:218`, `ethercat/session.rs:228`); nor would an open
  circuit keep a node off a bus whose session is cached.
- Events: `emit_event` drops what a full stream has no room for
  (`core/event.rs:251`), while the window of the edge starts again and keeps the flag
  of its alarm, so a summary or an alarm is lost for good, and with it the drops it
  spoke of. The watch channel of a variable stores nothing while nobody has
  subscribed (`variables/mod.rs:217`, `types.rs:70`), so a new receiver borrows an
  older value than the variable has.
- Deployment: two first deployments both replace the pool; an undeployment that
  overlaps leaves the active id stale; definitions that were upserted stay when
  the deployment fails; guards of a failed deployment are dropped in order, not
  in reverse (`deploy.rs:19`).
- Files: commands that overlap lose an update of the session file, and a crash
  between truncating and writing leaves it torn; two editors of one asset
  compute the same next version; a deletion that stops half-way leaves snapshot
  entries without files; a failed rollback leaves its protection snapshot.
  `patch_device_field` may change `/id`, which nothing compares with the file: the
  detail then shows the version of the other asset (`fields.rs:50`,
  `assets.rs:165`). A deletion removes every version file whose name begins with the
  asset's name and `.v`: deleting `pump` takes the versions of `pump.valve`
  (`io.rs:364`), so that its snapshots have no file and a rollback to them fails.
- Listeners: with more than ten topics the MQTT event listener waits for ever in
  `subscribe`, on requests that only itself would take from the client
  (`mqtt_loop.rs:42`, `:269-282`); it keeps its lease and hears no cancellation. The
  CAN event listener gives up for good after one stream error;
  the serial event listener has no bound on its buffer; a cancellation during
  the MQTT handshake counts as a failure.
- CAN: an extended frame without data cannot be decoded (`slcan.rs:345`); a
  frame a reader filters out is lost to the others.
- Codecs: multi-word values written low word first do not read back; a bool is
  encoded as one byte and decoded from two. A capability call writes to the slave
  `unit_id` of the connection (`executor.rs:49`), the readers read from `unit`, 1
  when there is none (`reader_modbus.rs:67`): unless both are given and equal, what
  was written is looked for in another device.
- Lane: the depth of a rejecting lane drifts upwards; a retry repeats roots that
  have already got the payload.
- Scripts: `vars.set` of a script that fails afterwards stays; tryCatch passes
  on the payload as the failed script left it.

## 7. What is proved

`DataPlaneProofs`, for every graph, buffer size, pool and bound
(`DataPlaneAssumption`: finitely many edges with integer positions, one result
edge per node, disjoint kinds of processes):

- `TypeCorrect`: `Spec => []TypeOK`. Needs `DispatchInv` (a node in a dispatch
  has an output to dispatch), or `todo` could become negative.
- `BlockCounts`, `BlockReadable`: with `DropEdge = {}`, `[]RefsAccounted` and
  `[]QueuedRefReadable`, undeployment included. The count of a payload is a
  cardinality, so the invariant must say that no reference is in two places at
  once: `PlaceInv` (queues hold distinct references of their own channel;
  queues, the pending targets of processes and `leaked` are pairwise disjoint;
  no two processes fan out the same payload). `CountInv` is
  `TypeInv /\ PlaceInv /\ RefsAccounted`; that edges never drop is
  `NeverDrops`.
- `NodesStayAlive`: with `Pure = {}`, `[]RunnersAlive`, from `AliveInv` (a
  closed channel belongs to a stopped task).
- `RunningCounts`: with `Pure = {}` and for every policy, the counts are right
  as long as results are consumed. `AliveInv` gives `DropsInTime`: the receiver
  of a reference that was just dropped is still there, so nothing is released
  twice.
- `BlockImplements`, `RunningImplements`: the refinement `ImplementsFanOut`, with
  `DropEdge = {}` for every behaviour, undeployment included, and with
  `Pure = {}` for every policy as long as the workflow is not undeployed
  (`RunningSpec`). Each action is shown to publish a payload for the targets of
  its source, to settle one claim, or to leave the ledger alone; the invariants
  above say that no claim is settled twice.

`ConnectionLeaseProofs`, for any users, connections, limits and times
(`ConnectionHealthAssumption`, `ConnectionLeaseAssumption`: positive limits,
each user has a connection, disjoint kinds of users):

- One lemma per transition of a health record: it yields a record, and leaves
  the mark `inUse` alone, sets it or clears it.
- `LeaseTypes`, `PhasesEnd`: `[]TypeOK` and `[]PhaseEnds` without any hypothesis.
- `NoLeak`: `[]InUseIsHeld` under `Gentle` (definitions may be upserted and
  replaced, breakers reset, but no loop is stopped, no configuration rejected,
  no pool idled - each of these clears marks from outside; the run `LeaseStop`
  shows what the first does). `LeaseInv` adds to it that users know the
  record they go for (`Known`) and that no record has two guards (`OneGuard`):
  a drop clears the mark, which is right only if there was one holder.
- `Exclusive`: `[]ExclusiveLease` under `Calm` (nobody but the users and a
  resetting operator). It needs `Placed`: who goes for a record goes for the one
  its connection leads to. A redeployment between look-up and use breaks
  exactly this.
- `RetriesEnd`: `[]RetryEnds` under `Gentle`.
- `BreakerCounts`: `[]BreakerCountsFaults` under `Gentle` with callers only.
- `Isolates`: `BreakerIsolates` under `Direct` (`Gentle`, no poller, and
  listeners only where records stay in place). Every step but a tick is booked
  (`Booked`): counter, circuit, `faults` and `quiet` stay, or a fault is counted on
  both sides, or both are cleared; a listener's failure may be counted twice by
  the record (`Overbooked`). Hence `Cooling`: a record with `Threshold` faults has
  been left alone for `OpenTime`, or its circuit is open for the rest of it.
  A poller is excluded because it reports a refused `acquire` as a failure of
  the device, so that the counter no longer follows what the device did.

`SharedSessionProofs`, for any nodes, listeners, guards and identities, for both
protocols (`SharedSessionAssumption`: positive identities, disjoint kinds of
users): `SessionsAreSound`, `[]SessionSound`. Neither half is inductive:
`SessionInv` adds what each step of a user implies about the session in its
hand (none; the cached one or an evicted one; an evicted one; a new one nobody
else has, `Private`), that the cached session is never an evicted one, and that
an evicted one is still in somebody's hand. A session that was just built is
private although a second factory may run at the same time, because identities
are taken only while free; that it is inserted only if the cache is still empty
keeps it from being lost.

`EdgeWindowProofs`, for every capacity of the edge and of the event stream, every
policy and bound: `WindowsAreRight`, `[]WindowSound`. `EdgeInv` adds that the flag
`reported` of a window is its number of alarms, those that arrived and those that
were dropped, and that a runner that has ended left an empty window. Nothing is
assumed of who else fills or empties the stream.

`RuntimeProofs`, for six parts of a running workflow that share no state:

- `ApprovalsAreSound`, `[]ApprovalsSound` for any instances, ids and lengths of
  the queue. `AskInv`: the sender of an approval is in one place only and has
  sent nothing yet (`OneSender`), so an approval is answered at most once; a task
  waits for an approval of its own that has not ended (`Asked`); a task that is
  about to time out is past its time (`Expiring`); who was told Ok has left the
  answer with the receiver (`Told`).
- `VariablesAreSound`, `[]VariablesSound` for any writers, watchers, channels and
  values. `WatchInv` adds to `WatchFollowsEntry` that who is about to tell of a
  removal has taken the entry out, and that nobody watches what is not deployed;
  `TellOk` and `WriteTells` say that a change reaches whoever has subscribed, and
  only them. `DatabaseCatchesUp` is not inductive: `YoungestIsSeen`
  says that the last change still on one of the three hops is the last one made
  (`change`), and
  `OneEmits` that as long as nothing was overtaken at most one writer is between
  its write and its event. `WorkflowVariablesAssumption` sets the marks of the
  model (no value, no row, ...) apart from the values.
- `PullIsSound`, `[]PullSound` for any consumers, edges, traces and times. The
  two properties need only types and `MemoRight`: an entry of the memo holds the
  result of the input it is found by.
- `LaneIsSound`, `[]LaneSound` for any commands, roots and policies
  (`DispatchAssumption`: a policy has four natural numbers and a strategy, which
  `from_input` brings into its bounds). An envelope is in one place (`OnePlace`);
  what was acknowledged is somewhere (`Kept`); a delivered envelope has been to
  every root (`Visited`); `Depths`: with a blocking lane the depth is the number
  of queued envelopes and of those between count and channel, with a rejecting
  one not less than that; `Backoffs`: one wait per attempt, each as the policy
  says; `Letters`: the dead letters are as many as the envelopes given up.
- `OutcomesAreSound`, `[]OutcomesSound` for any threshold and open time that are
  not 0 (`NodeIoAssumption`). `StreakIsBooked`: a run of faults met by nodes that
  tell of them is booked on the record fault by fault, so that the circuit is
  open, and its time running, when the run reaches the threshold. A run is over when
  a bus is opened, which clears the record on both sides. It rests on one lemma per transition of `ConnectionHealth` (`IoFailed`, `IoSucceeded`,
  `IoReconciled`, ...) and on `TransformsAreHonest`, which goes through all ways
  out of all transforms.

- `RecordsAreSound`, `[]RecordsSound` for any stages, capacities and limits
  (`TelemetryAssumption`). `RecordPlaces`: the numbers in the channel, in the
  buffer, in the table and of the lost records are apart, none is there twice, and
  together they are all there are; the sum of `RecordsAccounted` is its
  cardinality. The status of a trace is computed by recursion over the events;
  `Verdict` is its closed form, `VerdictStep` shows that it obeys the recursion, and
  `StatusIsVerdict` that nothing else does: a set of least cardinality on which the
  two differ would be one on which they agree without its oldest event.

`DesktopProofs`, for any workflows, commands and deployments: `ShellIsSound`,
`[]ShellSound`. Between the steps of a command the active id may be that of a
workflow which is being replaced: `ActiveWhileDeploying` says that it is deployed
or coming back (`Coming`), and that nothing is active only if nothing is deployed
or a command is about to activate what it deployed; `ActiveWhileUndeploying`
follows the undeployment through its steps, each of which locks anew.
`DeployHasDefinition`: a deployment replaces all definitions only while nothing
is deployed. That commands did not overlap is a hypothesis of the property
itself: the two flags of the model record it, and the code does not exclude it.

`WorkIsKept`, in the same module: `WorkKept` for any editors and projects
(`AssetAssumption`: the kinds are the three the code has, and the list of snapshots
may hold one, 20 in the code). Each command is a
plan of file operations, and `AssetInv` says what is left of it: a version is
written right after the latest file, for which a number was taken
(`WellOrdered`), and a rollback goes through its eleven stages in order
(`InRollback`). While a command is alone on its files its number is free
(`NumberIsFree`: it is one more than the greatest, and the numbers of an asset are
bounded, so there is a greatest), and the text a rollback is about to replace is
that of a version (`Protects`). A second command on the same files breaks both:
that commands did not overlap is a hypothesis of the property, recorded in
`tangled`.

`AssetsAreSound`, in the same module, from the same assumption: `[]AssetsSound`.
None of its parts is inductive. `LibInv` adds what is left of a command: a list is
changed right after it was read, a binding is one write, and a deletion of a device
ends with the list (`Shape`). While a command is alone on its files, the number it
has taken is the greatest and the list it has read is the one there is (`Tracks`);
and where nothing overlaps, is half deleted, or lost its versions to the deletion of
another asset (`stripped`), every entry of the list has its file (`Tidy`). As long as
no operation failed, the latest text is the one about to get a version, or that of
the greatest version but for the binding (`Texts`, `Shown`, in workspaces that are
`Calm`). That the text carries the id of the asset is a hypothesis of
`DetailIsItsVersion` alone.
A token that is not spent has run nothing (`TokenOk`). What `retain` leaves of a list is a recursive function
(`OtherThan`), about which one lemma per case says what it keeps.

`SessionFilesAreRead`, in the same module, for any number of runs, commands and
projects (`AppSessionAssumption`: runs are numbered from 1):
`[]SessionFilesSound`. `MarkerInv`: runs start in order, the marker names the
process that runs or the last one when its end was not clean. `FileInv`: every
document on the way to the file is normal, and as long as no commands
overlapped the one in hand holds what will have been saved once it is written.

`CompilerProofs`, for any specifications, capabilities and messages
(`DslAssumption`: names and lists are sequences, a specification has finitely many
states, and each has its place in the lexical order): `CompilerIsSound`,
`[]CompilerSound`. The invariant is short: `CompInv` says what the stages passed
have seen to, and `MachineGoes` how far the machine is with a message. The work is
in what the passes return.

- The machine. The candidates of a state can be sorted (`SortedExists`; a list
  that is sorted gets one more at its place, `Inserted`), and the first that holds
  is the best (`FirstMatchBest`). `PortsAre` and `TransitionHasPort` find the node
  behind each port a transition triggers; since the ids stay apart, what is called
  is what the specification asks for, and nothing else (`CalledIs`).
- The reachable states. The waves of `FindReachableStates` exist (`WavesExist`) and
  are closed under transitions after as many of them as there are states
  (`WavesClose`), because a wave that adds nothing is the last.
- The search for cycles. `DfsVisit` calls itself, so first that there is such a
  function: one that is right for `n` states left to visit gives one that is right
  for `n + 1` (`TurnDepends`), and as many turns as there are states are enough
  (`VisitsExist`). Then that every such function is right (`AllPost`; of the visits
  that go wrong one would have the fewest states left): as long as no cycle was
  found, the states that were entered and left lead only to such states, and no set
  of them leads back into itself from each of its members (`Settled`). When the search
  ends without a cycle all states were left, so no such set is among them
  (`NoneFound`).

The proof shows that at least one cycle is reported; which states the reported
one has depends on the order of the hash map (section 6).

`DeviceProofs`, for every finite graph, with the edges and pins the checks let
through (`GraphDeployAssumption`): `DeploymentsAreSound`, `[]DeploySound`. The
loop of Kahn's algorithm has the invariant `Kahn`: the counter of a node is the
number of its edges whose source is not taken yet (`Counted`), nodes without
such edges are queued or taken, never both (`QueueFits`), a taken node comes after
its predecessors (`Sorted`) and is on no cycle (`OffCycles`). Hence what is left
over feeds itself (`LeftOver`), and when nothing is left there is no cycle
(`NoneLeft`); the second topology, on fewer edges, never refuses. `Wired`: the pins
fit from their check on, so the kind of an edge is that of one pin. `Guarded`: a
task that has not ended has its guard or is no longer waited for.

`FlowIsSound`, in the same module: `[]FlowSound` for any set of nodes,
configurations, scripts, budgets and limits whose results are of the type their
tag says (`FlowAssumption`). `EndsFirst`: a node has a result only after its
script has ended. `LoopRounds` computes what the loop sends: one message per item
with its index and the count, then the last one; a result that is no list of
items sends nothing and fails.

`CanIsSound`, in the same module: `[]CanSound` for any readers, filters, frames
and lines of unsigned numbers (`CanBusAssumption`). `FrameAccounted` says of every
frame, arrived or not, that the times it was handed out and the times it is
queued are together no more than the times it arrived; it is kept because a new
frame adds one to both sides (`PlacesAppended`) and a taken one moves at most one
from the queue to one reader (`PlacesDropped`). `Echoed` computes what a station
decodes of each line this program writes.

`SerialIsSound`, in the same module: `[]SerialSound` for any configurations and any
bytes (`SerialAssumption`: delimiters and chunks are sequences of numbers, the
maximal length is not 0, which `clamp(1, ..)` sees to). `SerialInv` adds to the
property that no delimiter is in the buffer between two reads and that a trigger's
frames and buffer are the bytes received also while its port is closed. The loop
that cuts one frame after the other is a recursive function: `Recursion` says that
such a function has values in the set its steps stay in, `StepByStep` replaces the
induction (of the steps where something fails one would be the first), and
`DrainedKeeps` follows the bytes and the length of the buffer through the loop. A
frame cut before the first delimiter holds none (`PrefixIsClean`), nor does what is
left of a clean buffer (`SuffixIsClean`); with one byte at a time a delimiter can
only be the end of the buffer (`OneByteMore`).

`SignalsAreSound`, in the same module: `[]SignalSound` for any configurations and
messages (`ListenAssumption`: the signals of a node are a list). Inside a message
the events are those of the messages before it and of the part of its signals that
has been gone through (`Halfway`, for pushed messages; `PartWay` for a round of
polls, which also says that `failedRead` is whether one of the reads of this round
failed). What `filter` and `decode` select is a recursive function (`Chosen`), so
that a signal more in the part gone through is a value more in the events, or none.

`CallsAreSound`, in the same module: `[]CallsSound` for any number of callers, any
base of a byte, any registers and any size of the output image. `CapAssumption` asks
of the calls what their decoding sees to (templates and values are texts, types are
the six there are, offsets and lengths unsigned) and that a Modbus call stays in the
registers of the model. The argument has three parts. About the codec: quotient and
rest are unique (`OneQuotient`), a division by a power of the base goes digit by digit
(`DividedTwice`, `PowerStep`), so the bytes of a number give the number back modulo
its width (`BytesBack`), the words of two bytes are joined to the bytes they were
cut from (`PairsJoined`), and a value in the range of its type, negative ones
included, decodes to itself (`ParsedBack`); `WordsDecode` and `FrameDecodes` put this
together. About the template: while it is resolved the text is what was put in for
the places passed, followed by the rest of the template as it was, and the search
stands where the two meet (`Upto`, kept by `PlaceFilled`); what a value contains is
in the first half and never looked at again. About the device: a register and the
frame hold what the last finished call encoded as long as nobody else has finished
(`RegistersHold`, `FrameHolds`), and a caller between reading and writing the image
holds the lock of the bus, so that what it has read is still the image
(`HoldsBus`); `SurvivesStep` and `OwnedStep` then follow the windows byte by byte.
A write leaves the registers of the other slaves alone (`OtherSlavesKept`), so
those of a slave nobody has written to are as they were (`SlavesApart`).

Only model-checked:

- all liveness (`StallsIsolated`, `LentAgain`, `RuntimeAnswers`, ...): beyond the
  prover;
- nothing is claimed outside the hypotheses named above; section 6 shows what
  breaks there (`ExclusiveLease` when a loop is stopped, `BreakerCountsFaults`
  with a slow listener, `QueuedRefReadable` when a graph with DropNewest is
  undeployed).

## 8. What is not modelled

- The AI provider client: HTTP requests and prompts; the confirmation of the
  tools it calls is in `AssetLibrary`.
- The EtherCAT configuration and ESI import (`ethercat_esi/`): an XML reader and
  a wrapper of a library; the sessions are in `SharedSession`.
- The Rhai interpreter and SQLite, external; their use is modelled.
- Within modelled parts: chains of pure nodes longer than one, subgraphs,
  formatting and arithmetic nodes (pure mappings); metrics, log lines and
  events that carry no decision; alerts and paging queries; YAML syntax and
  field-by-field checks of device descriptions; floating-point values and scale
  expressions; SocketCAN and mock back-ends; connection definitions that are
  kept because of an open shared session.
- The generated TypeScript bindings and the web front end, which hold no state
  of the engine.
