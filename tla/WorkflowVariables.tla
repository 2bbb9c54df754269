-------------------------- MODULE WorkflowVariables --------------------------
(***************************************************************************)
(* Workflow variables (crates/core/src/variables), the way of their events *)
(* to the database, and their return at the next deployment.               *)
(*                                                                         *)
(* One variable is modelled: the map is keyed by name.  A write changes    *)
(* the entry and tells its watchers under the lock of the entry; the watch *)
(* channel stores nothing while nobody has subscribed.  Its event is       *)
(* emitted after the lock is gone: try_send into a bounded channel, a      *)
(* proxy task that serves this channel and the one of the execution events *)
(* in turn (deploy.rs), and a forwarder that writes the database.  An      *)
(* undeployment aborts the forwarders; a deployment loads the database and *)
(* starts from what it finds.                                              *)
(***************************************************************************)
EXTENDS Naturals, Sequences, FiniteSets

CONSTANTS
  VarNodes,   \* nodes that write the variable from their transform
  IpcCommands, \* IPC commands of the desktop application that write it
  Watchers,   \* users of the API that subscribe to it
  VarValues,  \* values, natural numbers
  IntValues,  \* those that match the declared type "int"; the others match "str"
  VarCap,     \* capacity of the two channels of variable events
  EventCap    \* capacity of the final channel of execution events

ASSUME WorkflowVariablesAssumption ==
  /\ VarValues \subseteq Nat \ (900..908) \* see the marks below
  /\ IntValues \subseteq VarValues /\ IntValues # {}
  /\ VarCap \in Nat \ {0} /\ EventCap \in Nat \ {0}

VARIABLES
  declared,   \* the declared type of the running workflow
  deployed,   \* the workflow runs
  entry,      \* [value, initial] of the entry, NoEntry when removed
  watch,      \* what a watcher knows: what it read when it subscribed or the
              \* last change its receiver had, Away when it has not subscribed
  emitting,   \* the event a writer has still to emit, or NoEvent
  resetting,  \* the initial value a reset has read, or NoValue
  varQueue, varFinal,   \* variable events before and after the proxy
  eventFinal, \* number of execution events after it
  proxy,      \* Selecting, SendingEvent, or the variable event being sent
  storing,    \* the variable event the forwarder is writing, or NoEvent
  persisted,  \* the row of the database, NoRow when there is none
  overrides,  \* what a deployment has loaded: a value, NoRow, or NotLoaded
  change,     \* history: the last change since the deployment, or Unseen
  lost,       \* history: an event was dropped or aborted, or a write raced
  lastValue   \* history: the value the workflow was stopped with, when somebody wrote it

pipeVars  == <<varQueue, varFinal, eventFinal, proxy, storing, persisted>>
heldVars  == <<declared, deployed, entry, watch, emitting, resetting, change, lastValue>>
varVars   == <<heldVars, pipeVars, overrides, lost>>

Writers == VarNodes \cup IpcCommands

\* Values that are no value of the variable; WorkflowVariableEvent::Changed
\* is represented by its value.
NoValue   == 900
NoEvent   == 901
NoRow     == 902
NotLoaded == 903
Unseen    == 904
Deleted   == 905
Selecting == 906
SendingEvent == 907
Away      == 908

NoEntry == [value |-> NoValue, initial |-> NoValue]

\* pin_type_matches_value, for a type with and one without numbers.
TypeMatches(t, v) == IF t = "int" THEN v \in IntValues ELSE v \in VarValues \ IntValues

\* Declarations whose initial value has their type, the others do not deploy.
Declarations == {d \in [type : {"int", "str"}, initial : VarValues] : TypeMatches(d.type, d.initial)}

\* The events of a variable that have not reached the database.
InFlight == Len(varQueue) + Len(varFinal) > 0 \/ proxy \notin {Selecting, SendingEvent} \/ storing # NoEvent

Free(w)    == emitting[w] = NoEvent /\ resetting[w] = NoValue
NoOneEmits == \A w \in Writers : emitting[w] = NoEvent

\* watch::Sender::send: every receiver has the change; without a receiver
\* nothing is stored, and the error is ignored.
Subscribed == {x \in Watchers : watch[x] # Away}
Tell(v)    == watch' = [x \in Watchers |-> IF x \in Subscribed THEN v ELSE Away]

\* The critical section of set and compare_and_swap: an equal value is
\* neither announced to the watchers nor to the event channel.
WriteEntry(w, v) ==
  /\ entry' = [entry EXCEPT !.value = v]
  /\ IF v = entry.value
     THEN UNCHANGED <<watch, change, emitting, lost>>
     ELSE /\ Tell(v) /\ change' = v
          /\ emitting' = [emitting EXCEPT ![w] = v]
          /\ lost' = (lost \/ ~NoOneEmits)

-----------------------------------------------------------------------------
(* Operations of the writers: any of them set and compare_and_swap, only   *)
(* IPC commands reset and remove.                                          *)

\* set: an unknown variable or a value of another type is an error.
SetVariable(w) ==
  /\ deployed /\ Free(w) /\ entry # NoEntry
  /\ \E v \in VarValues : TypeMatches(declared.type, v) /\ WriteEntry(w, v)
  /\ UNCHANGED <<declared, deployed, resetting, pipeVars, overrides, lastValue>>

\* compare_and_swap: nothing happens when the value is not the expected one.
CompareAndSwap(w) ==
  /\ deployed /\ Free(w) /\ entry # NoEntry
  /\ \E expected, v \in VarValues :
       TypeMatches(declared.type, v) /\ entry.value = expected /\ WriteEntry(w, v)
  /\ UNCHANGED <<declared, deployed, resetting, pipeVars, overrides, lastValue>>

\* reset: the initial value is read under one lock and set under another.
ResetRead(w) ==
  /\ deployed /\ Free(w) /\ entry # NoEntry
  /\ resetting' = [resetting EXCEPT ![w] = entry.initial]
  /\ UNCHANGED <<declared, deployed, entry, watch, emitting, pipeVars, overrides, change,
                 lost, lastValue>>

\* The variable may have been removed in between: UnknownVariable.
ResetWrite(w) ==
  /\ deployed /\ resetting[w] # NoValue
  /\ resetting' = [resetting EXCEPT ![w] = NoValue]
  /\ IF entry = NoEntry
     THEN UNCHANGED <<entry, watch, change, emitting, lost>>
     ELSE WriteEntry(w, resetting[w])
  /\ UNCHANGED <<declared, deployed, pipeVars, overrides, lastValue>>

\* remove: the entry leaves the map; watchers and event channel follow.
RemoveVariable(w) ==
  /\ deployed /\ Free(w) /\ entry # NoEntry
  /\ entry' = NoEntry /\ change' = Deleted
  /\ emitting' = [emitting EXCEPT ![w] = Deleted]
  /\ lost' = (lost \/ ~NoOneEmits)
  /\ UNCHANGED <<declared, deployed, watch, resetting, pipeVars, overrides, lastValue>>

\* EventSink::emit, after the lock: try_send, an event that finds the channel
\* full or closed is dropped and counted.
Emits(w) ==
  /\ emitting[w] # NoEvent
  /\ emitting' = [emitting EXCEPT ![w] = NoEvent]
  /\ IF Len(varQueue) < VarCap
     THEN varQueue' = Append(varQueue, emitting[w]) /\ UNCHANGED lost
     ELSE lost' = TRUE /\ UNCHANGED varQueue
  /\ UNCHANGED <<declared, deployed, entry, resetting, varFinal, eventFinal, proxy, storing,
                 persisted, overrides, change, lastValue>>

\* Mutant: the watchers are not told of a removal.
RemoveSilently(w) == Emits(w) /\ UNCHANGED watch

\* The end of a write: the watchers of a removed variable are told before.
EmitVariableEvent(w) ==
  Emits(w) /\ IF emitting[w] = Deleted THEN Tell(Deleted) ELSE UNCHANGED watch

-----------------------------------------------------------------------------
(* The watchers, with WorkflowVariables::subscribe and a receiver.         *)

\* A new receiver takes what the channel holds for seen; its user reads the
\* variable itself.
Subscribe(x) ==
  /\ deployed /\ entry # NoEntry /\ watch[x] = Away
  /\ watch' = [watch EXCEPT ![x] = entry.value]
  /\ UNCHANGED <<declared, deployed, entry, emitting, resetting, pipeVars,
                 overrides, change, lost, lastValue>>

\* The receiver is dropped.
Unsubscribe(x) ==
  /\ watch[x] # Away
  /\ watch' = [watch EXCEPT ![x] = Away]
  /\ UNCHANGED <<declared, deployed, entry, emitting, resetting, pipeVars, overrides,
                 change, lost, lastValue>>

-----------------------------------------------------------------------------
(* The proxy task and the forwarders.                                      *)

\* tokio::select! of the proxy: a ready channel is taken at random.  Nodes may
\* emit an execution event at any time, their channel is not modelled.
ProxyTakesEvent ==
  /\ deployed /\ proxy = Selecting /\ proxy' = SendingEvent
  /\ UNCHANGED <<heldVars, lost, varQueue, varFinal, eventFinal, storing, persisted, overrides>>

ProxyTakesVariable ==
  /\ deployed /\ proxy = Selecting /\ varQueue # <<>>
  /\ proxy' = Head(varQueue) /\ varQueue' = Tail(varQueue)
  /\ UNCHANGED <<heldVars, lost, varFinal, eventFinal, storing, persisted, overrides>>

\* send().await into the final channel: while it is full neither is served.
ProxySends ==
  /\ deployed
  /\ \/ /\ proxy = SendingEvent /\ eventFinal < EventCap
        /\ eventFinal' = eventFinal + 1 /\ UNCHANGED varFinal
     \/ /\ proxy \notin {Selecting, SendingEvent} /\ Len(varFinal) < VarCap
        /\ varFinal' = Append(varFinal, proxy) /\ UNCHANGED eventFinal
  /\ proxy' = Selecting
  /\ UNCHANGED <<heldVars, lost, varQueue, storing, persisted, overrides>>

\* spawn_execution_event_forwarder.
ForwardEvent ==
  /\ deployed /\ eventFinal > 0 /\ eventFinal' = eventFinal - 1
  /\ UNCHANGED <<heldVars, lost, varQueue, varFinal, proxy, storing, persisted, overrides>>

\* spawn_variable_event_forwarder: the event is taken, ...
ForwardVariable ==
  /\ deployed /\ storing = NoEvent /\ varFinal # <<>>
  /\ storing' = Head(varFinal) /\ varFinal' = Tail(varFinal)
  /\ UNCHANGED <<heldVars, lost, varQueue, eventFinal, proxy, persisted, overrides>>

\* ... and upsert_variable or delete_variable ends; an error is logged.
StoreVariable ==
  /\ deployed /\ storing # NoEvent
  /\ storing' = NoEvent
  /\ \/ persisted' = (IF storing = Deleted THEN NoRow ELSE storing) /\ UNCHANGED lost
     \/ UNCHANGED persisted /\ lost' = TRUE
  /\ UNCHANGED <<heldVars, varQueue, varFinal, eventFinal, proxy, overrides>>

-----------------------------------------------------------------------------
(* Undeployment and deployment.                                            *)

Drained == varQueue' = <<>> /\ varFinal' = <<>> /\ eventFinal' = 0
             /\ proxy' = Selecting /\ storing' = NoEvent

\* shutdown_runtime aborts the forwarders: what is in flight is lost, and so
\* is what the tasks still do with the variables nobody sees any more.
ShutdownRuntime ==
  /\ deployed /\ deployed' = FALSE
  /\ lost' = (lost \/ InFlight \/ ~NoOneEmits)
  /\ lastValue' = IF change = Unseen \/ ~NoOneEmits THEN NoValue ELSE entry.value
  /\ resetting' = [w \in Writers |-> NoValue] /\ emitting' = [w \in Writers |-> NoEvent]
  /\ entry' = NoEntry /\ change' = Unseen /\ Drained
  /\ watch' = [x \in Watchers |-> Away]
  /\ UNCHANGED <<declared, persisted, overrides>>

\* load_persisted_variable_overrides, while the old instance may still run.
LoadOverrides ==
  /\ overrides = NotLoaded /\ overrides' = persisted
  /\ UNCHANGED <<heldVars, pipeVars, lost>>

\* A persisted value of another type is skipped with a warning.
Restored(d) == IF overrides # NoRow /\ TypeMatches(d.type, overrides) THEN overrides ELSE d.initial

\* deploy_workflow_and_restore_variables: from_declarations, then set.  Nobody
\* has subscribed and the event sink is not there yet, so the restore itself is
\* not announced.
DeployVariables ==
  /\ ~deployed /\ overrides # NotLoaded
  /\ \E d \in Declarations :
       /\ declared' = d
       /\ entry' = [value |-> Restored(d), initial |-> d.initial]
       /\ change' = IF Restored(d) = d.initial THEN Unseen ELSE Restored(d)
       /\ lost' = (persisted # overrides)
  /\ deployed' = TRUE /\ overrides' = NotLoaded /\ lastValue' = NoValue
  /\ UNCHANGED <<watch, emitting, resetting, pipeVars>>

-----------------------------------------------------------------------------
VarInit ==
  /\ declared = [type |-> "int", initial |-> CHOOSE v \in IntValues : TRUE]
  /\ deployed = FALSE /\ entry = NoEntry
  /\ watch = [x \in Watchers |-> Away]
  /\ emitting = [w \in Writers |-> NoEvent] /\ resetting = [w \in Writers |-> NoValue]
  /\ varQueue = <<>> /\ varFinal = <<>> /\ eventFinal = 0
  /\ proxy = Selecting /\ storing = NoEvent /\ persisted = NoRow /\ overrides = NotLoaded
  /\ change = Unseen /\ lost = FALSE /\ lastValue = NoValue

ProxyStep     == ProxyTakesEvent \/ ProxySends
ForwarderStep == ForwardEvent \/ ForwardVariable \/ StoreVariable

VarNext ==
  \/ \E w \in Writers : SetVariable(w) \/ EmitVariableEvent(w)
  \/ \E w \in VarNodes : CompareAndSwap(w)
  \/ \E w \in IpcCommands : ResetRead(w) \/ ResetWrite(w) \/ RemoveVariable(w)
  \/ \E x \in Watchers : Subscribe(x) \/ Unsubscribe(x)
  \/ ProxyStep \/ ProxyTakesVariable \/ ForwarderStep
  \/ ShutdownRuntime \/ LoadOverrides \/ DeployVariables

VarSpec == VarInit /\ [][VarNext]_varVars

-----------------------------------------------------------------------------
\* The entry is of its declared type and remembers the declared initial value,
\* whatever an older version of the workflow left in the database
\* (deploy.rs:79-82, 113-123).
EntryMatchesDeclaration ==
  deployed /\ entry # NoEntry =>
    TypeMatches(declared.type, entry.value) /\ entry.initial = declared.initial

\* Who watches the variable knows what it holds, though the channel stores
\* nothing while nobody watches: no change is missed, and none is published in
\* another order than it was written, for it is sent under the lock of the write
\* (mod.rs:213-221); only a removal is sent a moment after the entry is gone
\* (mod.rs:305-307).
WatchFollowsEntry ==
  deployed /\ (\A w \in Writers : emitting[w] # Deleted) =>
    \A x \in Subscribed : watch[x] = IF entry = NoEntry THEN Deleted ELSE entry.value

\* When no event was dropped, aborted or overtaken and none is on its way,
\* the database has the value of the entry: the two hops of the proxy and the
\* forwarder lose and reorder nothing themselves (deploy.rs:158-192).
DatabaseCatchesUp ==
  deployed /\ ~lost /\ ~InFlight /\ NoOneEmits =>
    persisted = (IF entry = NoEntry THEN NoRow ELSE entry.value) \/ change = Unseen

\* A variable event that was accepted reaches the forwarder or is dropped by
\* the undeployment, although the proxy serves an endless stream of execution
\* events at the same time (deploy.rs:166).
VariableEventsArrive == varQueue # <<>> ~> storing # NoEvent \/ ~deployed

\* "A write of a variable is persisted synchronously, a deployment restores
\* it from the store" (ADR-0022): the workflow comes back with the value it
\* was stopped with.
RestoresLastValue ==
  [][DeployVariables /\ lastValue # NoValue /\ TypeMatches(declared'.type, lastValue)
       => entry'.value = lastValue]_varVars

\* Declaration, entry, watch channel and database row of a variable agree
\* (core/src/variables, workflow_deploy.rs).
VariablesSound ==
  /\ EntryMatchesDeclaration
  /\ WatchFollowsEntry
  /\ DatabaseCatchesUp
=============================================================================
