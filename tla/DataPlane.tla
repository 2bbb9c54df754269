------------------------------ MODULE DataPlane ------------------------------
(***************************************************************************)
(* The data plane of one deployed workflow (crates/graph, crates/core).    *)
(*                                                                         *)
(* Payloads live in the ArenaDataStore with a count of the consumers that  *)
(* have not released them yet; bounded mpsc channels carry only references *)
(* (ContextRef).  The processes are                                        *)
(*   - Node:    run_node, one task per node, receive -> transform -> fan   *)
(*              out (runner.rs);                                           *)
(*   - Trigger: a background task started by on_deploy that publishes with *)
(*              NodeHandle::emit (lifecycle.rs);                           *)
(*   - Client:  a caller of WorkflowIngress::submit / submit_to (types.rs).*)
(* The result stream is one more channel, Sink, and the leaf path of       *)
(* run_node (result_tx.send) is a send over the node's edge to Sink.       *)
(*                                                                         *)
(* A reference is a pair <<d, e>>: payload d, sent over edge e.            *)
(***************************************************************************)
EXTENDS Integers, Sequences, FiniteSets

CONSTANTS
  Node, Trigger, Client,   \* the processes
  Pure,        \* pure-form nodes: no channel and no task (deploy.rs)
  Sink,        \* the result channel
  Ingress,     \* the source of the edges to the root nodes
  Data,        \* payload identities (naturals; the pool is the bound)
  Edge,        \* position in the edge list (naturals), result and ingress edges included
  Src, Dst,    \* Edge -> where an edge starts and ends
  Port,        \* Edge -> source port, NoPort for None
  NoPort,
  DropEdge,    \* edges with BackpressurePolicy::DropNewest
  DataOut,     \* nodes with Data output pins: an output may go to the cache only
  Owner,       \* Trigger -> the node whose NodeHandle it holds
  Buffer,      \* channel -> capacity
  MaxOutputs,  \* outputs one transform may return (bound)
  Reserve      \* identities the sources leave to the nodes (bound)

Proc == Node \cup Trigger \cup Client
Chan == Node \cup {Sink}
Ref  == Data \X Edge

VARIABLES
  store,   \* remaining consumers of each payload, 0: no entry
  queue,   \* contents of each channel
  open,    \* the receiver of the channel exists
  pc,      \* what each process is doing
  cur,     \* the payload a process is fanning out (0: none)
  pend,    \* the targets it has not served yet
  todo,    \* outputs of the current transform not dispatched yet
  leaked   \* history: references destroyed without a release

vars == <<store, queue, open, pc, cur, pend, todo, leaked>>

-----------------------------------------------------------------------------
(* Topology.                                                               *)

OutEdges(n)   == {e \in Edge : Src[e] = n /\ Dst[e] # Sink}
ResultEdge(n) == {e \in Edge : Src[e] = n /\ Dst[e] = Sink}

ASSUME DataPlaneAssumption ==
  /\ Data \subseteq Nat \ {0} /\ Edge \subseteq Nat /\ IsFiniteSet(Edge)
  /\ Pure \subseteq Node /\ DataOut \subseteq Node /\ DropEdge \subseteq Edge
  /\ Node \cap Trigger = {} /\ Node \cap Client = {} /\ Trigger \cap Client = {}
  /\ Sink \notin Node /\ Ingress \notin Node
  /\ Src \in [Edge -> Node \cup {Ingress}]
  /\ Dst \in [Edge -> Chan]
  /\ Owner \in [Trigger -> Node]
  /\ Buffer \in [Chan -> Nat \ {0}]
  /\ MaxOutputs \in Nat /\ Reserve \in Nat
  /\ \A n \in Node : \E e \in Edge : ResultEdge(n) = {e}

\* The senders a process owns.
Targets(p) ==
  CASE p \in Client  -> {e \in Edge : Src[e] = Ingress}
    [] p \in Trigger -> OutEdges(Owner[p])
    [] OTHER         -> OutEdges(p) \cup ResultEdge(p)

\* NodeDispatch::Broadcast and NodeDispatch::Route(ports).
Selections(n) ==
  {OutEdges(n)} \cup
  {{e \in OutEdges(n) : Port[e] \in P} :
      P \in SUBSET ({Port[e] : e \in OutEdges(n)} \ {NoPort})}

\* Mutant: a task that keeps a sender of its own channel alive.
FeedersWithSelf(n) == {n} \cup {p \in Proc : \E e \in Targets(p) : Dst[e] = n}

\* The processes whose senders keep the channel of n open.
Feeders(n) == {p \in Proc : \E e \in Targets(p) : Dst[e] = n}

-----------------------------------------------------------------------------
(* References.                                                             *)

Elems(s) == {s[i] : i \in 1..Len(s)}

\* The targets are served in the order of the edge list; root_senders is a
\* HashMap and its order is arbitrary.
NextTarget(p) ==
  IF p \in Client THEN pend[p]
                  ELSE {e \in pend[p] : \A f \in pend[p] : e <= f}

\* Targets whose reference the process still has to send or release.  After
\* a full try_send ("check") the reference of the current one is released.
Unserved(p) == IF pc[p] = "check" THEN pend[p] \ NextTarget(p) ELSE pend[p]

\* The references that exist: queued, not served yet, or destroyed unreleased.
Outstanding ==
  (UNION {Elems(queue[c]) : c \in Chan})
    \cup (UNION {{cur[p]} \X Unserved(p) : p \in Proc})
    \cup leaked

RefsTo(d) == {r \in Outstanding : r[1] = d}

\* DataId::new() is a fresh UUID: nobody knows it yet.
Fresh ==
  LET known == {r[1] : r \in Outstanding} \cup {cur[p] : p \in Proc}
  IN {d \in Data \ known : store[d] = 0}

\* Mutant: the consumer count is forgotten.
WriteForOne(d, T) == store' = [store EXCEPT ![d] = 1]

Write(d, T) == store' = [store EXCEPT ![d] = Cardinality(T)]

\* k calls of release: the entry is removed when the count reaches 0 and
\* releasing an absent entry does nothing.
Release(d, k) == store' = [store EXCEPT ![d] = IF @ > k THEN @ - k ELSE 0]

HasRoom(c) == Len(queue[c]) < Buffer[c]

-----------------------------------------------------------------------------
(* Publishing: the payload is written for all its targets at once, then    *)
(* the process serves them one by one.  Identities are taken from the pool *)
(* in order: which fresh one a payload gets makes no difference.           *)

Publish(p, T) ==
  \E d \in Fresh :
    /\ \A x \in Fresh : d <= x
    /\ Write(d, T)
    /\ cur'  = [cur EXCEPT ![p] = d]
    /\ pend' = [pend EXCEPT ![p] = T]
    /\ pc'   = [pc EXCEPT ![p] = "send"]
    /\ UNCHANGED <<queue, open, leaked>>

\* WorkflowIngress::submit (all roots) and submit_to (one root).
Submit(c) ==
  /\ pc[c] = "idle" /\ Cardinality(Fresh) > Reserve
  /\ \E T \in {Targets(c)} \cup {{e} : e \in Targets(c)} :
       T # {} /\ Publish(c, T)
  /\ UNCHANGED todo

\* NodeHandle::emit.  Without targets the payload is written and released
\* at once, which leaves no trace.
Emit(t) ==
  /\ pc[t] = "idle" /\ Cardinality(Fresh) > Reserve
  /\ Targets(t) # {} /\ Publish(t, Targets(t))
  /\ UNCHANGED todo

-----------------------------------------------------------------------------
(* Sending one reference.                                                  *)

\* Mutant: off by one, an output too many is dispatched.
OutputDoneLate(n) ==
  /\ todo' = [todo EXCEPT ![n] = @ - 1]
  /\ pc'   = [pc EXCEPT ![n] = IF todo[n] >= 1 THEN "emit" ELSE "idle"]

\* One output of the transform of n is dispatched; after the last one the
\* node reports Completed and waits for the next reference.
OutputDone(n) ==
  /\ todo' = [todo EXCEPT ![n] = @ - 1]
  /\ pc'   = [pc EXCEPT ![n] = IF todo[n] > 1 THEN "emit" ELSE "idle"]

\* Target e is served; after the last one the fan-out is over.
Served(p, e) ==
  /\ pend' = [pend EXCEPT ![p] = @ \ {e}]
  /\ cur'  = [cur EXCEPT ![p] = IF pend[p] = {e} THEN 0 ELSE @]
  /\ CASE pend[p] # {e} -> pc' = [pc EXCEPT ![p] = "send"] /\ UNCHANGED todo
       [] pend[p] = {e} /\ p \in Node -> OutputDone(p)
       [] OTHER -> pc' = [pc EXCEPT ![p] = "idle"] /\ UNCHANGED todo

\* send().await or try_send succeeds.
SendOk(p) ==
  /\ pc[p] = "send"
  /\ \E e \in NextTarget(p) :
       /\ open[Dst[e]] /\ HasRoom(Dst[e])
       /\ queue' = [queue EXCEPT ![Dst[e]] = Append(@, <<cur[p], e>>)]
       /\ Served(p, e)
  /\ UNCHANGED <<store, open, leaked>>

\* Mutant: the dropped reference is not released.
DropWithoutRelease(n) ==
  /\ pc[n] = "send"
  /\ \E e \in NextTarget(n) \cap DropEdge : open[Dst[e]] /\ ~HasRoom(Dst[e])
  /\ pc' = [pc EXCEPT ![n] = "check"]
  /\ UNCHANGED <<store, queue, open, cur, pend, todo, leaked>>

\* Mutant: a message dropped on a full edge gives every share of its data back.
DropReleasesAll(n) ==
  /\ pc[n] = "send"
  /\ \E e \in NextTarget(n) \cap DropEdge : open[Dst[e]] /\ ~HasRoom(Dst[e])
  /\ Release(cur[n], store[cur[n]])
  /\ pc' = [pc EXCEPT ![n] = "check"]
  /\ UNCHANGED <<queue, open, cur, pend, todo, leaked>>

\* Mutant: the policy is ignored and the task waits for room.
DropNever(n) == FALSE

\* DropNewest: try_send finds the channel full, the reference is released.
\* Whether the channel is closed is asked afterwards.
TrySendFull(n) ==
  /\ pc[n] = "send"
  /\ \E e \in NextTarget(n) \cap DropEdge : open[Dst[e]] /\ ~HasRoom(Dst[e])
  /\ Release(cur[n], 1)
  /\ pc' = [pc EXCEPT ![n] = "check"]
  /\ UNCHANGED <<queue, open, cur, pend, todo, leaked>>

\* is_closed() is false: a drop by policy, go on with the next target.
DropChecked(n) ==
  /\ pc[n] = "check"
  /\ \E e \in NextTarget(n) : open[Dst[e]] /\ Served(n, e)
  /\ UNCHANGED <<store, queue, open, leaked>>

\* The task of node n ends: its receiver is dropped with what it holds, and
\* so are its senders.
Stop(n) ==
  /\ pc'     = [pc EXCEPT ![n] = "stopped"]
  /\ open'   = [open EXCEPT ![n] = FALSE]
  /\ queue'  = [queue EXCEPT ![n] = <<>>]
  /\ leaked' = leaked \cup Elems(queue[n])
  /\ pend'   = [pend EXCEPT ![n] = {}]
  /\ todo'   = [todo EXCEPT ![n] = 0]
  /\ cur'    = [cur EXCEPT ![n] = 0]

\* Mutant: only the reference that could not be sent is released.
NodeSendClosedReleasesOne(n) ==
  /\ pc[n] \in {"send", "check"}
  /\ \E e \in NextTarget(n) : ~open[Dst[e]]
  /\ Release(cur[n], 1)
  /\ Stop(n)

\* The channel is closed: release `sent_count..consumer_count`, report
\* ChannelClosed and leave the loop.
NodeSendClosed(n) ==
  /\ pc[n] \in {"send", "check"}
  /\ \E e \in NextTarget(n) : ~open[Dst[e]]
  /\ Release(cur[n], Cardinality(pend[n]))
  /\ Stop(n)

\* Mutant: the closed target is tried again.
TriggerRetriesClosed(t) ==
  /\ pc[t] = "send"
  /\ \E e \in NextTarget(t) : ~open[Dst[e]]
  /\ Release(cur[t], 1)
  /\ UNCHANGED <<queue, open, pc, cur, pend, todo, leaked>>

\* NodeHandle::emit skips a closed target.
TriggerSendClosed(t) ==
  /\ pc[t] = "send"
  /\ \E e \in NextTarget(t) : ~open[Dst[e]] /\ Served(t, e)
  /\ Release(cur[t], 1)
  /\ UNCHANGED <<queue, open, leaked>>

\* submit releases the remaining references and fails.
ClientSendClosed(c) ==
  /\ pc[c] = "send"
  /\ \E e \in NextTarget(c) : ~open[Dst[e]]
  /\ Release(cur[c], Cardinality(pend[c]))
  /\ pc'   = [pc EXCEPT ![c] = "idle"]
  /\ pend' = [pend EXCEPT ![c] = {}]
  /\ cur'  = [cur EXCEPT ![c] = 0]
  /\ UNCHANGED <<queue, open, todo, leaked>>

-----------------------------------------------------------------------------
(* The loop of run_node.                                                   *)

\* Mutant: the payload is read and never released.
ReceiveWithoutRelease(n) ==
  /\ pc[n] = "idle" /\ queue[n] # <<>>
  /\ pc' = [pc EXCEPT ![n] =
       IF store[Head(queue[n])[1]] > 0 THEN "transform" ELSE "idle"]
  /\ queue' = [queue EXCEPT ![n] = Tail(@)]
  /\ UNCHANGED <<store, open, cur, pend, todo, leaked>>

\* recv, read_mut, release.  A missing payload is reported as a failure and
\* the loop goes on.
Receive(n) ==
  /\ pc[n] = "idle" /\ queue[n] # <<>>
  /\ LET d == Head(queue[n])[1] IN
       /\ pc' = [pc EXCEPT ![n] = IF store[d] > 0 THEN "transform" ELSE "idle"]
       /\ Release(d, 1)
  /\ queue' = [queue EXCEPT ![n] = Tail(@)]
  /\ UNCHANGED <<open, cur, pend, todo, leaked>>

\* Mutant: a failing transform ends the task.
TransformFailureStops(n) ==
  /\ pc[n] = "transform"
  /\ Stop(n)
  /\ UNCHANGED store

\* pull_data_inputs or transform fails, panics or times out.
TransformFails(n) ==
  /\ pc[n] = "transform"
  /\ pc' = [pc EXCEPT ![n] = "idle"]
  /\ UNCHANGED <<store, queue, open, cur, pend, todo, leaked>>

\* transform returns its outputs.
TransformReturns(n) ==
  /\ pc[n] = "transform"
  /\ \E k \in 0..MaxOutputs :
       /\ todo' = [todo EXCEPT ![n] = k]
       /\ pc'   = [pc EXCEPT ![n] = IF k > 0 THEN "emit" ELSE "idle"]
  /\ UNCHANGED <<store, queue, open, cur, pend, leaked>>

\* output_is_data_only: the output went to the OutputCache, nothing is sent.
CacheOnly(n) ==
  /\ pc[n] = "emit" /\ n \in DataOut
  /\ OutputDone(n)
  /\ UNCHANGED <<store, queue, open, cur, pend, leaked>>

\* store.write for the matching targets, or for the result stream.
WriteOutput(n) ==
  /\ pc[n] = "emit"
  /\ \E T \in Selections(n) : Publish(n, IF T = {} THEN ResultEdge(n) ELSE T)
  /\ UNCHANGED todo

\* recv returns None: every sender is gone and the queue is empty.
InputsClosed(n) ==
  /\ pc[n] = "idle" /\ queue[n] = <<>>
  /\ \A p \in Feeders(n) : pc[p] = "stopped"
  /\ Stop(n)
  /\ UNCHANGED store

\* Mutant: a result is taken and its payload is kept.
ConsumeWithoutRelease ==
  /\ open[Sink] /\ queue[Sink] # <<>>
  /\ queue' = [queue EXCEPT ![Sink] = Tail(@)]
  /\ UNCHANGED <<store, open, pc, cur, pend, todo, leaked>>

\* WorkflowStreams::next_result.
Consume ==
  /\ open[Sink] /\ queue[Sink] # <<>>
  /\ Release(Head(queue[Sink])[1], 1)
  /\ queue' = [queue EXCEPT ![Sink] = Tail(@)]
  /\ UNCHANGED <<open, pc, cur, pend, todo, leaked>>

-----------------------------------------------------------------------------
(* Undeploying (WorkflowDeployment::shutdown, DesktopWorkflow).            *)

\* The task that submits is aborted, or the ingress is dropped.
StopClient(c) ==
  /\ pc[c] # "stopped"
  /\ pc'     = [pc EXCEPT ![c] = "stopped"]
  /\ leaked' = leaked \cup {<<cur[c], e>> : e \in pend[c]}
  /\ pend'   = [pend EXCEPT ![c] = {}]
  /\ cur'    = [cur EXCEPT ![c] = 0]
  /\ UNCHANGED <<store, queue, open, todo>>

\* The background task sees its cancellation token between two emits.
StopTrigger(t) ==
  /\ pc[t] = "idle"
  /\ pc' = [pc EXCEPT ![t] = "stopped"]
  /\ UNCHANGED <<store, queue, open, cur, pend, todo, leaked>>

\* The receiver of the result stream is dropped.
CloseSink ==
  /\ open[Sink]
  /\ open'   = [open EXCEPT ![Sink] = FALSE]
  /\ queue'  = [queue EXCEPT ![Sink] = <<>>]
  /\ leaked' = leaked \cup Elems(queue[Sink])
  /\ UNCHANGED <<store, pc, cur, pend, todo>>

-----------------------------------------------------------------------------
Init ==
  /\ store  = [d \in Data |-> 0]
  /\ queue  = [c \in Chan |-> <<>>]
  /\ open   = [c \in Chan |-> c \notin Pure]
  /\ pc     = [p \in Proc |-> IF p \in Pure THEN "stopped" ELSE "idle"]
  /\ cur    = [p \in Proc |-> 0]
  /\ pend   = [p \in Proc |-> {}]
  /\ todo   = [n \in Node |-> 0]
  /\ leaked = {}

NodeStep(n) ==
  \/ Receive(n) \/ TransformFails(n) \/ TransformReturns(n) \/ CacheOnly(n)
  \/ WriteOutput(n) \/ SendOk(n) \/ TrySendFull(n)
  \/ DropChecked(n) \/ NodeSendClosed(n) \/ InputsClosed(n)

TriggerStep(t) == Emit(t) \/ SendOk(t) \/ TriggerSendClosed(t)
ClientStep(c)  == Submit(c) \/ SendOk(c) \/ ClientSendClosed(c)

\* A workflow that runs.
Running ==
  \/ \E n \in Node : NodeStep(n)
  \/ \E t \in Trigger : TriggerStep(t)
  \/ \E c \in Client : ClientStep(c)
  \/ Consume

Undeploy ==
  \/ \E c \in Client : StopClient(c)
  \/ \E t \in Trigger : StopTrigger(t)
  \/ CloseSink

Next == Running \/ Undeploy

Spec == Init /\ [][Next]_vars

\* Tokio runs every task that can go on, mpsc grants the capacity of a full
\* channel to its waiting senders first come first served (hence strong
\* fairness), transforms end (node timeouts), and results are consumed.
\* Nobody has to submit, to emit or to undeploy.
Fairness ==
  /\ \A n \in Node : SF_vars(NodeStep(n))
  /\ \A t \in Trigger : SF_vars(SendOk(t) \/ TriggerSendClosed(t))
  /\ \A c \in Client : SF_vars(SendOk(c) \/ ClientSendClosed(c))
  /\ WF_vars(Consume)

FairSpec == Spec /\ Fairness

\* A workflow nobody undeploys.
RunningSpec == Init /\ [][Running]_vars

\* The nodes that other nodes reach over DropNewest edges only.
BehindDrops ==
  {n \in Node : \A e \in Edge : Dst[e] = n => e \in DropEdge /\ Src[e] \in Node}

\* A running workflow in which the transforms of these nodes, having no
\* time-out, may hang for ever; the triggers are free to wait for ever too.
StallSpec ==
  /\ RunningSpec
  /\ \A n \in Node \ BehindDrops : SF_vars(NodeStep(n))
  /\ \A n \in BehindDrops : SF_vars(pc[n] # "transform" /\ NodeStep(n))
  /\ \A c \in Client : SF_vars(SendOk(c) \/ ClientSendClosed(c))
  /\ WF_vars(Consume)

-----------------------------------------------------------------------------
(* Properties.                                                             *)

\* Every variable has its type; a process only ever serves its own targets.
TypeOK ==
  /\ store \in [Data -> Nat]
  /\ queue \in [Chan -> Seq(Ref)]
  /\ open \in [Chan -> BOOLEAN]
  /\ pc \in [Proc -> {"idle", "transform", "emit", "send", "check", "stopped"}]
  /\ cur \in [Proc -> Data \cup {0}]
  /\ pend \in [Proc -> SUBSET Edge]
  /\ \A p \in Proc : pend[p] \subseteq Targets(p) /\ (pend[p] # {} => cur[p] # 0)
  /\ todo \in [Node -> Nat]
  /\ leaked \subseteq Ref

\* A reference that waits in a channel somebody reads can be read: fan-out
\* never frees a payload before its last receiver (data.rs, "N consumers").
QueuedRefReadable ==
  \A c \in Chan : open[c] => \A r \in Elems(queue[c]) : store[r[1]] > 0

\* The count in the store is the number of references outstanding: queued,
\* not sent yet, or lost with a task that ended.  Nothing is released twice
\* and nothing is forgotten while its owner lives.
RefsAccounted == \A d \in Data : store[d] = Cardinality(RefsTo(d))

\* As long as results are consumed, a node stops only after everything that
\* can feed it has stopped: no node of a running workflow dies.
RunnersAlive ==
  open[Sink] => \A n \in Node \ Pure :
    pc[n] = "stopped" => \A p \in Feeders(n) : pc[p] = "stopped"

\* A DropNewest edge keeps the stalls behind it to themselves (event.rs,
\* BackpressurePolicy): though a transform behind it may never return and its
\* channel stays full, with a trigger waiting on it or not, every fan-out a
\* node or a caller has begun comes to an end, over the edges that wait too.
StallsIsolated == \A p \in Node \cup Client : pend[p] # {} ~> pend[p] = {}

\* The data plane implements the fan-out ledger.
Ledger == INSTANCE FanOut WITH
  claims <- Outstanding,
  held <- {d \in Data : store[d] > 0}
ImplementsFanOut == Ledger!FanOutSpec

\* Backpressure does not deadlock a DAG: a fan-out that has begun comes to an
\* end, although every send may have to wait for room in a bounded channel.
FanOutsEnd == \A p \in Proc : pend[p] # {} ~> pend[p] = {}

SourcesStopped == \A p \in Trigger \cup Client : pc[p] = "stopped"

\* When the sources are gone the tasks end one after the other along the DAG.
CascadeStops == SourcesStopped ~> \A n \in Node : pc[n] = "stopped"

\* ... and if nothing was cut off midway the store ends up empty.
DrainsToEmpty ==
  (SourcesStopped /\ leaked = {}) ~>
    (~open[Sink] \/ \A d \in Data : store[d] = 0)
=============================================================================
