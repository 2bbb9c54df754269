----------------------------- MODULE GraphDeploy -----------------------------
(***************************************************************************)
(* Deployment of a workflow graph (crates/graph: deploy.rs, topology,      *)
(* pin_validator.rs, types.rs; crates/core: pin.rs, lifecycle.rs): the     *)
(* structural check of all edges, the pin checks, the classification of    *)
(* the edges, the second topology over Exec and Reactive edges, on_deploy  *)
(* in that order with roll-back, the start of the runners, the root        *)
(* senders, and the shutdown.  Kahn's loop runs step by step, and the      *)
(* background tasks that on_deploy starts run beside the deployment.       *)
(***************************************************************************)
EXTENDS Naturals, Sequences, FiniteSets

CONSTANTS
  GraphNodes,  \* nodes of the graph
  Inputs,      \* [GraphNodes -> set of input pins [id, kind, required]]
  Outputs,     \* [GraphNodes -> set of output pins [id, kind]]
  EdgeChoices, \* sets of edges [from, fromPin, to, toPin] a graph may have
  Triggers     \* nodes whose on_deploy starts a task

\* An edge of a node that does not exist is refused (topology/mod.rs:90), a pin
\* id that is used twice, too (pin_validator.rs:44).
ASSUME GraphDeployAssumption ==
  /\ Triggers \subseteq GraphNodes /\ IsFiniteSet(GraphNodes)
  /\ \A es \in EdgeChoices :
       IsFiniteSet(es) /\ \A e \in es : e.from \in GraphNodes /\ e.to \in GraphNodes
  /\ \A n \in GraphNodes : \A p, q \in Outputs[n] : p.id = q.id => p = q

VARIABLES
  edges,       \* edges of the graph
  stage,       \* where deploy_workflow stands
  incoming,    \* Kahn: edges into a node that are not consumed
  queue,       \* Kahn: nodes without such edges
  order,       \* Kahn: nodes taken from the queue, deployment_order
  roots,       \* root_nodes of the last topology
  guards,      \* lifecycle_guards, nodes in the order of their on_deploy
  task,        \* background task of a node: none, running, cancelled or ended
  runners,     \* nodes with a run_node task
  waived       \* guards whose shutdown gave up waiting

graphVars == <<edges, stage, incoming, queue, order, roots, guards, task, runners, waived>>

-----------------------------------------------------------------------------
(* Pins                                                                    *)

\* PinKind::is_compatible_with: a Reactive output may feed any input.
KindsFit(from, to) == from = to \/ from = "Reactive"

\* No Exec and no Reactive pin on either side: evaluated when pulled, never run.
PureForm(n) == \A p \in Inputs[n] \cup Outputs[n] : p.kind = "Data"

\* validate_pin_compatibility: both pins of an edge exist and fit, a required
\* input other than "in" has an edge, and no Data or Reactive input is called "in".
PinsFit ==
  /\ \A e \in edges : \E p \in Outputs[e.from], q \in Inputs[e.to] :
       p.id = e.fromPin /\ q.id = e.toPin /\ KindsFit(p.kind, q.kind)
  /\ \A n \in GraphNodes : \A q \in Inputs[n] :
       /\ q.required /\ q.id # "in" => \E e \in edges : e.to = n /\ e.toPin = q.id
       /\ q.id = "in" => q.kind = "Exec"

\* classify_edges: the kind of the source pin decides.
EdgeKind(e) == (CHOOSE p \in Outputs[e.from] : p.id = e.fromPin).kind

Pushing == {e \in edges : EdgeKind(e) # "Data"}

\* The edges the topology of the current stage is computed on.
StageEdges == IF stage = "structure" THEN edges ELSE Pushing

-----------------------------------------------------------------------------
(* topology_for_edges                                                      *)

InDegree(es) == [n \in GraphNodes |-> Cardinality({e \in es : e.to = n})]

Orders(ns) == {s \in [1..Cardinality(ns) -> ns] : \A i, j \in DOMAIN s : s[i] = s[j] => i = j}

\* The roots are sorted by name; the model takes any order.
StartKahn(es) ==
  /\ incoming' = InDegree(es) /\ order' = <<>>
  /\ roots' = {n \in GraphNodes : InDegree(es)[n] = 0}
  /\ queue' \in Orders({n \in GraphNodes : InDegree(es)[n] = 0})

\* One turn of the loop: each edge of the node takes one off its target, and the
\* targets that reach zero are queued in the order of the edges.
TakeFromQueue ==
  /\ stage \in {"structure", "pushing"} /\ queue # <<>>
  /\ LET n    == Head(queue)
         left == [m \in GraphNodes |->
                    incoming[m] - Cardinality({e \in StageEdges : e.from = n /\ e.to = m})]
         free == {m \in GraphNodes : left[m] = 0 /\ incoming[m] # 0}
     IN  /\ order' = Append(order, n) /\ incoming' = left
         /\ \E more \in Orders(free) : queue' = Tail(queue) \o more
  /\ UNCHANGED <<edges, stage, roots, guards, task, runners, waived>>

AllTaken == queue = <<>> /\ Len(order) = Cardinality(GraphNodes)

\* Nodes are left over: the graph is not acyclic, or has no root.
RejectCycle ==
  /\ stage \in {"structure", "pushing"} /\ queue = <<>> /\ ~AllTaken
  /\ stage' = "cyclic"
  /\ UNCHANGED <<edges, incoming, queue, order, roots, guards, task, runners, waived>>

-----------------------------------------------------------------------------
(* deploy_workflow                                                         *)

\* Variables are declared, the nodes are created - a node with a bad
\* configuration is refused -, the pins are checked.
CheckPins(createFails) ==
  /\ stage = "structure" /\ AllTaken
  /\ IF createFails \/ ~PinsFit
     THEN stage' = "refused" /\ UNCHANGED <<incoming, queue, order, roots>>
     ELSE stage' = "pushing" /\ StartKahn(Pushing)
  /\ UNCHANGED <<edges, guards, task, runners, waived>>

\* upsert_connections, then on_deploy of one node after the other.
StartOnDeploy ==
  /\ stage = "pushing" /\ AllTaken
  /\ stage' = "on_deploy"
  /\ UNCHANGED <<edges, incoming, queue, order, roots, guards, task, runners, waived>>

Cancelled(tasks) == [n \in GraphNodes |-> IF tasks[n] = "running" THEN "cancelled" ELSE tasks[n]]

OnDeploySucceeds ==
  /\ stage = "on_deploy" /\ Len(guards) < Len(order)
  /\ LET n == order[Len(guards) + 1]
     IN  /\ guards' = Append(guards, n)
         /\ task' = IF n \in Triggers THEN [task EXCEPT ![n] = "running"] ELSE task
  /\ UNCHANGED <<edges, stage, incoming, queue, order, roots, runners, waived>>

\* A failure that forgets the guards collected so far.
OnDeployFailsLeaking ==
  /\ stage = "on_deploy" /\ Len(guards) < Len(order)
  /\ stage' = "refused" /\ guards' = <<>> /\ UNCHANGED task
  /\ UNCHANGED <<edges, incoming, queue, order, roots, runners, waived>>

\* The error returns: every guard so far is dropped, which cancels its task but
\* does not wait for it.
OnDeployFails ==
  /\ stage = "on_deploy" /\ Len(guards) < Len(order)
  /\ stage' = "refused" /\ guards' = <<>> /\ task' = Cancelled(task)
  /\ UNCHANGED <<edges, incoming, queue, order, roots, runners, waived>>

\* The second loop: the channel of a pure node is dropped, all others are run.
StartRunners ==
  /\ stage = "on_deploy" /\ Len(guards) = Len(order)
  /\ stage' = "deployed" /\ runners' = {n \in GraphNodes : ~PureForm(n)}
  /\ UNCHANGED <<edges, incoming, queue, order, roots, guards, task, waived>>

-----------------------------------------------------------------------------
(* Lifecycle                                                               *)

\* shutdown: the token of the deployment cancels all tasks at once; then the
\* guards are awaited in reverse order.
BeginShutdown ==
  /\ stage = "deployed" /\ stage' = "stopping" /\ task' = Cancelled(task)
  /\ UNCHANGED <<edges, incoming, queue, order, roots, guards, runners, waived>>

LastGuard == guards[Len(guards)]

\* LifecycleGuard::shutdown of a task that ended, or of no task.
AwaitGuard ==
  /\ stage = "stopping" /\ guards # <<>> /\ task[LastGuard] \in {"none", "ended"}
  /\ guards' = SubSeq(guards, 1, Len(guards) - 1)
  /\ UNCHANGED <<edges, stage, incoming, queue, order, roots, task, runners, waived>>

\* The task takes longer than shutdown_timeout: nobody waits for it any more.
AwaitTimesOut ==
  /\ stage = "stopping" /\ guards # <<>> /\ task[LastGuard] = "cancelled"
  /\ waived' = waived \cup {LastGuard}
  /\ guards' = SubSeq(guards, 1, Len(guards) - 1)
  /\ UNCHANGED <<edges, stage, incoming, queue, order, roots, task, runners>>

Stopped ==
  /\ stage = "stopping" /\ guards = <<>> /\ stage' = "stopped"
  /\ UNCHANGED <<edges, incoming, queue, order, roots, guards, task, runners, waived>>

\* A task sees its token, or fails on its own account.
TaskEnds(n) ==
  /\ task[n] \in {"running", "cancelled"}
  /\ task' = [task EXCEPT ![n] = "ended"]
  /\ UNCHANGED <<edges, stage, incoming, queue, order, roots, guards, runners, waived>>

-----------------------------------------------------------------------------
GraphInit ==
  /\ edges \in EdgeChoices /\ stage = "structure"
  /\ incoming = InDegree(edges) /\ order = <<>>
  /\ roots = {n \in GraphNodes : InDegree(edges)[n] = 0}
  /\ queue \in Orders({n \in GraphNodes : InDegree(edges)[n] = 0})
  /\ guards = <<>> /\ task = [n \in GraphNodes |-> "none"] /\ runners = {} /\ waived = {}

DeployStep ==
  \/ TakeFromQueue \/ RejectCycle \/ \E createFails \in BOOLEAN : CheckPins(createFails)
  \/ StartOnDeploy \/ OnDeploySucceeds \/ OnDeployFails \/ StartRunners

GraphNext ==
  \/ DeployStep \/ BeginShutdown \/ AwaitGuard \/ AwaitTimesOut \/ Stopped
  \/ \E n \in GraphNodes : TaskEnds(n)

GraphSpec == GraphInit /\ [][GraphNext]_graphVars

-----------------------------------------------------------------------------
Before(s, m, n) == \E i, j \in DOMAIN s : i < j /\ s[i] = m /\ s[j] = n

\* Some nodes each have an edge from one of them.
Cyclic(es) == \E ns \in (SUBSET GraphNodes) \ {{}} : \A n \in ns : \E e \in es : e.to = n /\ e.from \in ns

\* A graph is refused for a cycle exactly when it has one, and a node's
\* on_deploy runs after that of all nodes that push to it, whatever the Data
\* edges between them say (topology/mod.rs:120-141, deploy.rs:312-316).
OrderIsTopological ==
  /\ stage = "cyclic" => Cyclic(edges)
  /\ stage \notin {"structure", "cyclic"} => ~Cyclic(edges)
  /\ stage \in {"on_deploy", "deployed"} => \A e \in Pushing : Before(order, e.from, e.to)

\* What a running node pushes to has a runner that receives it.  A Reactive
\* output wired to the Data input of a pure node is the exception: that node
\* has no channel any more, and every send to it fails the node that sends
\* (deploy.rs:403-411).
PushTargetsRun ==
  stage = "deployed" =>
    \A e \in Pushing : e.to \in runners \/ (EdgeKind(e) = "Reactive" /\ PureForm(e.to))

\* A deployment that failed leaves no task running for ever: all that on_deploy
\* started have been told to stop.  After a shutdown a task still runs only when
\* the wait for it was given up (lifecycle.rs:266-298).
NoTaskOutlivesDeployment ==
  /\ stage = "refused" => \A n \in GraphNodes : task[n] # "running"
  /\ stage = "stopped" => \A n \in GraphNodes : task[n] \in {"none", "ended"} \/ n \in waived

\* A deployment ends, with a running workflow or an error.
DeploymentEnds == stage = "structure" ~> stage \in {"deployed", "refused", "cyclic"}

\* Deployment orders, starts and stops what the graph says (graph/src/deploy.rs).
DeploySound ==
  /\ OrderIsTopological
  /\ PushTargetsRun
  /\ NoTaskOutlivesDeployment
=============================================================================
