---------------------------- MODULE DeviceProofs ----------------------------
(***************************************************************************)
(* Theorems about the deployment of a workflow graph (GraphDeploy): Kahn's *)
(* loop finds an order exactly when the graph has no cycle, nodes are      *)
(* deployed in that order, and what on_deploy starts is stopped again, for *)
(* every graph.  Then about the script nodes of a graph (FlowNodes): what  *)
(* they send where, however their scripts end; about the frames of a       *)
(* shared CAN bus (CanBus); about the frames cut from what a serial port   *)
(* returns (SerialListener); about the events made of device signals       *)
(* (SignalListener); and about what capability calls put on the wire and   *)
(* read back (CapabilityCall).                                             *)
(***************************************************************************)
EXTENDS WellFoundedInduction, GraphDeploy, FlowNodes, CanBus, SerialListener, SignalListener, CapabilityCall,
        FiniteSetTheorems, SequenceTheorems, TLAPS

Members(s) == {s[i] : i \in 1..Len(s)}
Distinct(s) == \A i, j \in 1..Len(s) : s[i] = s[j] => i = j

\* What the types of the variables are, and which edges there may be.
Stages == {"structure", "pushing", "on_deploy", "deployed", "stopping", "stopped", "cyclic", "refused"}
TaskStates == {"none", "running", "cancelled", "ended"}
GraphTypes ==
  /\ edges \in EdgeChoices /\ stage \in Stages
  /\ incoming \in [GraphNodes -> Int]
  /\ queue \in Seq(GraphNodes) /\ order \in Seq(GraphNodes) /\ guards \in Seq(GraphNodes)
  /\ task \in [GraphNodes -> TaskStates] /\ waived \subseteq GraphNodes

\* Edges whose source is still to be taken from the queue.
Unconsumed(es, m) == {e \in es : e.to = m /\ e.from \notin Members(order)}

\* The loop on the edges es: its counters, what is queued, what is taken.
Counted(es) == \A m \in GraphNodes : incoming[m] = Cardinality(Unconsumed(es, m))
QueueFits ==
  /\ Distinct(queue) /\ Distinct(order) /\ Members(queue) \cap Members(order) = {}
  /\ Members(queue) \cup Members(order) = {m \in GraphNodes : incoming[m] = 0}
\* A taken node comes after those that have an edge to it ...
Sorted(es) ==
  \A i \in 1..Len(order) : \A e \in es : e.to = order[i] =>
    \E j \in 1..Len(order) : j < i /\ order[j] = e.from
\* ... and is in no set of nodes that feed each other.
Feeds(es, ns) == \A n \in ns : \E e \in es : e.to = n /\ e.from \in ns
OffCycles(es) ==
  \A ns \in SUBSET GraphNodes : Feeds(es, ns) => ns \cap Members(order) = {}
Kahn(es) == Counted(es) /\ QueueFits /\ Sorted(es) /\ OffCycles(es)

Order ==
  /\ stage = "structure" => Kahn(edges)
  /\ stage = "pushing" => Kahn(Pushing)
  /\ stage \notin {"structure", "cyclic"} => ~Cyclic(edges)
  /\ stage = "cyclic" => Cyclic(edges)
  /\ stage \in {"on_deploy", "deployed"} => Sorted(Pushing) /\ Members(order) = GraphNodes

\* The pins fit once they have been checked; all nodes that can be pushed to run.
Wired ==
  /\ stage \in {"pushing", "on_deploy", "deployed"} => PinsFit
  /\ stage = "deployed" => runners = {n \in GraphNodes : ~PureForm(n)}

\* A task that has not ended has its guard, or nobody waits for it any more.
Guarded ==
  /\ stage \in {"structure", "pushing", "cyclic"} => \A n \in GraphNodes : task[n] = "none"
  /\ stage \in {"structure", "pushing", "refused", "stopped"} => guards = <<>>
  /\ stage \in {"refused", "stopping", "stopped"} => \A n \in GraphNodes : task[n] # "running"
  /\ stage # "refused" => \A n \in GraphNodes :
       task[n] \in {"running", "cancelled"} => n \in Members(guards) \cup waived

GraphInv == GraphTypes /\ Order /\ Wired /\ Guarded

\* What a sequence has after one more, and a queue that gives up its first.
LEMMA OneMore ==
  ASSUME NEW S, NEW s \in Seq(S), NEW e \in S
  PROVE  /\ Append(s, e) \in Seq(S) /\ Members(Append(s, e)) = Members(s) \cup {e}
         /\ Distinct(s) /\ e \notin Members(s) => Distinct(Append(s, e))
<1>1. /\ Append(s, e) \in Seq(S) /\ Len(Append(s, e)) = Len(s) + 1 /\ Len(s) \in Nat
      /\ \A i \in 1..Len(s) : Append(s, e)[i] = s[i]
      /\ Append(s, e)[Len(s) + 1] = e
  OBVIOUS
<1>2. 1..Len(s) + 1 = (1..Len(s)) \cup {Len(s) + 1}
  BY <1>1
<1>3. Members(Append(s, e)) = Members(s) \cup {e}
  BY <1>1, <1>2 DEF Members
<1>4. Distinct(s) /\ e \notin Members(s) => Distinct(Append(s, e))
  BY <1>1, <1>2 DEF Members, Distinct
<1> QED BY <1>1, <1>3, <1>4

LEMMA Moved ==
  ASSUME NEW S, NEW s \in Seq(S), s # <<>>, Distinct(s),
         NEW t \in Seq(S), Distinct(t), Members(s) \cap Members(t) = {}
  PROVE  /\ Head(s) \in Members(s) /\ Head(s) \in S
         /\ Tail(s) \o t \in Seq(S) /\ Distinct(Tail(s) \o t)
         /\ Members(Tail(s) \o t) = (Members(s) \ {Head(s)}) \cup Members(t)
<1> DEFINE n == Len(s) - 1
           q == Tail(s) \o t
<1>1. /\ n \in Nat /\ Len(s) = n + 1 /\ Head(s) = s[1] /\ Tail(s) \in Seq(S) /\ Len(Tail(s)) = n
      /\ \A i \in 1..n : Tail(s)[i] = s[i + 1]
      /\ Len(t) \in Nat
  OBVIOUS
<1>2. /\ q \in Seq(S) /\ Len(q) = n + Len(t)
      /\ \A i \in 1..n : q[i] = s[i + 1]
      /\ \A i \in 1..Len(t) : q[n + i] = t[i]
  BY <1>1
<1> HIDE DEF n, q
<1>3. Head(s) \in Members(s) /\ Head(s) \in S
  BY <1>1 DEF Members
<1>4. \A i \in 1..Len(q) : \/ i \in 1..n /\ q[i] = s[i + 1] /\ i + 1 \in 1..Len(s)
                           \/ i \notin 1..n /\ i - n \in 1..Len(t) /\ q[i] = t[i - n]
  <2> SUFFICES ASSUME NEW i \in 1..Len(q), i \notin 1..n
               PROVE  i - n \in 1..Len(t) /\ q[i] = t[i - n]
    BY <1>1, <1>2
  <2>1. i - n \in 1..Len(t)
    BY <1>1, <1>2
  <2>2. q[n + (i - n)] = t[i - n] /\ n + (i - n) = i
    BY <1>1, <1>2, <2>1
  <2> QED BY <2>1, <2>2
<1>5. Distinct(q)
  <2> SUFFICES ASSUME NEW i \in 1..Len(q), NEW j \in 1..Len(q), q[i] = q[j] PROVE i = j
    BY DEF Distinct
  <2>1. CASE i \in 1..n /\ j \in 1..n
    BY <1>1, <1>4, <2>1 DEF Distinct
  <2>2. CASE i \notin 1..n /\ j \notin 1..n
    BY <1>1, <1>2, <1>4, <2>2 DEF Distinct
  <2>3. CASE i \in 1..n /\ j \notin 1..n
    <3>1. q[i] \in Members(s) /\ q[j] \in Members(t)
      BY <1>4, <2>3 DEF Members
    <3> QED BY <3>1
  <2>4. CASE i \notin 1..n /\ j \in 1..n
    <3>1. q[i] \in Members(t) /\ q[j] \in Members(s)
      BY <1>4, <2>4 DEF Members
    <3> QED BY <3>1
  <2> QED BY <2>1, <2>2, <2>3, <2>4
<1>6. Members(q) \subseteq (Members(s) \ {Head(s)}) \cup Members(t)
  <2> SUFFICES ASSUME NEW i \in 1..Len(q)
               PROVE  q[i] \in (Members(s) \ {Head(s)}) \cup Members(t)
    BY DEF Members
  <2>1. CASE i \in 1..n
    BY <1>1, <1>4, <2>1 DEF Members, Distinct
  <2>2. CASE i \notin 1..n
    BY <1>4, <2>2 DEF Members
  <2> QED BY <2>1, <2>2
<1>7. Members(t) \subseteq Members(q)
  BY <1>1, <1>2, SMTT(60) DEF Members
<1>8. Members(s) \ {Head(s)} \subseteq Members(q)
  <2> SUFFICES ASSUME NEW i \in 1..Len(s), s[i] # Head(s) PROVE s[i] \in Members(q)
    BY DEF Members
  <2>1. i - 1 \in 1..n /\ i - 1 \in 1..Len(q) /\ (i - 1) + 1 = i
    BY <1>1, <1>2
  <2>2. q[i - 1] = s[i]
    BY <1>2, <2>1
  <2> QED BY <2>1, <2>2 DEF Members
<1>9. Members(q) = (Members(s) \ {Head(s)}) \cup Members(t)
  BY <1>6, <1>7, <1>8
<1> QED BY <1>2, <1>3, <1>5, <1>9 DEF q

\* A sequence without repetitions has all elements if and only if it is as long.
LEMMA AllThere ==
  ASSUME NEW S, IsFiniteSet(S), NEW s \in Seq(S), Distinct(s)
  PROVE  Len(s) = Cardinality(S) <=> Members(s) = S
<1>1. s \in [1..Len(s) -> S] /\ Len(s) \in Nat
  OBVIOUS
<1>2. s \in Injection(1..Len(s), S)
  BY <1>1 DEF Injection, IsInjective, Distinct
<1>3. Cardinality(1..Len(s)) = Len(s)
  <2>1. Cardinality(1..Len(s)) = IF 1 > Len(s) THEN 0 ELSE Len(s) - 1 + 1
    BY <1>1, FS_Interval, SMTT(60)
  <2> QED BY <1>1, <2>1
<1>4. Len(s) = Cardinality(S) <=> s \in Surjection(1..Len(s), S)
  BY <1>2, <1>3, FS_Injection
<1>5. s \in Surjection(1..Len(s), S) <=> Members(s) = S
  BY <1>1 DEF Surjection, Members
<1> QED BY <1>4, <1>5

LEMMA OrdersAre ==
  ASSUME NEW ns \in SUBSET GraphNodes, NEW s \in Orders(ns)
  PROVE  s \in Seq(GraphNodes) /\ Distinct(s) /\ Members(s) = ns
<1>1. IsFiniteSet(ns) /\ Cardinality(ns) \in Nat
  BY GraphDeployAssumption, FS_Subset, FS_CardinalityType
<1>2. s \in [1..Cardinality(ns) -> ns] /\ DOMAIN s = 1..Cardinality(ns)
  BY DEF Orders
<1>3. s \in Seq(ns) /\ Len(s) = Cardinality(ns)
  BY <1>1, <1>2
<1>4. Distinct(s)
  BY <1>2, <1>3 DEF Orders, Distinct
<1>5. Members(s) = ns
  BY <1>1, <1>3, <1>4, AllThere
<1> QED BY <1>3, <1>4, <1>5

\* The edges of a graph, and those of them that push.
LEMMA EdgesAre ==
  ASSUME edges \in EdgeChoices
  PROVE  /\ Pushing \subseteq edges /\ IsFiniteSet(edges) /\ IsFiniteSet(Pushing)
         /\ \A e \in edges : e.from \in GraphNodes /\ e.to \in GraphNodes
<1>1. Pushing \subseteq edges
  BY DEF Pushing
<1> QED BY <1>1, GraphDeployAssumption, FS_Subset

\* A loop that starts on the edges es.
LEMMA KahnStarts ==
  ASSUME NEW es, IsFiniteSet(es), StartKahn(es)
  PROVE  /\ Kahn(es)' /\ incoming' \in [GraphNodes -> Int]
         /\ queue' \in Seq(GraphNodes) /\ order' \in Seq(GraphNodes)
<1> DEFINE free == {n \in GraphNodes : InDegree(es)[n] = 0}
<1>1. incoming' = InDegree(es) /\ order' = <<>> /\ queue' \in Orders(free)
  BY DEF StartKahn
<1>2. /\ \A m \in GraphNodes : IsFiniteSet({e \in es : e.to = m})
      /\ \A m \in GraphNodes : Cardinality({e \in es : e.to = m}) \in Nat
  <2> SUFFICES ASSUME NEW m \in GraphNodes
               PROVE  IsFiniteSet({e \in es : e.to = m}) /\ Cardinality({e \in es : e.to = m}) \in Nat
    OBVIOUS
  <2>1. {e \in es : e.to = m} \in SUBSET es
    OBVIOUS
  <2> QED BY <2>1, FS_Subset, FS_CardinalityType
<1>3. /\ incoming' \in [GraphNodes -> Int]
      /\ \A m \in GraphNodes : incoming'[m] = Cardinality({e \in es : e.to = m})
  BY <1>1, <1>2 DEF InDegree
<1>4. queue' \in Seq(GraphNodes) /\ Distinct(queue') /\ Members(queue') = free
  BY <1>1, OrdersAre
<1>5. order' \in Seq(GraphNodes) /\ Members(order') = {} /\ Distinct(order') /\ Len(order') = 0
  BY <1>1 DEF Members, Distinct
<1>6. \A m \in GraphNodes : Unconsumed(es, m)' = {e \in es : e.to = m}
  BY <1>5 DEF Unconsumed
<1> QED BY <1>1, <1>3, <1>4, <1>5, <1>6 DEF Kahn, Counted, QueueFits, Sorted, OffCycles

\* The edges that are left have a number.
LEMMA Uncounted ==
  ASSUME NEW es, IsFiniteSet(es), NEW m
  PROVE  /\ IsFiniteSet(Unconsumed(es, m)) /\ Cardinality(Unconsumed(es, m)) \in Nat
         /\ Cardinality(Unconsumed(es, m)) = 0 <=> Unconsumed(es, m) = {}
<1>1. Unconsumed(es, m) \in SUBSET es
  BY DEF Unconsumed
<1> QED BY <1>1, FS_Subset, FS_CardinalityType, FS_EmptySet

\* One turn of the loop.
LEMMA KahnTakes ==
  ASSUME GraphTypes, NEW es, IsFiniteSet(es), es = StageEdges, Kahn(es), TakeFromQueue
  PROVE  Kahn(es)' /\ GraphTypes'
<1> DEFINE n == Head(queue)
           left == [m \in GraphNodes |-> incoming[m] - Cardinality({e \in es : e.from = n /\ e.to = m})]
           free == {m \in GraphNodes : left[m] = 0 /\ incoming[m] # 0}
<1>1. /\ order' = Append(order, n) /\ incoming' = left /\ queue # <<>>
      /\ UNCHANGED <<edges, stage, guards, task, waived>>
  BY DEF TakeFromQueue
<1>2. PICK more \in Orders(free) : queue' = Tail(queue) \o more
  BY DEF TakeFromQueue
<1>3. more \in Seq(GraphNodes) /\ Distinct(more) /\ Members(more) = free
  <2>1. free \in SUBSET GraphNodes
    OBVIOUS
  <2> HIDE DEF free
  <2> QED BY <1>2, <2>1, OrdersAre
<1>4. /\ Distinct(queue) /\ Distinct(order) /\ Members(queue) \cap Members(order) = {}
      /\ Members(queue) \cup Members(order) = {m \in GraphNodes : incoming[m] = 0}
      /\ queue \in Seq(GraphNodes) /\ order \in Seq(GraphNodes)
  BY DEF GraphTypes, Kahn, QueueFits
<1>5. Members(queue) \cap Members(more) = {}
  BY <1>3, <1>4
<1>6. /\ n \in Members(queue) /\ n \in GraphNodes /\ incoming[n] = 0
      /\ queue' \in Seq(GraphNodes) /\ Distinct(queue')
      /\ Members(queue') = (Members(queue) \ {n}) \cup free
  <2> HIDE DEF n, left, free
  <2>1. n \in Members(queue) /\ n \in GraphNodes /\ Tail(queue) \o more \in Seq(GraphNodes)
        /\ Distinct(Tail(queue) \o more) /\ Members(Tail(queue) \o more) = (Members(queue) \ {n}) \cup free
    BY <1>1, <1>3, <1>4, <1>5, Moved DEF n
  <2> QED BY <1>2, <1>4, <2>1
<1>7. /\ order' \in Seq(GraphNodes) /\ Members(order') = Members(order) \cup {n} /\ Distinct(order')
      /\ n \notin Members(order)
  <2>1. n \notin Members(order)
    BY <1>4, <1>6
  <2> HIDE DEF n
  <2> QED BY <1>1, <1>4, <1>6, <2>1, OneMore
<1> HIDE DEF n
\* What was the number of edges left is so without those of the node taken.
<1>8. Counted(es)' /\ incoming' \in [GraphNodes -> Int]
  <2> SUFFICES ASSUME NEW m \in GraphNodes
               PROVE  left[m] = Cardinality(Unconsumed(es, m)') /\ left[m] \in Int
    BY <1>1 DEF Counted
  <2> DEFINE U == Unconsumed(es, m)
             T == {e \in es : e.from = n /\ e.to = m}
  <2>1. T \subseteq U /\ Unconsumed(es, m)' = U \ T
    BY <1>7 DEF Unconsumed
  <2>2. IsFiniteSet(U) /\ Cardinality(U) \in Nat /\ incoming[m] = Cardinality(U)
    BY Uncounted DEF Kahn, Counted
  <2>3. left[m] = incoming[m] - Cardinality(T)
    OBVIOUS
  <2> HIDE DEF U, T
  <2>4. U \cap T = T /\ IsFiniteSet(T) /\ Cardinality(T) \in Nat
    BY <2>1, <2>2, FS_Subset, FS_CardinalityType
  <2>5. Cardinality(U \ T) = Cardinality(U) - Cardinality(U \cap T)
    BY <2>2, FS_Difference
  <2> HIDE DEF left
  <2> QED BY <2>1, <2>2, <2>3, <2>4, <2>5
<1>9. \A m \in GraphNodes : incoming'[m] = 0 <=> Unconsumed(es, m)' = {}
  <2>1. \A m : Cardinality(Unconsumed(es, m)') = 0 <=> Unconsumed(es, m)' = {}
    <3>1. ASSUME NEW m PROVE Unconsumed(es, m)' \in SUBSET es
      BY DEF Unconsumed
    <3> QED BY <3>1, FS_Subset, FS_EmptySet
  <2> QED BY <1>8, <2>1 DEF Counted
<1>10. \A m \in GraphNodes : incoming[m] = 0 <=> Unconsumed(es, m) = {}
  BY Uncounted DEF Kahn, Counted
<1>11. \A m \in GraphNodes : incoming[m] = 0 => incoming'[m] = 0
  BY <1>7, <1>9, <1>10 DEF Unconsumed
<1>12. QueueFits'
  <2>1. \A m \in GraphNodes : m \in free <=> incoming'[m] = 0 /\ incoming[m] # 0
    BY <1>1
  <2> HIDE DEF free, left
  <2>2. free \subseteq GraphNodes
    BY DEF free
  <2>3. Members(queue') \cap Members(order') = {}
    BY <1>4, <1>6, <1>7, <2>1, <2>2
  <2>4. \A m \in GraphNodes : m \in Members(queue') \cup Members(order') <=> incoming'[m] = 0
    BY <1>4, <1>6, <1>7, <1>11, <2>1
  <2>5. Members(queue') \cup Members(order') \subseteq GraphNodes
    BY <1>4, <1>6, <1>7, <2>2
  <2>6. Members(queue') \cup Members(order') = {m \in GraphNodes : incoming'[m] = 0}
    BY <2>4, <2>5
  <2> QED BY <1>6, <1>7, <2>3, <2>6 DEF QueueFits
<1>13. \A e \in es : e.to = n => e.from \in Members(order)
  BY <1>6, <1>10 DEF Unconsumed
<1>14. Sorted(es)'
  <2>1. /\ Len(order') = Len(order) + 1 /\ Len(order) \in Nat
        /\ \A i \in 1..Len(order) : order'[i] = order[i]
        /\ order'[Len(order) + 1] = n
    BY <1>1, <1>4, <1>6
  <2> SUFFICES ASSUME NEW i \in 1..Len(order'), NEW e \in es, e.to = order'[i]
               PROVE  \E j \in 1..Len(order') : j < i /\ order'[j] = e.from
    BY DEF Sorted
  <2>2. CASE i \in 1..Len(order)
    <3>1. PICK j \in 1..Len(order) : j < i /\ order[j] = e.from
      BY <2>1, <2>2 DEF Kahn, Sorted
    <3> QED BY <2>1, <3>1
  <2>3. CASE i = Len(order) + 1
    <3>1. PICK j \in 1..Len(order) : order[j] = e.from
      BY <1>13, <2>1, <2>3 DEF Members
    <3> QED BY <2>1, <2>3, <3>1
  <2> QED BY <2>1, <2>2, <2>3
<1>15. OffCycles(es)'
  <2> SUFFICES ASSUME NEW ns \in SUBSET GraphNodes, Feeds(es, ns)
               PROVE  ns \cap Members(order') = {}
    BY DEF OffCycles, Feeds
  <2>1. ns \cap Members(order) = {}
    BY DEF Kahn, OffCycles
  <2>2. n \notin ns
    BY <1>13, <2>1 DEF Feeds
  <2> QED BY <1>7, <2>1, <2>2
<1>16. GraphTypes'
  BY <1>1, <1>6, <1>7, <1>8 DEF GraphTypes
<1> QED BY <1>8, <1>12, <1>14, <1>15, <1>16 DEF Kahn

\* When the queue is empty and nodes are left, these feed each other.
LEMMA LeftOver ==
  ASSUME GraphTypes, NEW es, IsFiniteSet(es), Kahn(es),
         \A e \in es : e.from \in GraphNodes /\ e.to \in GraphNodes,
         queue = <<>>, ~AllTaken
  PROVE  Cyclic(es)
<1> DEFINE ns == {m \in GraphNodes : incoming[m] # 0}
<1>1. Members(queue) = {}
  BY DEF Members
<1>2. Members(order) = {m \in GraphNodes : incoming[m] = 0} /\ Distinct(order) /\ order \in Seq(GraphNodes)
  BY <1>1 DEF Kahn, QueueFits, GraphTypes
<1>3. Members(order) # GraphNodes
  BY <1>2, AllThere, GraphDeployAssumption DEF AllTaken
<1>4. ns # {}
  BY <1>2, <1>3
<1>5. ASSUME NEW m \in ns PROVE \E e \in es : e.to = m /\ e.from \in ns
  <2>1. Unconsumed(es, m) # {}
    BY <1>5, Uncounted DEF Kahn, Counted
  <2> QED BY <1>2, <2>1 DEF Unconsumed
<1> QED BY <1>4, <1>5 DEF Cyclic

\* When all nodes are taken, there is no cycle.
LEMMA NoneLeft ==
  ASSUME GraphTypes, NEW es, Kahn(es), AllTaken
  PROVE  ~Cyclic(es) /\ Members(order) = GraphNodes
<1>1. Members(order) = GraphNodes
  BY AllThere, GraphDeployAssumption DEF Kahn, QueueFits, GraphTypes, AllTaken
<1>2. SUFFICES ASSUME Cyclic(es) PROVE FALSE
  BY <1>1
<1>3. PICK ns \in (SUBSET GraphNodes) \ {{}} : Feeds(es, ns)
  BY <1>2 DEF Cyclic, Feeds
<1>4. ns \cap Members(order) = {}
  BY <1>3 DEF Kahn, OffCycles
<1> QED BY <1>1, <1>3, <1>4

\* What does not change when the graph and the loop's state do not.
LEMMA SameGraph ==
  ASSUME UNCHANGED edges
  PROVE  Pushing' = Pushing /\ (PinsFit <=> PinsFit') /\ (Cyclic(edges) <=> Cyclic(edges)')
<1>1. Pushing' = Pushing
  BY DEF Pushing, EdgeKind
<1>2. PinsFit <=> PinsFit'
  BY DEF PinsFit
<1>3. Cyclic(edges) <=> Cyclic(edges)'
  BY DEF Cyclic
<1> QED BY <1>1, <1>2, <1>3

LEMMA SameLoop ==
  ASSUME UNCHANGED <<edges, incoming, queue, order>>
  PROVE  /\ Kahn(edges) <=> Kahn(edges)'
         /\ Kahn(Pushing) <=> Kahn(Pushing)'
         /\ Sorted(Pushing) <=> Sorted(Pushing)'
         /\ Members(order)' = Members(order)
<1>1. Pushing' = Pushing
  BY SameGraph
<1>2. Members(order)' = Members(order) /\ QueueFits' = QueueFits
  BY DEF Members, QueueFits, Distinct
<1>3. /\ Counted(edges)' = Counted(edges) /\ Counted(Pushing)' = Counted(Pushing)
  BY <1>1, <1>2 DEF Counted, Unconsumed
<1>4. /\ Sorted(edges)' = Sorted(edges) /\ Sorted(Pushing)' = Sorted(Pushing)
  BY <1>1 DEF Sorted
<1>5. /\ OffCycles(edges)' = OffCycles(edges) /\ OffCycles(Pushing)' = OffCycles(Pushing)
  BY <1>1, <1>2 DEF OffCycles, Feeds
<1> QED BY <1>2, <1>3, <1>4, <1>5 DEF Kahn

\* A loop on edges given by a constant is a loop on the edges of the graph.
LEMMA SameEdges ==
  ASSUME NEW es, Kahn(es)'
  PROVE  /\ edges' = es => Kahn(edges)'
         /\ Pushing' = es => Kahn(Pushing)'
<1>1. ASSUME edges' = es PROVE Kahn(edges)'
  BY <1>1 DEF Kahn, Counted, Unconsumed, Sorted, OffCycles, Feeds
<1>2. ASSUME Pushing' = es PROVE Kahn(Pushing)'
  BY <1>2 DEF Kahn, Counted, Unconsumed, Sorted, OffCycles, Feeds
<1> QED BY <1>1, <1>2

-----------------------------------------------------------------------------
LEMMA GraphStarts == GraphInit => GraphInv
<1> SUFFICES ASSUME GraphInit PROVE GraphInv
  OBVIOUS
<1> DEFINE free == {n \in GraphNodes : InDegree(edges)[n] = 0}
<1>1. /\ edges \in EdgeChoices /\ stage = "structure" /\ guards = <<>> /\ waived = {}
      /\ incoming = InDegree(edges) /\ order = <<>> /\ queue \in Orders(free)
      /\ task = [n \in GraphNodes |-> "none"]
  BY DEF GraphInit
<1>2. IsFiniteSet(edges)
  BY <1>1, EdgesAre
<1>3. \A m \in GraphNodes : Cardinality({e \in edges : e.to = m}) \in Nat
  <2> SUFFICES ASSUME NEW m \in GraphNodes PROVE Cardinality({e \in edges : e.to = m}) \in Nat
    OBVIOUS
  <2>1. {e \in edges : e.to = m} \in SUBSET edges
    OBVIOUS
  <2> QED BY <1>2, <2>1, FS_Subset, FS_CardinalityType
<1>4. /\ incoming \in [GraphNodes -> Int]
      /\ \A m \in GraphNodes : incoming[m] = Cardinality({e \in edges : e.to = m})
  BY <1>1, <1>3 DEF InDegree
<1>5. queue \in Seq(GraphNodes) /\ Distinct(queue) /\ Members(queue) = free
  BY <1>1, OrdersAre
<1>6. order \in Seq(GraphNodes) /\ Members(order) = {} /\ Distinct(order) /\ Len(order) = 0
  BY <1>1 DEF Members, Distinct
<1>7. \A m \in GraphNodes : Unconsumed(edges, m) = {e \in edges : e.to = m}
  BY <1>6 DEF Unconsumed
<1>8. Kahn(edges)
  BY <1>1, <1>4, <1>5, <1>6, <1>7 DEF Kahn, Counted, QueueFits, Sorted, OffCycles
<1>9. GraphTypes
  BY <1>1, <1>4, <1>5, <1>6 DEF GraphTypes, Stages, TaskStates
<1> QED BY <1>1, <1>8, <1>9 DEF GraphInv, Order, Wired, Guarded

LEMMA TakePreserves == GraphInv /\ TakeFromQueue => GraphInv'
<1> SUFFICES ASSUME GraphInv, TakeFromQueue PROVE GraphInv'
  OBVIOUS
<1>1. /\ UNCHANGED <<edges, stage, roots, guards, task, runners, waived>>
      /\ stage \in {"structure", "pushing"}
  BY DEF TakeFromQueue
<1>2. IsFiniteSet(edges) /\ IsFiniteSet(Pushing)
  BY EdgesAre DEF GraphInv, GraphTypes
<1>3. PICK es : es = StageEdges
  OBVIOUS
<1>4. IsFiniteSet(es) /\ Kahn(es)
  BY <1>1, <1>2, <1>3 DEF StageEdges, GraphInv, Order
<1>5. Kahn(es)' /\ GraphTypes'
  BY <1>3, <1>4, KahnTakes DEF GraphInv
<1>6. Pushing' = Pushing /\ (PinsFit <=> PinsFit') /\ (Cyclic(edges) <=> Cyclic(edges)')
  BY <1>1, SameGraph
<1>7. /\ stage = "structure" => Kahn(edges)'
      /\ stage = "pushing" => Kahn(Pushing)'
  BY <1>1, <1>3, <1>5, <1>6, SameEdges DEF StageEdges
<1>8. Order'
  BY <1>1, <1>6, <1>7 DEF GraphInv, Order
<1>9. Wired'
  BY <1>1, <1>6 DEF GraphInv, Wired
<1>10. Guarded'
  BY <1>1 DEF GraphInv, Guarded, Members
<1> QED BY <1>5, <1>8, <1>9, <1>10 DEF GraphInv

LEMMA CyclePreserves == GraphInv /\ RejectCycle => GraphInv'
<1> SUFFICES ASSUME GraphInv, RejectCycle PROVE GraphInv'
  OBVIOUS
<1>1. /\ UNCHANGED <<edges, incoming, queue, order, roots, guards, task, runners, waived>>
      /\ stage \in {"structure", "pushing"} /\ queue = <<>> /\ ~AllTaken /\ stage' = "cyclic"
  BY DEF RejectCycle
<1>2. /\ IsFiniteSet(edges) /\ IsFiniteSet(Pushing) /\ Pushing \subseteq edges
      /\ \A e \in edges : e.from \in GraphNodes /\ e.to \in GraphNodes
  BY EdgesAre DEF GraphInv, GraphTypes
<1>3. ASSUME stage = "structure" PROVE Cyclic(edges)
  BY <1>1, <1>2, <1>3, LeftOver DEF GraphInv, Order
\* The second topology never refuses: a cycle of it is one of the first.
<1>4. ASSUME stage = "pushing" PROVE Cyclic(edges)
  <2>1. Cyclic(Pushing)
    BY <1>1, <1>2, <1>4, LeftOver DEF GraphInv, Order
  <2> QED BY <1>2, <2>1 DEF Cyclic
<1>5. Cyclic(edges)
  BY <1>1, <1>3, <1>4
<1>6. Cyclic(edges)'
  BY <1>1, <1>5, SameGraph
<1>7. Order' /\ Wired'
  BY <1>1, <1>6 DEF Order, Wired
<1>8. Guarded'
  BY <1>1 DEF GraphInv, Guarded, Members
<1>9. GraphTypes'
  BY <1>1 DEF GraphInv, GraphTypes, Stages
<1> QED BY <1>7, <1>8, <1>9 DEF GraphInv

LEMMA PinsPreserve ==
  ASSUME GraphInv, NEW createFails \in BOOLEAN, CheckPins(createFails)
  PROVE  GraphInv'
<1>1. /\ UNCHANGED <<edges, guards, task, runners, waived>>
      /\ stage = "structure" /\ AllTaken
  BY DEF CheckPins
<1>2. ~Cyclic(edges)
  BY <1>1, NoneLeft DEF GraphInv, Order
<1>3. /\ Pushing' = Pushing /\ (PinsFit <=> PinsFit') /\ ~Cyclic(edges)'
  BY <1>1, <1>2, SameGraph
<1>4. \A n \in GraphNodes : task[n] = "none"
  BY <1>1 DEF GraphInv, Guarded
<1>5. CASE createFails \/ ~PinsFit
  <2>1. stage' = "refused" /\ UNCHANGED <<incoming, queue, order, roots>>
    BY <1>5 DEF CheckPins
  <2>2. Order' /\ Wired'
    BY <1>3, <2>1 DEF Order, Wired
  <2>3. Guarded'
    BY <1>1, <1>4, <2>1 DEF GraphInv, Guarded, Members
  <2>4. GraphTypes'
    BY <1>1, <2>1 DEF GraphInv, GraphTypes, Stages
  <2> QED BY <2>2, <2>3, <2>4 DEF GraphInv
<1>6. CASE ~(createFails \/ ~PinsFit)
  <2>1. stage' = "pushing" /\ StartKahn(Pushing) /\ PinsFit
    BY <1>6 DEF CheckPins
  <2>2. IsFiniteSet(Pushing)
    BY EdgesAre DEF GraphInv, GraphTypes
  <2>3. PICK es : es = Pushing
    OBVIOUS
  <2>4. IsFiniteSet(es) /\ StartKahn(es)
    BY <2>1, <2>2, <2>3
  <2>5. /\ Kahn(es)' /\ incoming' \in [GraphNodes -> Int]
        /\ queue' \in Seq(GraphNodes) /\ order' \in Seq(GraphNodes)
    BY <2>4, KahnStarts
  <2>6. Kahn(Pushing)'
    BY <1>3, <2>3, <2>5, SameEdges
  <2>7. Order' /\ Wired'
    BY <1>3, <2>1, <2>6 DEF Order, Wired
  <2>8. Guarded'
    BY <1>1, <1>4, <2>1 DEF GraphInv, Guarded, Members
  <2>9. GraphTypes'
    BY <1>1, <2>1, <2>5 DEF GraphInv, GraphTypes, Stages
  <2> QED BY <2>7, <2>8, <2>9 DEF GraphInv
<1> QED BY <1>5, <1>6

LEMMA StartPreserves == GraphInv /\ StartOnDeploy => GraphInv'
<1> SUFFICES ASSUME GraphInv, StartOnDeploy PROVE GraphInv'
  OBVIOUS
<1>1. /\ UNCHANGED <<edges, incoming, queue, order, roots, guards, task, runners, waived>>
      /\ stage = "pushing" /\ AllTaken /\ stage' = "on_deploy"
  BY DEF StartOnDeploy
<1>2. Members(order) = GraphNodes /\ Sorted(Pushing) /\ ~Cyclic(edges) /\ PinsFit
  BY <1>1, NoneLeft DEF GraphInv, Order, Wired, Kahn
<1>3. Order'
  BY <1>1, <1>2, SameGraph, SameLoop DEF Order
<1>4. Wired'
  BY <1>1, <1>2, SameGraph DEF Wired
<1>5. Guarded'
  BY <1>1 DEF GraphInv, Guarded, Members
<1>6. GraphTypes'
  BY <1>1 DEF GraphInv, GraphTypes, Stages
<1> QED BY <1>3, <1>4, <1>5, <1>6 DEF GraphInv

\* Steps after the two loops leave the graph and the order alone.
LEMMA LaterStages ==
  ASSUME GraphInv, UNCHANGED <<edges, incoming, queue, order, runners>>,
         \/ stage = "on_deploy" /\ stage' \in {"on_deploy", "refused"}
         \/ stage = "deployed" /\ stage' \in {"deployed", "stopping"}
         \/ stage = "stopping" /\ stage' \in {"stopping", "stopped"}
         \/ stage' = stage
  PROVE  Order' /\ Wired' /\ stage' \in Stages
<1>1. Pushing' = Pushing /\ (PinsFit <=> PinsFit') /\ (Cyclic(edges) <=> Cyclic(edges)')
  BY SameGraph
<1>2. /\ Kahn(edges) <=> Kahn(edges)'
      /\ Kahn(Pushing) <=> Kahn(Pushing)'
      /\ Sorted(Pushing) <=> Sorted(Pushing)'
      /\ Members(order)' = Members(order)
  BY SameLoop
<1>3. Order'
  BY <1>1, <1>2 DEF GraphInv, Order
<1>4. Wired'
  BY <1>1 DEF GraphInv, Wired
<1> QED BY <1>3, <1>4 DEF GraphInv, GraphTypes, Stages

LEMMA TaskTypes ==
  ASSUME GraphTypes
  PROVE  /\ Cancelled(task) \in [GraphNodes -> TaskStates]
         /\ \A n \in GraphNodes : Cancelled(task)[n] # "running"
         /\ \A n \in GraphNodes : Cancelled(task)[n] = "cancelled" => task[n] \in {"running", "cancelled"}
BY DEF GraphTypes, Cancelled, TaskStates

LEMMA DeployPreserves == GraphInv /\ OnDeploySucceeds => GraphInv'
<1> SUFFICES ASSUME GraphInv, OnDeploySucceeds PROVE GraphInv'
  OBVIOUS
<1> DEFINE n == order[Len(guards) + 1]
<1>1. /\ UNCHANGED <<edges, stage, incoming, queue, order, roots, runners, waived>>
      /\ stage = "on_deploy" /\ Len(guards) < Len(order) /\ guards' = Append(guards, n)
      /\ task' = IF n \in Triggers THEN [task EXCEPT ![n] = "running"] ELSE task
  BY DEF OnDeploySucceeds
<1>2. /\ n \in GraphNodes /\ guards \in Seq(GraphNodes) /\ task \in [GraphNodes -> TaskStates]
  BY <1>1 DEF GraphInv, GraphTypes
<1> HIDE DEF n
<1>3. guards' \in Seq(GraphNodes) /\ Members(guards)' = Members(guards) \cup {n}
  <2>1. Append(guards, n) \in Seq(GraphNodes) /\ Members(Append(guards, n)) = Members(guards) \cup {n}
    BY <1>2, OneMore
  <2> QED BY <1>1, <2>1 DEF Members
<1>4. task' \in [GraphNodes -> TaskStates] /\ \A m \in GraphNodes : m # n => task'[m] = task[m]
  BY <1>1, <1>2 DEF TaskStates
<1>5. Guarded'
  BY <1>1, <1>3, <1>4 DEF GraphInv, Guarded
<1>6. GraphTypes'
  BY <1>1, <1>3, <1>4 DEF GraphInv, GraphTypes
<1> QED BY <1>1, <1>5, <1>6, LaterStages DEF GraphInv

\* The error returns of a failed on_deploy, and the start of the shutdown: all
\* tasks are told to stop.
LEMMA FailPreserves == GraphInv /\ OnDeployFails => GraphInv'
<1> SUFFICES ASSUME GraphInv, OnDeployFails PROVE GraphInv'
  OBVIOUS
<1>1. /\ UNCHANGED <<edges, incoming, queue, order, roots, runners, waived>>
      /\ stage = "on_deploy" /\ stage' = "refused" /\ guards' = <<>> /\ task' = Cancelled(task)
  BY DEF OnDeployFails
<1>2. /\ task' \in [GraphNodes -> TaskStates]
      /\ \A n \in GraphNodes : task'[n] # "running"
  BY <1>1, TaskTypes DEF GraphInv
<1>3. Guarded'
  BY <1>1, <1>2 DEF Guarded
<1>4. GraphTypes'
  BY <1>1, <1>2 DEF GraphInv, GraphTypes, Stages
<1> QED BY <1>1, <1>3, <1>4, LaterStages DEF GraphInv

LEMMA ShutdownPreserves == GraphInv /\ BeginShutdown => GraphInv'
<1> SUFFICES ASSUME GraphInv, BeginShutdown PROVE GraphInv'
  OBVIOUS
<1>1. /\ UNCHANGED <<edges, incoming, queue, order, roots, guards, runners, waived>>
      /\ stage = "deployed" /\ stage' = "stopping" /\ task' = Cancelled(task)
  BY DEF BeginShutdown
<1>2. /\ task' \in [GraphNodes -> TaskStates]
      /\ \A n \in GraphNodes : task'[n] # "running"
      /\ \A n \in GraphNodes : task'[n] = "cancelled" => task[n] \in {"running", "cancelled"}
  BY <1>1, TaskTypes DEF GraphInv
<1>3. Members(guards)' = Members(guards)
  BY <1>1 DEF Members
<1>4. Guarded'
  BY <1>1, <1>2, <1>3 DEF GraphInv, Guarded
<1>5. GraphTypes'
  BY <1>1, <1>2 DEF GraphInv, GraphTypes, Stages
<1> QED BY <1>1, <1>4, <1>5, LaterStages DEF GraphInv

LEMMA RunnersPreserve == GraphInv /\ StartRunners => GraphInv'
<1> SUFFICES ASSUME GraphInv, StartRunners PROVE GraphInv'
  OBVIOUS
<1>1. /\ UNCHANGED <<edges, incoming, queue, order, roots, guards, task, waived>>
      /\ stage = "on_deploy" /\ stage' = "deployed" /\ runners' = {n \in GraphNodes : ~PureForm(n)}
  BY DEF StartRunners
<1>2. /\ PinsFit <=> PinsFit' 
      /\ Cyclic(edges) <=> Cyclic(edges)'
      /\ Sorted(Pushing) <=> Sorted(Pushing)'
      /\ Members(order)' = Members(order)
  BY <1>1, SameGraph, SameLoop
<1>3. Order' /\ Wired'
  BY <1>1, <1>2 DEF GraphInv, Order, Wired
<1>4. Guarded'
  BY <1>1 DEF GraphInv, Guarded, Members
<1>5. GraphTypes'
  BY <1>1 DEF GraphInv, GraphTypes, Stages
<1> QED BY <1>3, <1>4, <1>5 DEF GraphInv

\* A sequence without its last element.
LEMMA OneLess ==
  ASSUME NEW S, NEW s \in Seq(S), s # <<>>
  PROVE  /\ s[Len(s)] \in S /\ SubSeq(s, 1, Len(s) - 1) \in Seq(S)
         /\ Members(s) \ {s[Len(s)]} \subseteq Members(SubSeq(s, 1, Len(s) - 1))
<1> DEFINE t == SubSeq(s, 1, Len(s) - 1)
<1>1. /\ Len(s) \in Nat /\ Len(s) >= 1 /\ s[Len(s)] \in S
      /\ t \in Seq(S) /\ Len(t) = Len(s) - 1
      /\ \A i \in 1..Len(s) - 1 : t[i] = s[i]
  <2>1. Len(s) \in Nat /\ Len(s) >= 1 /\ s[Len(s)] \in S
    OBVIOUS
  <2>2. /\ t \in Seq(S) /\ Len(t) = Len(s) - 1
        /\ \A i \in 1..Len(s) - 1 : t[i] = s[i]
    <3> DEFINE n == Len(s) - 1
    <3>1. n \in Nat /\ 1 \in Int /\ n \in Int /\ \A i \in 1..n : s[i] \in S
      BY <2>1
    <3> HIDE DEF n
    <3>2. /\ SubSeq(s, 1, n) \in Seq(S) /\ Len(SubSeq(s, 1, n)) = IF 1 <= n THEN n - 1 + 1 ELSE 0
          /\ \A i \in 1..n - 1 + 1 : SubSeq(s, 1, n)[i] = s[1 + i - 1]
      BY <3>1, SubSeqProperties
    <3>3. /\ SubSeq(s, 1, n) \in Seq(S) /\ Len(SubSeq(s, 1, n)) = n
          /\ \A i \in 1..n : SubSeq(s, 1, n)[i] = s[i]
      BY <3>1, <3>2
    <3> QED BY <3>3 DEF n
  <2> QED BY <2>1, <2>2
<1> HIDE DEF t
<1>2. ASSUME NEW i \in 1..Len(s), s[i] # s[Len(s)] PROVE s[i] \in Members(t)
  <2>1. i \in 1..Len(t) /\ i \in 1..Len(s) - 1
    BY <1>1, <1>2
  <2> QED BY <1>1, <2>1 DEF Members
<1> QED BY <1>1, <1>2 DEF Members, t

LEMMA AwaitPreserves == GraphInv /\ (AwaitGuard \/ AwaitTimesOut) => GraphInv'
<1> SUFFICES ASSUME GraphInv, AwaitGuard \/ AwaitTimesOut PROVE GraphInv'
  OBVIOUS
<1>1. /\ UNCHANGED <<edges, stage, incoming, queue, order, roots, task, runners>>
      /\ stage = "stopping" /\ guards # <<>>
      /\ guards' = SubSeq(guards, 1, Len(guards) - 1)
      /\ \/ waived' = waived /\ task[LastGuard] \in {"none", "ended"}
         \/ waived' = waived \cup {LastGuard}
  BY DEF AwaitGuard, AwaitTimesOut
<1>2. /\ LastGuard \in GraphNodes /\ guards' \in Seq(GraphNodes)
      /\ Members(guards) \ {LastGuard} \subseteq Members(guards)'
  <2>1. guards \in Seq(GraphNodes)
    BY DEF GraphInv, GraphTypes
  <2>2. /\ guards[Len(guards)] \in GraphNodes /\ SubSeq(guards, 1, Len(guards) - 1) \in Seq(GraphNodes)
        /\ Members(guards) \ {guards[Len(guards)]} \subseteq Members(SubSeq(guards, 1, Len(guards) - 1))
    BY <1>1, <2>1, OneLess
  <2> QED BY <1>1, <2>2 DEF LastGuard, Members
<1>3. Guarded'
  BY <1>1, <1>2 DEF GraphInv, Guarded
<1>4. GraphTypes'
  BY <1>1, <1>2 DEF GraphInv, GraphTypes
<1> QED BY <1>1, <1>3, <1>4, LaterStages DEF GraphInv

LEMMA StopPreserves == GraphInv /\ Stopped => GraphInv'
<1> SUFFICES ASSUME GraphInv, Stopped PROVE GraphInv'
  OBVIOUS
<1>1. /\ UNCHANGED <<edges, incoming, queue, order, roots, guards, task, runners, waived>>
      /\ stage = "stopping" /\ stage' = "stopped" /\ guards = <<>>
  BY DEF Stopped
<1>2. Guarded'
  BY <1>1 DEF GraphInv, Guarded, Members
<1>3. GraphTypes'
  BY <1>1 DEF GraphInv, GraphTypes, Stages
<1> QED BY <1>1, <1>2, <1>3, LaterStages DEF GraphInv

LEMMA EndPreserves ==
  ASSUME GraphInv, NEW n \in GraphNodes, TaskEnds(n)
  PROVE  GraphInv'
<1>1. /\ UNCHANGED <<edges, stage, incoming, queue, order, roots, guards, runners, waived>>
      /\ task[n] \in {"running", "cancelled"} /\ task' = [task EXCEPT ![n] = "ended"]
  BY DEF TaskEnds
<1>2. /\ task' \in [GraphNodes -> TaskStates] /\ task'[n] = "ended"
      /\ \A m \in GraphNodes : m # n => task'[m] = task[m]
  BY <1>1 DEF GraphInv, GraphTypes, TaskStates
<1>3. stage \notin {"structure", "pushing", "cyclic"}
  BY <1>1 DEF GraphInv, Guarded
<1>4. Members(guards)' = Members(guards)
  BY <1>1 DEF Members
<1>5. Guarded'
  BY <1>1, <1>2, <1>3, <1>4 DEF GraphInv, Guarded
<1>6. GraphTypes'
  BY <1>1, <1>2 DEF GraphInv, GraphTypes
<1> QED BY <1>1, <1>5, <1>6, LaterStages DEF GraphInv

LEMMA GraphPreserves == GraphInv /\ [GraphNext]_graphVars => GraphInv'
<1> SUFFICES ASSUME GraphInv, [GraphNext]_graphVars PROVE GraphInv'
  OBVIOUS
<1>1. CASE UNCHANGED graphVars
  <2>1. UNCHANGED <<edges, stage, incoming, queue, order, guards, task, runners, waived>>
    BY <1>1 DEF graphVars
  <2>2. GraphTypes' /\ Guarded'
    BY <2>1 DEF GraphInv, GraphTypes, Guarded, Members
  <2> QED BY <2>1, <2>2, LaterStages DEF GraphInv
<1>2. CASE DeployStep
  <2>1. ASSUME NEW createFails \in BOOLEAN, CheckPins(createFails) PROVE GraphInv'
    BY <2>1, PinsPreserve
  <2> QED BY <1>2, <2>1, TakePreserves, CyclePreserves, StartPreserves, DeployPreserves,
             FailPreserves, RunnersPreserve DEF DeployStep
<1>3. CASE BeginShutdown
  BY <1>3, ShutdownPreserves
<1>4. CASE AwaitGuard \/ AwaitTimesOut
  BY <1>4, AwaitPreserves
<1>5. CASE Stopped
  BY <1>5, StopPreserves
<1>6. ASSUME NEW n \in GraphNodes, TaskEnds(n) PROVE GraphInv'
  BY <1>6, EndPreserves
<1> QED BY <1>1, <1>2, <1>3, <1>4, <1>5, <1>6 DEF GraphNext

-----------------------------------------------------------------------------
\* All edges that push are in the order of the deployment.
LEMMA SortedIsTopological ==
  ASSUME GraphTypes, Sorted(Pushing), Members(order) = GraphNodes
  PROVE  \A e \in Pushing : Before(order, e.from, e.to)
<1> SUFFICES ASSUME NEW e \in Pushing PROVE Before(order, e.from, e.to)
  OBVIOUS
<1>1. e.to \in GraphNodes
  BY EdgesAre DEF GraphTypes
<1>2. PICK i \in 1..Len(order) : order[i] = e.to
  BY <1>1 DEF Members
<1>3. PICK j \in 1..Len(order) : j < i /\ order[j] = e.from
  BY <1>2 DEF Sorted
<1>4. DOMAIN order = 1..Len(order)
  BY DEF GraphTypes
<1> QED BY <1>2, <1>3, <1>4 DEF Before

\* The pin an edge leaves from is the one that decides its kind.
LEMMA PinsDecide ==
  ASSUME GraphTypes, PinsFit, NEW e \in Pushing, e.to \notin {n \in GraphNodes : ~PureForm(n)}
  PROVE  EdgeKind(e) = "Reactive" /\ PureForm(e.to)
<1>1. e \in edges /\ e.from \in GraphNodes /\ e.to \in GraphNodes /\ EdgeKind(e) # "Data"
  BY EdgesAre DEF GraphTypes, Pushing
<1>2. PureForm(e.to)
  BY <1>1
<1>3. PICK p \in Outputs[e.from], q \in Inputs[e.to] :
        p.id = e.fromPin /\ q.id = e.toPin /\ KindsFit(p.kind, q.kind)
  BY <1>1 DEF PinsFit
<1> DEFINE c == CHOOSE r \in Outputs[e.from] : r.id = e.fromPin
<1>4. c \in Outputs[e.from] /\ c.id = e.fromPin
  BY <1>3, Zenon
<1> HIDE DEF c
<1>5. c = p
  BY <1>1, <1>3, <1>4, GraphDeployAssumption
<1>6. EdgeKind(e) = p.kind
  BY <1>5 DEF EdgeKind, c
<1>7. q.kind = "Data"
  BY <1>2, <1>3 DEF PureForm
<1> QED BY <1>1, <1>2, <1>3, <1>6, <1>7 DEF KindsFit

LEMMA GraphInvIsSound == GraphInv => DeploySound
<1> SUFFICES ASSUME GraphInv PROVE DeploySound
  OBVIOUS
<1>1. OrderIsTopological
  BY SortedIsTopological DEF GraphInv, Order, OrderIsTopological
<1>2. PushTargetsRun
  BY PinsDecide DEF GraphInv, Wired, PushTargetsRun
<1>3. NoTaskOutlivesDeployment
  <2>1. ASSUME stage = "stopped", NEW n \in GraphNodes PROVE task[n] \in {"none", "ended"} \/ n \in waived
    <3>1. Members(guards) = {} /\ task[n] \in TaskStates /\ task[n] # "running"
      BY <2>1 DEF GraphInv, GraphTypes, Guarded, Members
    <3> QED BY <2>1, <3>1 DEF GraphInv, Guarded, TaskStates
  <2> QED BY <2>1 DEF GraphInv, Guarded, NoTaskOutlivesDeployment
<1> QED BY <1>1, <1>2, <1>3 DEF DeploySound

\* A graph is refused for a cycle exactly when it has one; nodes are deployed
\* after all that push to them; what a running node pushes to has a runner; and
\* no task outlives its deployment (deploy.rs, topology/mod.rs, lifecycle.rs).
THEOREM DeploymentsAreSound == GraphSpec => []DeploySound
<1>1. GraphInv => DeploySound
  BY GraphInvIsSound
<1> QED BY <1>1, GraphStarts, GraphPreserves, PTL DEF GraphSpec

(***************************************************************************)
(* Script nodes (FlowNodes).                                               *)
(***************************************************************************)
FlowTypes ==
  /\ config \in [FlowNode -> FlowConfigs] /\ pos \in [FlowNode -> Nat \ {0}]
  /\ scriptEnd \in [FlowNode -> {"running", "value", "error"}]
  /\ flowResult \in [FlowNode -> {"none", "ok", "error"}]
  /\ outputs = [n \in FlowNode |-> outputs[n]]

\* A node has its result once its script has ended; a table look-up has none.
EndsFirst ==
  \A n \in FlowNode : flowResult[n] # "none" => scriptEnd[n] # "running" \/ config[n].kind = "lookup"

\* What a node sent and how it ended, of the node alone.
RoutedTo(n) == \A i \in 1..Len(outputs[n]) : outputs[n][i].ports \subseteq OutputPins(config[n])
Rounds(n) ==
  config[n].kind = "loop" /\ flowResult[n] = "ok" =>
    LET count == Len(outputs[n]) - 1
        expected == IF Result(n).t = "int" THEN Result(n).v ELSE Len(Result(n).v)
    IN  /\ count = expected /\ count <= MaxIterations
        /\ \A i \in 1..(count + 1) :
             /\ outputs[n][i].ports = {IF i <= count THEN "body" ELSE "done"}
             /\ outputs[n][i].loop.count = count /\ (i <= count => outputs[n][i].loop.index = i - 1)
Caught(n) ==
  config[n].kind = "tryCatch" /\ scriptEnd[n] = "error" /\ flowResult[n] # "none" =>
    flowResult[n] = "ok" /\ outputs[n][1].ports = {"catch"}
NodeSound(n) == RoutedTo(n) /\ Rounds(n) /\ Caught(n)

FlowInv == FlowTypes /\ EndsFirst /\ CasCountsOnce /\ \A n \in FlowNode : NodeSound(n)

\* The rounds of a loop: one per item, then the last message.
LEMMA LoopRounds ==
  ASSUME FlowTypes, NEW n \in FlowNode, ItemsOf(n).ok
  PROVE  LET count == Len(LoopOutputs(n)) - 1
             expected == IF Result(n).t = "int" THEN Result(n).v ELSE Len(Result(n).v)
         IN  /\ count \in Nat /\ count = expected /\ count <= MaxIterations
             /\ \A i \in 1..(count + 1) :
                  /\ LoopOutputs(n)[i].ports = {IF i <= count THEN "body" ELSE "done"}
                  /\ LoopOutputs(n)[i].loop.count = count
                  /\ i <= count => LoopOutputs(n)[i].loop.index = i - 1
<1> DEFINE r == Result(n)
           k == IF r.t = "int" THEN r.v ELSE Len(r.v)
           items == ItemsOf(n).items
<1>1. config[n] \in FlowConfigs /\ r = config[n].result /\ MaxIterations \in Nat
  BY FlowAssumption DEF FlowTypes, Result
<1>2. k \in Nat /\ k <= MaxIterations /\ Len(items) = k /\ items = [i \in 1..k |-> items[i]]
  <2>1. CASE r.t = "int" /\ r.v \in 0..MaxIterations
    <3>1. items = [i \in 1..r.v |-> 0] /\ r.v \in Nat /\ r.v <= MaxIterations
      BY <1>1, <2>1 DEF ItemsOf
    <3> QED BY <2>1, <3>1
  <2>2. CASE ~(r.t = "int" /\ r.v \in 0..MaxIterations)
    <3>1. r.t = "array" /\ Len(r.v) <= MaxIterations /\ items = r.v
      BY <2>2 DEF ItemsOf
    <3>2. Len(r.v) \in Nat /\ r.v = [i \in 1..Len(r.v) |-> r.v[i]]
      BY <1>1, <3>1, FlowAssumption
    <3> QED BY <3>1, <3>2
  <2> QED BY <2>1, <2>2
<1> DEFINE S == {FlowOut({"body"}, payload[n], WithLoopState("body", i - 1, k, items[i])) : i \in 1..k}
                  \cup {FlowOut({"done"}, payload[n], WithLoopState("done", 0 - 1, k, 0))}
           body == [i \in 1..k |-> FlowOut({"body"}, payload[n], WithLoopState("body", i - 1, k, items[i]))]
           last == FlowOut({"done"}, payload[n], WithLoopState("done", 0 - 1, k, 0))
<1> HIDE DEF items, k, r
<1>3. LoopOutputs(n) = body \o <<last>>
  BY <1>2 DEF LoopOutputs, items
<1>4. body \in Seq(S) /\ last \in S /\ Len(body) = k
  BY <1>2
<1>5. /\ Len(LoopOutputs(n)) = k + 1
      /\ \A i \in 1..k : LoopOutputs(n)[i] = body[i]
      /\ LoopOutputs(n)[k + 1] = last
  <2> HIDE DEF S, body, last
  <2> QED BY <1>2, <1>3, <1>4
<1>6. \A i \in 1..k : /\ body[i].ports = {"body"} /\ body[i].loop.count = k
                      /\ body[i].loop.index = i - 1
  BY DEF FlowOut, WithLoopState
<1>7. last.ports = {"done"} /\ last.loop.count = k
  BY DEF FlowOut, WithLoopState
<1> HIDE DEF S, body, last
<1>8. \A i \in 1..(k + 1) : /\ LoopOutputs(n)[i].ports = {IF i <= k THEN "body" ELSE "done"}
                            /\ LoopOutputs(n)[i].loop.count = k
                            /\ i <= k => LoopOutputs(n)[i].loop.index = i - 1
  <2> SUFFICES ASSUME NEW i \in 1..(k + 1)
               PROVE  /\ LoopOutputs(n)[i].ports = {IF i <= k THEN "body" ELSE "done"}
                      /\ LoopOutputs(n)[i].loop.count = k
                      /\ i <= k => LoopOutputs(n)[i].loop.index = i - 1
    OBVIOUS
  <2>1. CASE i <= k
    BY <1>2, <1>5, <1>6, <2>1
  <2>2. CASE i = k + 1
    BY <1>2, <1>5, <1>7, <2>2
  <2> QED BY <1>2, <2>1, <2>2
<1>9. Len(LoopOutputs(n)) - 1 = k
  BY <1>2, <1>5
<1> QED BY <1>2, <1>8, <1>9 DEF k, r

LEMMA FlowStarts == FlowInit => FlowInv
<1> SUFFICES ASSUME FlowInit PROVE FlowInv
  OBVIOUS
<1>1. FlowTypes /\ EndsFirst /\ CasCountsOnce
  BY DEF FlowInit, FlowTypes, EndsFirst, CasCountsOnce
<1>2. \A n \in FlowNode : flowResult[n] = "none" /\ Len(outputs[n]) = 0
  BY DEF FlowInit
<1>3. \A n \in FlowNode : NodeSound(n)
  <2> SUFFICES ASSUME NEW n \in FlowNode PROVE NodeSound(n)
    OBVIOUS
  <2>1. RoutedTo(n)
    BY <1>2 DEF RoutedTo
  <2>2. Rounds(n) /\ Caught(n)
    BY <1>2 DEF Rounds, Caught
  <2> QED BY <2>1, <2>2 DEF NodeSound
<1> QED BY <1>1, <1>3 DEF FlowInv

\* One operation of a script: the variable and what scripts have won go together.
LEMMA EvaluatePreserves ==
  ASSUME FlowInv, NEW n \in FlowNode, Evaluate(n)
  PROVE  FlowInv'
<1>1. UNCHANGED <<config, scriptEnd, outputs, flowResult>>
  BY DEF Evaluate
<1>2. FlowTypes' /\ EndsFirst'
  BY <1>1 DEF FlowInv, FlowTypes, EndsFirst, Evaluate
<1>3. \A m \in FlowNode : NodeSound(m)'
  <2>1. \A m \in FlowNode : NodeSound(m)
    BY DEF FlowInv
  <2> QED BY <1>1, <2>1 DEF NodeSound, RoutedTo, Rounds, Caught, Result
<1>4. CasCountsOnce'
  <2> SUFFICES ASSUME \A m \in FlowNode : \A i \in 1..Len(config[m].script) : config[m].script[i] # "set"
               PROVE  counter' = wins'
    BY <1>1 DEF CasCountsOnce
  <2>1. counter = wins
    BY DEF FlowInv, CasCountsOnce
  <2>2. config[n].script \in Seq(ScriptOperations) /\ pos[n] \in Nat \ {0}
    BY FlowAssumption DEF FlowInv, FlowTypes
  <2>3. Op(n) # "set"
    BY <2>2 DEF Evaluate, ScriptOver, Op
  <2>4. CASE Op(n) = "cas"
    <3>1. RhaiCas(n)
      BY <2>3, <2>4 DEF Evaluate
    <3> QED BY <2>1, <3>1 DEF RhaiCas
  <2>5. CASE Op(n) # "cas"
    BY <2>1, <2>3, <2>5 DEF Evaluate
  <2> QED BY <2>4, <2>5
<1> QED BY <1>2, <1>3, <1>4 DEF FlowInv

LEMMA EndPreservesFlow ==
  ASSUME FlowInv, NEW n \in FlowNode, EndScript(n)
  PROVE  FlowInv'
<1>1. /\ UNCHANGED <<config, pos, counter, wins, outputs, flowResult>>
      /\ scriptEnd[n] = "running" /\ config[n].kind # "lookup"
      /\ \E end \in {"value", "error"} : scriptEnd' = [scriptEnd EXCEPT ![n] = end]
  BY DEF EndScript
<1>2. flowResult[n] = "none"
  BY <1>1 DEF FlowInv, EndsFirst
<1>3. /\ FlowTypes' /\ scriptEnd'[n] # "running"
      /\ \A m \in FlowNode : m # n => scriptEnd'[m] = scriptEnd[m]
  BY <1>1 DEF FlowInv, FlowTypes
<1>4. EndsFirst'
  BY <1>1, <1>3 DEF FlowInv, EndsFirst
<1>5. ASSUME NEW m \in FlowNode PROVE NodeSound(m)'
  <2>1. NodeSound(m)
    BY DEF FlowInv
  <2>2. (RoutedTo(m) /\ Rounds(m))'
    BY <1>1, <2>1 DEF NodeSound, RoutedTo, Rounds, Result
  <2>3. Caught(m)'
    BY <1>1, <1>2, <1>3, <2>1 DEF NodeSound, Caught
  <2> QED BY <2>2, <2>3 DEF NodeSound
<1>6. CasCountsOnce'
  BY <1>1 DEF FlowInv, CasCountsOnce
<1> QED BY <1>3, <1>4, <1>5, <1>6 DEF FlowInv

\* A node ends with an error, or with outputs.
Settles(n) ==
  /\ UNCHANGED <<config, pos, scriptEnd, counter, wins>>
  /\ \A m \in FlowNode : m # n => outputs'[m] = outputs[m] /\ flowResult'[m] = flowResult[m]
  /\ FlowTypes'

LEMMA Settled ==
  ASSUME FlowInv, NEW n \in FlowNode, UNCHANGED <<config, pos, scriptEnd, counter, wins>>
  PROVE  /\ Refuse(n) => Settles(n) /\ outputs'[n] = outputs[n] /\ flowResult'[n] = "error"
         /\ \A outs : Emit(n, outs) => Settles(n) /\ outputs'[n] = outs /\ flowResult'[n] = "ok"
<1>1. FlowTypes
  BY DEF FlowInv
<1>2. ASSUME Refuse(n) PROVE Settles(n) /\ outputs'[n] = outputs[n] /\ flowResult'[n] = "error"
  BY <1>1, <1>2 DEF Refuse, FlowTypes, Settles
<1>3. ASSUME NEW outs, Emit(n, outs) PROVE Settles(n) /\ outputs'[n] = outs /\ flowResult'[n] = "ok"
  <2>1. /\ flowResult' = [flowResult EXCEPT ![n] = "ok"] /\ outputs' = [outputs EXCEPT ![n] = outs]
    BY <1>3 DEF Emit
  <2>2. /\ outputs' = [m \in FlowNode |-> outputs'[m]] /\ outputs'[n] = outs
        /\ \A m \in FlowNode : m # n => outputs'[m] = outputs[m]
    BY <1>1, <2>1 DEF FlowTypes
  <2>3. /\ flowResult' \in [FlowNode -> {"none", "ok", "error"}] /\ flowResult'[n] = "ok"
        /\ \A m \in FlowNode : m # n => flowResult'[m] = flowResult[m]
    BY <1>1, <2>1 DEF FlowTypes
  <2> QED BY <1>1, <2>2, <2>3 DEF FlowTypes, Settles
<1> QED BY <1>2, <1>3

\* What remains to be shown of a node that ends.
LEMMA SettlesPreserves ==
  ASSUME FlowInv, NEW n \in FlowNode, Settles(n), NodeSound(n)',
         scriptEnd[n] # "running" \/ config[n].kind = "lookup"
  PROVE  FlowInv'
<1>1. EndsFirst'
  BY DEF FlowInv, EndsFirst, Settles
<1>2. \A m \in FlowNode : NodeSound(m)'
  <2>1. ASSUME NEW m \in FlowNode, m # n PROVE NodeSound(m)'
    <3>1. NodeSound(m)
      BY DEF FlowInv
    <3> QED BY <2>1, <3>1, SMTT(60) DEF NodeSound, RoutedTo, Rounds, Caught, Result, Settles
  <2> QED BY <2>1
<1>3. CasCountsOnce'
  BY DEF FlowInv, CasCountsOnce, Settles
<1> QED BY <1>1, <1>2, <1>3 DEF FlowInv, Settles

\* An error of a node that does not catch, and outputs with one message.
LEMMA RefusedIsSound ==
  ASSUME FlowInv, NEW n \in FlowNode, Settles(n), outputs'[n] = outputs[n], flowResult'[n] = "error",
         config[n].kind # "tryCatch" \/ scriptEnd[n] # "error"
  PROVE  NodeSound(n)'
<1>1. NodeSound(n)
  BY DEF FlowInv
<1> QED BY <1>1 DEF NodeSound, RoutedTo, Rounds, Caught, Settles

LEMMA OneOutputIsSound ==
  ASSUME FlowInv, NEW n \in FlowNode, NEW ports, NEW data, Settles(n),
         outputs'[n] = <<FlowOut(ports, data, NoLoop)>>, flowResult'[n] = "ok",
         config[n].kind # "loop", ports \subseteq OutputPins(config[n]),
         config[n].kind = "tryCatch" /\ scriptEnd[n] = "error" => ports = {"catch"}
  PROVE  NodeSound(n)'
<1>1. config' = config /\ scriptEnd' = scriptEnd
  BY DEF Settles
<1>2. /\ Len(outputs'[n]) = 1 /\ outputs'[n][1].ports = ports
  BY DEF FlowOut
<1>3. RoutedTo(n)'
  BY <1>1, <1>2 DEF RoutedTo
<1>4. Rounds(n)' /\ Caught(n)'
  BY <1>1, <1>2 DEF Rounds, Caught
<1> QED BY <1>3, <1>4 DEF NodeSound

LEMMA LoopIsSound ==
  ASSUME FlowInv, NEW n \in FlowNode, Settles(n), ItemsOf(n).ok, outputs'[n] = LoopOutputs(n),
         flowResult'[n] = "ok", config[n].kind = "loop"
  PROVE  NodeSound(n)'
<1> DEFINE outs == LoopOutputs(n)
           count == Len(outs) - 1
           expected == IF Result(n).t = "int" THEN Result(n).v ELSE Len(Result(n).v)
<1>1. config' = config
  BY DEF Settles
<1>2. /\ count \in Nat /\ count = expected /\ count <= MaxIterations
      /\ \A i \in 1..(count + 1) :
           /\ outs[i].ports = {IF i <= count THEN "body" ELSE "done"}
           /\ outs[i].loop.count = count
           /\ i <= count => outs[i].loop.index = i - 1
  BY LoopRounds DEF FlowInv
<1>3. Result(n)' = Result(n) /\ outputs'[n] = outs
  BY <1>1 DEF Result
<1> HIDE DEF outs
<1>4. Rounds(n)'
  BY <1>2, <1>3 DEF Rounds
<1>5. \A i \in 1..Len(outs) : outs[i].ports \subseteq {"body", "done"}
  <2>1. Len(outs) = count + 1 \/ Len(outs) \notin Int
    OBVIOUS
  <2> QED BY <1>2, <2>1
<1>6. OutputPins(config[n]) = {"body", "done"}
  BY DEF OutputPins
<1>7. RoutedTo(n)'
  BY <1>1, <1>3, <1>5, <1>6 DEF RoutedTo
<1>8. Caught(n)'
  BY <1>1 DEF Caught
<1> QED BY <1>4, <1>7, <1>8 DEF NodeSound

LEMMA TransformPreserves ==
  ASSUME FlowInv, NEW n \in FlowNode, FlowTransform(n)
  PROVE  FlowInv'
<1>1. /\ UNCHANGED <<config, pos, scriptEnd, counter, wins>>
      /\ flowResult[n] = "none" /\ scriptEnd[n] # "running"
  BY DEF FlowTransform
<1>2. /\ Refuse(n) => Settles(n) /\ outputs'[n] = outputs[n] /\ flowResult'[n] = "error"
      /\ \A outs : Emit(n, outs) => Settles(n) /\ outputs'[n] = outs /\ flowResult'[n] = "ok"
  BY <1>1, Settled
<1>3. ASSUME Refuse(n), config[n].kind # "tryCatch" \/ scriptEnd[n] # "error" PROVE FlowInv'
  BY <1>1, <1>2, <1>3, RefusedIsSound, SettlesPreserves
\* One message on the ports of the node.
<1>4. ASSUME NEW ports, NEW data, Emit(n, <<FlowOut(ports, data, NoLoop)>>),
             config[n].kind # "loop", ports \subseteq OutputPins(config[n]),
             config[n].kind = "tryCatch" /\ scriptEnd[n] = "error" => ports = {"catch"}
      PROVE  FlowInv'
  <2>1. Settles(n) /\ outputs'[n] = <<FlowOut(ports, data, NoLoop)>> /\ flowResult'[n] = "ok"
    BY <1>2, <1>4
  <2>2. NodeSound(n)'
    BY <1>4, <2>1, OneOutputIsSound
  <2> QED BY <1>1, <2>1, <2>2, SettlesPreserves
<1>5. ASSUME NEW ports, NEW data, EmitOne(n, ports, data),
             config[n].kind # "loop", ports \subseteq OutputPins(config[n]), scriptEnd[n] = "value"
      PROVE  FlowInv'
  BY <1>3, <1>4, <1>5 DEF EmitOne
<1>6. CASE scriptEnd[n] = "error" /\ config[n].kind # "tryCatch" /\ Refuse(n)
  BY <1>3, <1>6
<1>7. CASE scriptEnd[n] = "error" /\ config[n].kind = "tryCatch" /\ TransformCatch(n)
  <2>1. {"catch"} \subseteq OutputPins(config[n])
    BY <1>7 DEF OutputPins
  <2> QED BY <1>4, <1>7, <2>1 DEF TransformCatch
<1>8. CASE scriptEnd[n] = "value" /\ config[n].kind = "tryCatch" /\ EmitOne(n, {"try"}, ReturnedOrPayload(n))
  <2>1. {"try"} \subseteq OutputPins(config[n])
    BY <1>8 DEF OutputPins
  <2> QED BY <1>5, <1>8, <2>1
<1>9. CASE scriptEnd[n] = "value" /\ config[n].kind = "if" /\ TransformIf(n)
  <2>1. IfPorts(n) \subseteq OutputPins(config[n])
    BY <1>9 DEF OutputPins, IfPorts
  <2> QED BY <1>3, <1>5, <1>9, <2>1 DEF TransformIf
<1>10. CASE scriptEnd[n] = "value" /\ config[n].kind = "switch" /\ TransformSwitch(n)
  <2>1. {BranchOf(n)} \subseteq OutputPins(config[n])
    BY <1>10 DEF OutputPins, BranchOf
  <2> QED BY <1>5, <1>10, <2>1 DEF TransformSwitch
<1>11. CASE scriptEnd[n] = "value" /\ config[n].kind = "loop" /\ TransformLoop(n)
  <2>1. CASE Refuse(n)
    BY <1>3, <1>11, <2>1
  <2>2. CASE ~Refuse(n)
    <3>1. ItemsOf(n).ok /\ Emit(n, LoopOutputs(n))
      BY <1>11, <2>2 DEF TransformLoop
    <3>2. Settles(n) /\ outputs'[n] = LoopOutputs(n) /\ flowResult'[n] = "ok"
      BY <1>2, <3>1
    <3>3. NodeSound(n)'
      BY <1>11, <3>1, <3>2, LoopIsSound
    <3> QED BY <1>1, <3>2, <3>3, SettlesPreserves
  <2> QED BY <2>1, <2>2
<1>12. CASE scriptEnd[n] = "value" /\ config[n].kind = "code" /\ EmitOne(n, {}, ReturnedOrPayload(n))
  BY <1>5, <1>12
<1> QED BY <1>6, <1>7, <1>8, <1>9, <1>10, <1>11, <1>12 DEF FlowTransform

LEMMA LookupPreserves ==
  ASSUME FlowInv, NEW n \in FlowNode, LookupTable(n)
  PROVE  FlowInv'
<1>1. /\ UNCHANGED <<config, pos, scriptEnd, counter, wins>>
      /\ config[n].kind = "lookup"
  BY DEF LookupTable
<1>2. /\ Refuse(n) => Settles(n) /\ outputs'[n] = outputs[n] /\ flowResult'[n] = "error"
      /\ \A outs : Emit(n, outs) => Settles(n) /\ outputs'[n] = outs /\ flowResult'[n] = "ok"
  BY <1>1, Settled
<1>3. CASE Refuse(n)
  BY <1>1, <1>2, <1>3, RefusedIsSound, SettlesPreserves
<1>4. ASSUME NEW data, Emit(n, <<FlowOut({}, data, NoLoop)>>) PROVE FlowInv'
  <2>1. Settles(n) /\ outputs'[n] = <<FlowOut({}, data, NoLoop)>> /\ flowResult'[n] = "ok"
    BY <1>2, <1>4
  <2>2. NodeSound(n)'
    BY <1>1, <2>1, OneOutputIsSound
  <2> QED BY <1>1, <2>1, <2>2, SettlesPreserves
<1> QED BY <1>3, <1>4 DEF LookupTable

LEMMA FlowByNode ==
  FlowSound <=> CasCountsOnce /\ \A n \in FlowNode : NodeSound(n)
BY DEF FlowSound, RoutesArePins, LoopCoversItems, CatchCatches, NodeSound, RoutedTo, Rounds, Caught

\* Outputs of the script nodes go to pins of the node, a loop sends one message
\* per item and then the last one, a tryCatch node catches, and the variable
\* counts the successful compare-and-sets (crates/nodes-flow): for any nodes,
\* scripts, results, budgets and limits.
THEOREM FlowIsSound == FlowSpec => []FlowSound
<1>1. FlowInv /\ [FlowNext]_flowVars => FlowInv'
  <2> SUFFICES ASSUME FlowInv, [FlowNext]_flowVars PROVE FlowInv'
    OBVIOUS
  <2>1. ASSUME NEW n \in FlowNode, FlowStep(n) PROVE FlowInv'
    BY <2>1, EvaluatePreserves, EndPreservesFlow, TransformPreserves, LookupPreserves DEF FlowStep
  <2>2. CASE UNCHANGED flowVars
    <3>1. FlowTypes' /\ EndsFirst' /\ CasCountsOnce'
      BY <2>2 DEF flowVars, FlowInv, FlowTypes, EndsFirst, CasCountsOnce
    <3>2. \A n \in FlowNode : NodeSound(n)'
      BY <2>2 DEF flowVars, FlowInv, NodeSound, RoutedTo, Rounds, Caught, Result
    <3> QED BY <3>1, <3>2 DEF FlowInv
  <2> QED BY <2>1, <2>2 DEF FlowNext
<1>2. FlowInv => FlowSound
  BY FlowByNode DEF FlowInv
<1> QED BY <1>1, <1>2, FlowStarts, PTL DEF FlowSpec

(***************************************************************************)
(* The CAN bus (CanBus).                                                   *)
(***************************************************************************)
CanFrames == [id : Int, ext : BOOLEAN, remote : BOOLEAN, dlc : Int, bytes : Int]
CanTypes ==
  /\ canQueue \in Seq(CanFrames) /\ canArrived \in Seq(CanFrames)
  /\ canGot \in [CanReaders -> Seq(CanFrames)]

\* Every frame, whether it arrived or not, is accounted for.
FrameAccounted(f) ==
  /\ IsFiniteSet(Handed(f))
  /\ Cardinality(Handed(f)) + Cardinality(PlacesOf(f, canQueue)) <= Cardinality(PlacesOf(f, canArrived))
CanInv == CanTypes /\ EchoIsTheFrame /\ DlcIsLength /\ \A f \in CanFrames : FrameAccounted(f)

LEMMA PlacesAreMany ==
  ASSUME NEW f, NEW s \in Seq(CanFrames)
  PROVE  IsFiniteSet(PlacesOf(f, s)) /\ Cardinality(PlacesOf(f, s)) \in Nat
<1>1. IsFiniteSet(1..Len(s)) /\ PlacesOf(f, s) \in SUBSET (1..Len(s))
  BY FS_Interval DEF PlacesOf
<1> QED BY <1>1, FS_Subset, FS_CardinalityType

\* One more frame at the end is one more place of that frame.
LEMMA PlacesAppended ==
  ASSUME NEW f, NEW s \in Seq(CanFrames), NEW e \in CanFrames
  PROVE  /\ PlacesOf(f, Append(s, e)) = IF e = f THEN PlacesOf(f, s) \cup {Len(s) + 1} ELSE PlacesOf(f, s)
         /\ Len(s) + 1 \notin PlacesOf(f, s)
         /\ Cardinality(PlacesOf(f, Append(s, e))) =
              Cardinality(PlacesOf(f, s)) + IF e = f THEN 1 ELSE 0
<1> DEFINE n == Len(s)
           a == Append(s, e)
<1>1. n \in Nat /\ Len(a) = n + 1 /\ a[n + 1] = e /\ \A i \in 1..n : a[i] = s[i]
  OBVIOUS
<1>2. n + 1 \notin PlacesOf(f, s)
  BY <1>1 DEF PlacesOf
<1>3. PlacesOf(f, a) = IF e = f THEN PlacesOf(f, s) \cup {n + 1} ELSE PlacesOf(f, s)
  <2> HIDE DEF n, a
  <2>1. 1..(n + 1) = (1..n) \cup {n + 1}
    BY <1>1
  <2>2. PlacesOf(f, a) = {i \in (1..n) \cup {n + 1} : a[i] = f}
    BY <1>1, <2>1 DEF PlacesOf
  <2>3. PlacesOf(f, s) = {i \in 1..n : s[i] = f}
    BY DEF PlacesOf, n
  <2> QED BY <1>1, <2>2, <2>3
<1>4. IsFiniteSet(PlacesOf(f, s)) /\ Cardinality(PlacesOf(f, s)) \in Nat
  BY PlacesAreMany
<1>5. Cardinality(PlacesOf(f, s) \cup {n + 1}) = Cardinality(PlacesOf(f, s)) + 1
  BY <1>2, <1>4, FS_AddElement
<1> QED BY <1>2, <1>3, <1>4, <1>5

\* The first is gone: its place is free, the others move up.
LEMMA PlacesDropped ==
  ASSUME NEW f, NEW s \in Seq(CanFrames), s # <<>>
  PROVE  Cardinality(PlacesOf(f, Tail(s))) + (IF Head(s) = f THEN 1 ELSE 0) <= Cardinality(PlacesOf(f, s))
<1> DEFINE t == Tail(s)
           rest == PlacesOf(f, s) \ {1}
           up == [i \in PlacesOf(f, t) |-> i + 1]
<1>1. /\ Head(s) = s[1] /\ t \in Seq(CanFrames) /\ Len(s) \in Nat /\ Len(s) > 0
      /\ Len(t) = Len(s) - 1 /\ \A i \in 1..Len(t) : t[i] = s[i + 1]
  OBVIOUS
<1>2. /\ IsFiniteSet(PlacesOf(f, s)) /\ Cardinality(PlacesOf(f, s)) \in Nat
      /\ Cardinality(PlacesOf(f, t)) \in Nat
  BY <1>1, PlacesAreMany
<1>3. IsFiniteSet(rest) /\ Cardinality(rest) =
        IF 1 \in PlacesOf(f, s) THEN Cardinality(PlacesOf(f, s)) - 1 ELSE Cardinality(PlacesOf(f, s))
  BY <1>2, FS_RemoveElement
<1>4. 1 \in PlacesOf(f, s) <=> Head(s) = f
  BY <1>1 DEF PlacesOf
<1>5. up \in Injection(PlacesOf(f, t), rest)
  <2>1. \A i \in PlacesOf(f, t) : i \in Nat /\ i + 1 \in rest
    BY <1>1 DEF PlacesOf
  <2> QED BY <2>1 DEF Injection, IsInjective
<1>6. Cardinality(PlacesOf(f, t)) <= Cardinality(rest)
  BY <1>3, <1>5, FS_Injection
<1> QED BY <1>2, <1>3, <1>4, <1>6

LEMMA CanStarts == CanInit => CanInv
<1> SUFFICES ASSUME CanInit PROVE CanInv
  OBVIOUS
<1>1. CanTypes /\ EchoIsTheFrame /\ DlcIsLength
  BY DEF CanInit, CanTypes, EchoIsTheFrame, DlcIsLength
<1>2. ASSUME NEW f \in CanFrames PROVE FrameAccounted(f)
  <2>1. PlacesOf(f, <<>>) = {}
    BY DEF PlacesOf
  <2>2. Handed(f) = {}
    BY <2>1 DEF Handed, CanInit
  <2>3. canQueue = <<>> /\ canArrived = <<>>
    BY DEF CanInit
  <2>4. IsFiniteSet({}) /\ Cardinality({}) = 0
    BY FS_EmptySet
  <2>5. Cardinality(Handed(f)) = 0 /\ Cardinality(PlacesOf(f, canQueue)) = 0 /\ Cardinality(PlacesOf(f, canArrived)) = 0
    BY <2>1, <2>2, <2>3, <2>4, Zenon
  <2> QED BY <2>2, <2>4, <2>5 DEF FrameAccounted
<1> QED BY <1>1, <1>2 DEF CanInv

\* What the decoder yields is a frame with the bytes it promises.
LEMMA LineDecoded ==
  ASSUME NEW l \in [letter : STRING, id : Nat, digit : Nat, rest : Nat]
  PROVE  DecodeSlcan(l) = NoFrame \/
           /\ DecodeSlcan(l) \in CanFrames
           /\ BytesPromised(DecodeSlcan(l))
<1> DEFINE data == l.letter \in {"t", "T"}
           ext == l.letter \in {"T", "R"}
           d == [id |-> l.id, ext |-> ext, remote |-> ~data, dlc |-> l.digit,
                 bytes |-> IF data THEN l.digit ELSE 0]
<1>1. DecodeSlcan(l) = NoFrame \/ DecodeSlcan(l) = d
  BY DEF DecodeSlcan
<1>2. data \in BOOLEAN /\ ext \in BOOLEAN
  OBVIOUS
<1> HIDE DEF data, ext
<1>3. d \in CanFrames /\ d.remote = ~data /\ d.dlc = l.digit /\ (data => d.bytes = l.digit)
  BY <1>2 DEF CanFrames
<1> HIDE DEF d
<1>4. BytesPromised(d)
  <2>1. CASE data
    BY <1>3, <2>1, Zenon DEF BytesPromised
  <2>2. CASE ~data
    <3>1. d.remote = TRUE
      BY <1>3, <2>2, Zenon
    <3> QED BY <3>1, Zenon DEF BytesPromised
  <2> QED BY <2>1, <2>2
<1> QED BY <1>1, <1>3, <1>4

\* A frame that is written is decoded as it was meant, but for an extended one
\* without data.
LEMMA Echoed ==
  ASSUME NEW s \in [id : Nat, ext : BOOLEAN, bytes : Nat]
  PROVE  LET f == NewFrame(s.id, s.ext, s.bytes)
         IN  DecodeSlcan(EncodeSlcan(f)) = IF f.ext /\ f.dlc = 0 THEN NoFrame ELSE f
<1> DEFINE kept == IF s.bytes > 8 THEN 8 ELSE s.bytes
           f == NewFrame(s.id, s.ext, s.bytes)
           l == EncodeSlcan(f)
<1>1. kept \in 0..8
  OBVIOUS
<1> HIDE DEF kept
<1>2. f = [id |-> s.id, ext |-> s.ext, remote |-> FALSE, dlc |-> kept, bytes |-> kept]
  BY DEF NewFrame, kept
<1> HIDE DEF f
<1>3. f.id = s.id /\ f.ext = s.ext /\ f.dlc = kept
  BY <1>2
<1>4. l = [letter |-> IF s.ext THEN "T" ELSE "t", id |-> s.id, digit |-> kept, rest |-> 2 * kept]
  BY <1>1, <1>3 DEF EncodeSlcan
<1> HIDE DEF l
<1>5. l.letter = (IF s.ext THEN "T" ELSE "t") /\ l.id = s.id /\ l.digit = kept /\ l.rest = 2 * kept
  BY <1>4
<1>6. CASE s.ext = TRUE
  <2>1. l.letter = "T"
    BY <1>5, <1>6
  <2>2. LineLength(l) = 10 + 2 * kept /\ ShortestLine(l.letter) = 11
    BY <1>5, <2>1, <1>1 DEF LineLength, IdDigits, ShortestLine
  <2>3. kept = 0 => DecodeSlcan(l) = NoFrame
    BY <2>1, <2>2 DEF DecodeSlcan
  <2>4. kept # 0 => ~(LineLength(l) < ShortestLine(l.letter)) /\ ~(l.rest < 2 * l.digit)
    BY <1>1, <1>5, <2>2
  <2>5. kept # 0 => DecodeSlcan(l) = [id |-> l.id, ext |-> TRUE, remote |-> FALSE, dlc |-> l.digit, bytes |-> l.digit]
    BY <2>1, <2>4 DEF DecodeSlcan
  <2> QED BY <1>2, <1>3, <1>5, <1>6, <2>3, <2>5 DEF f, l
<1>7. CASE s.ext = FALSE
  <2>1. l.letter = "t"
    BY <1>5, <1>7
  <2>2. LineLength(l) = 5 + 2 * kept /\ ShortestLine(l.letter) = 5
    BY <1>5, <2>1, <1>1 DEF LineLength, IdDigits, ShortestLine
  <2>3. ~(LineLength(l) < ShortestLine(l.letter)) /\ ~(l.rest < 2 * l.digit)
    BY <1>1, <1>5, <2>2
  <2>4. (l.letter \in {"t", "T"}) = TRUE /\ (l.letter \in {"T", "R"}) = FALSE
    BY <2>1
  <2>5. DecodeSlcan(l) = [id |-> l.id, ext |-> FALSE, remote |-> FALSE, dlc |-> l.digit, bytes |-> l.digit]
    BY <2>1, <2>3, <2>4 DEF DecodeSlcan
  <2> QED BY <1>2, <1>3, <1>5, <1>7, <2>5 DEF f, l
<1> QED BY <1>6, <1>7

LEMMA SendPreserves == CanInv /\ SendFrame => CanInv'
<1> SUFFICES ASSUME CanInv, SendFrame PROVE CanInv'
  OBVIOUS
<1>1. UNCHANGED <<canQueue, canGot, canArrived>>
  BY DEF SendFrame
<1>2. CanTypes' /\ DlcIsLength' /\ \A f \in CanFrames : FrameAccounted(f)'
  <2>1. CanTypes' /\ DlcIsLength'
    BY <1>1 DEF CanInv, CanTypes, DlcIsLength
  <2>2. \A f \in CanFrames : FrameAccounted(f)'
    BY <1>1 DEF CanInv, FrameAccounted, Handed
  <2> QED BY <2>1, <2>2
<1>3. PICK s \in CanSends :
        LET f == NewFrame(s.id, s.ext, s.bytes)
        IN  canEcho' = [sent |-> f, seen |-> DecodeSlcan(EncodeSlcan(f))]
  BY DEF SendFrame
<1> DEFINE f == NewFrame(s.id, s.ext, s.bytes)
<1>4. DecodeSlcan(EncodeSlcan(f)) = IF f.ext /\ f.dlc = 0 THEN NoFrame ELSE f
  BY CanBusAssumption, Echoed
<1>5. canEcho' = [sent |-> f, seen |-> DecodeSlcan(EncodeSlcan(f))]
  BY <1>3
<1> HIDE DEF f
<1>6. EchoIsTheFrame'
  BY <1>4, <1>5 DEF EchoIsTheFrame
<1> QED BY <1>2, <1>6 DEF CanInv

LEMMA ReadPreserves == CanInv /\ ThreadReads => CanInv'
<1> SUFFICES ASSUME CanInv, ThreadReads PROVE CanInv'
  OBVIOUS
<1>0. CanTypes /\ EchoIsTheFrame /\ DlcIsLength /\ \A f \in CanFrames : FrameAccounted(f)
  BY DEF CanInv
<1>1. canGot' = canGot /\ canEcho' = canEcho
  BY DEF ThreadReads
<1>2. PICK l \in CanNoise :
        LET f == DecodeSlcan(l)
        IN  /\ canQueue' = IF f = NoFrame THEN canQueue ELSE Append(canQueue, f)
            /\ canArrived' = IF f = NoFrame THEN canArrived ELSE Append(canArrived, f)
  BY DEF ThreadReads
<1> DEFINE e == DecodeSlcan(l)
<1>3. e = NoFrame \/ (e \in CanFrames /\ BytesPromised(e))
  BY LineDecoded, CanBusAssumption
<1>4. /\ e = NoFrame => canQueue' = canQueue /\ canArrived' = canArrived
      /\ e # NoFrame => canQueue' = Append(canQueue, e) /\ canArrived' = Append(canArrived, e)
  BY <1>2
<1> HIDE DEF e
<1>5. EchoIsTheFrame'
  BY <1>0, <1>1 DEF EchoIsTheFrame
<1>6. CASE e = NoFrame
  <2>1. canQueue' = canQueue /\ canArrived' = canArrived
    BY <1>4, <1>6
  <2>2. CanTypes' /\ DlcIsLength'
    BY <1>0, <1>1, <2>1 DEF CanTypes, DlcIsLength
  <2>3. \A f \in CanFrames : FrameAccounted(f)'
    BY <1>0, <1>1, <2>1 DEF FrameAccounted, Handed
  <2> QED BY <1>5, <2>2, <2>3 DEF CanInv
<1>7. CASE e # NoFrame
  <2>1. e \in CanFrames /\ BytesPromised(e)
    BY <1>3, <1>7
  <2>0. canQueue' = Append(canQueue, e) /\ canArrived' = Append(canArrived, e)
    BY <1>4, <1>7
  <2>2. CanTypes'
    BY <1>0, <1>1, <2>0, <2>1 DEF CanTypes
  <2>3. DlcIsLength'
    <3>1. /\ Len(canArrived') = Len(canArrived) + 1 /\ canArrived'[Len(canArrived) + 1] = e
          /\ Len(canArrived) \in Nat /\ \A i \in 1..Len(canArrived) : canArrived'[i] = canArrived[i]
      BY <1>0, <2>0, <2>1 DEF CanTypes
    <3> QED BY <1>0, <2>1, <3>1 DEF DlcIsLength
  <2>4. ASSUME NEW f \in CanFrames PROVE FrameAccounted(f)'
    <3>1. Handed(f)' = Handed(f) /\ IsFiniteSet(Handed(f))
      BY <1>0, <1>1 DEF Handed, FrameAccounted
    <3>2. /\ Cardinality(PlacesOf(f, canQueue'))
               = Cardinality(PlacesOf(f, canQueue)) + IF e = f THEN 1 ELSE 0
          /\ Cardinality(PlacesOf(f, canArrived'))
               = Cardinality(PlacesOf(f, canArrived)) + IF e = f THEN 1 ELSE 0
      BY <1>0, <2>0, <2>1, PlacesAppended DEF CanTypes
    <3>3. /\ Cardinality(PlacesOf(f, canQueue)) \in Nat /\ Cardinality(PlacesOf(f, canArrived)) \in Nat
          /\ Cardinality(Handed(f)) \in Nat
      BY <1>0, <3>1, PlacesAreMany, FS_CardinalityType DEF CanTypes
    <3> QED BY <1>0, <3>1, <3>2, <3>3 DEF FrameAccounted
  <2> QED BY <1>5, <2>2, <2>3, <2>4 DEF CanInv
<1> QED BY <1>6, <1>7

\* A frame that is taken is handed to that reader or to nobody.
LEMMA TakePreservesFrames ==
  ASSUME CanInv, NEW r \in CanReaders, TakeFrame(r)
  PROVE  CanInv'
<1>0. CanTypes /\ EchoIsTheFrame /\ DlcIsLength /\ \A f \in CanFrames : FrameAccounted(f)
  BY DEF CanInv
<1> DEFINE e == Head(canQueue)
           got == canGot[r]
<1>1. /\ canQueue # <<>> /\ canQueue' = Tail(canQueue) /\ canArrived' = canArrived /\ canEcho' = canEcho
      /\ \/ canGot' = [canGot EXCEPT ![r] = Append(got, e)]
         \/ canGot' = canGot
  BY DEF TakeFrame
<1>2. e \in CanFrames /\ got \in Seq(CanFrames) /\ canQueue' \in Seq(CanFrames)
  BY <1>0, <1>1 DEF CanTypes
<1> HIDE DEF e, got
<1>3. CanTypes' /\ EchoIsTheFrame' /\ DlcIsLength'
  <2>0. Append(got, e) \in Seq(CanFrames) /\ canGot \in [CanReaders -> Seq(CanFrames)]
    BY <1>0, <1>2 DEF CanTypes
  <2>1. canGot' \in [CanReaders -> Seq(CanFrames)]
    BY <1>1, <2>0
  <2> QED BY <1>0, <1>1, <1>2, <2>1 DEF CanTypes, EchoIsTheFrame, DlcIsLength
<1>4. ASSUME NEW f \in CanFrames PROVE FrameAccounted(f)'
  <2> DEFINE place == <<r, Len(got) + 1>>
  <2>0. IsFiniteSet(Handed(f)) /\ Cardinality(Handed(f)) \in Nat
    BY <1>0, FS_CardinalityType DEF FrameAccounted
  <2>1. /\ Cardinality(PlacesOf(f, canQueue')) + (IF e = f THEN 1 ELSE 0) <= Cardinality(PlacesOf(f, canQueue))
        /\ Cardinality(PlacesOf(f, canQueue')) \in Nat /\ Cardinality(PlacesOf(f, canQueue)) \in Nat
        /\ Cardinality(PlacesOf(f, canArrived)) \in Nat
    BY <1>0, <1>1, <1>2, PlacesDropped, PlacesAreMany DEF CanTypes, e
  <2>2. Handed(f)' \in {Handed(f), Handed(f) \cup {place}} /\ (e # f => Handed(f)' = Handed(f))
    <3>1. CASE canGot' = canGot
      BY <3>1 DEF Handed
    <3>2. CASE canGot' = [canGot EXCEPT ![r] = Append(got, e)]
      <4>1. \A x \in CanReaders : canGot'[x] = IF x = r THEN Append(got, e) ELSE canGot[x]
        BY <1>0, <3>2 DEF CanTypes
      <4>2. PlacesOf(f, Append(got, e)) =
              IF e = f THEN PlacesOf(f, got) \cup {Len(got) + 1} ELSE PlacesOf(f, got)
        BY <1>2, PlacesAppended
      <4>3. \A x \in CanReaders : PlacesOf(f, canGot'[x]) =
              IF x = r /\ e = f THEN PlacesOf(f, canGot[x]) \cup {Len(got) + 1} ELSE PlacesOf(f, canGot[x])
        BY <4>1, <4>2 DEF got
      <4>4. CASE e # f
        BY <4>3, <4>4 DEF Handed
      <4>5. CASE e = f
        <5>1. Handed(f)' = UNION {{<<x, i>> : i \in PlacesOf(f, canGot'[x])} : x \in CanReaders}
          BY DEF Handed
        <5>2. \A x, i : <<x, i>> \in Handed(f)' <=> x \in CanReaders /\ i \in PlacesOf(f, canGot'[x])
          BY <5>1
        <5>3. \A x, i : <<x, i>> \in Handed(f) <=> x \in CanReaders /\ i \in PlacesOf(f, canGot[x])
          BY DEF Handed
        <5>4. \A p \in Handed(f)' : p = <<p[1], p[2]>>
          BY <5>1
        <5>5. \A p \in Handed(f) : p = <<p[1], p[2]>>
          BY DEF Handed
        <5>6. \A x, i : <<x, i>> \in Handed(f)' <=> <<x, i>> \in Handed(f) \/ (x = r /\ i = Len(got) + 1)
          BY <4>3, <4>5, <5>2, <5>3
        <5>7. ASSUME NEW p \in Handed(f)' PROVE p \in Handed(f) \cup {place}
          BY <5>4, <5>6
        <5>8. ASSUME NEW p \in Handed(f) \cup {place} PROVE p \in Handed(f)'
          BY <5>5, <5>6
        <5>9. Handed(f)' = Handed(f) \cup {place}
          BY <5>7, <5>8
        <5> QED BY <5>9, <4>5
      <4> QED BY <4>4, <4>5
    <3> QED BY <1>1, <3>1, <3>2
  <2>3. IsFiniteSet(Handed(f)') /\ Cardinality(Handed(f)') <= Cardinality(Handed(f)) + (IF e = f THEN 1 ELSE 0)
    <3> HIDE DEF place
    <3>0. IsFiniteSet(Handed(f) \cup {place}) /\ Cardinality(Handed(f) \cup {place}) =
            IF place \in Handed(f) THEN Cardinality(Handed(f)) ELSE Cardinality(Handed(f)) + 1
      BY <2>0, FS_AddElement
    <3>1. IsFiniteSet(Handed(f) \cup {place}) /\ Cardinality(Handed(f) \cup {place}) <= Cardinality(Handed(f)) + 1
      BY <2>0, <3>0
    <3>2. CASE Handed(f)' = Handed(f)
      BY <2>0, <3>2
    <3>3. CASE Handed(f)' = Handed(f) \cup {place} /\ e = f
      BY <3>1, <3>3
    <3> QED BY <2>2, <3>2, <3>3
  <2>4. Cardinality(Handed(f)') \in Nat
    BY <2>3, FS_CardinalityType
  <2>5. Cardinality(Handed(f)) + Cardinality(PlacesOf(f, canQueue)) <= Cardinality(PlacesOf(f, canArrived))
    BY <1>0 DEF FrameAccounted
  <2>6. Cardinality(Handed(f)') + Cardinality(PlacesOf(f, canQueue')) <= Cardinality(PlacesOf(f, canArrived'))
    BY <1>1, <2>0, <2>1, <2>3, <2>4, <2>5
  <2> QED BY <2>3, <2>6 DEF FrameAccounted
<1> QED BY <1>3, <1>4 DEF CanInv

\* Frames survive the adapter, carry the bytes they promise and are handed to one
\* reader each (crates/nodes-io/src/can): for any readers, filters, frames and
\* lines.
THEOREM CanIsSound == CanSpec => []CanSound
<1>1. CanInv /\ [CanNext]_canVars => CanInv'
  <2> SUFFICES ASSUME CanInv, [CanNext]_canVars PROVE CanInv'
    OBVIOUS
  <2>1. CASE SendFrame
    BY <2>1, SendPreserves
  <2>2. CASE ThreadReads
    BY <2>2, ReadPreserves
  <2>3. ASSUME NEW r \in CanReaders, TakeFrame(r) PROVE CanInv'
    BY <2>3, TakePreservesFrames
  <2>4. CASE UNCHANGED <<canQueue, canGot, canArrived, canEcho>>
    BY <2>4 DEF CanInv, CanTypes, EchoIsTheFrame, DlcIsLength, FrameAccounted, Handed
  <2> QED BY <2>1, <2>2, <2>3, <2>4
          DEF CanNext, ThreadEnds, Receive, CanReaderStep, ReceiveTimesOut, ChannelClosed, canVars
<1>2. CanInv => CanSound
  <2> SUFFICES ASSUME CanInv PROVE FrameTakenOnce
    BY DEF CanInv, CanSound
  <2>1. \A i \in 1..Len(canArrived) : canArrived[i] \in CanFrames
    BY DEF CanInv, CanTypes
  <2> QED BY <2>1 DEF CanInv, FrameTakenOnce, FrameAccounted
<1> QED BY <1>1, <1>2, CanStarts, PTL DEF CanSpec

(***************************************************************************)
(* Serial listeners (SerialListener).                                      *)
(***************************************************************************)
LEMMA LeastNumber ==
  ASSUME NEW T, T \subseteq Nat, T # {}
  PROVE  \E x \in T : \A y \in T : x <= y
<1>1. ASSUME NEW R, IsWellFoundedOn(R, Nat) PROVE \E x \in T : \A y \in T : <<y, x>> \notin R
  BY <1>1, WFMin, Zenon
<1>2. IsWellFoundedOn(OpToRel(<, Nat), Nat)
  BY NatLessThanWellFounded, Zenon
<1>3. \E x \in T : \A y \in T : <<y, x>> \notin OpToRel(<, Nat)
  BY <1>1, <1>2, Zenon
<1>4. PICK x \in T : \A y \in T : <<y, x>> \notin OpToRel(<, Nat)
  BY <1>3
<1>5. \A y \in T : x \in Nat /\ y \in Nat /\ ~(y < x)
  BY <1>4 DEF OpToRel
<1> QED BY <1>5

\* Step by step from 0 to N.
LEMMA StepByStep ==
  ASSUME NEW N \in Nat, NEW S, 0 \in S, \A i \in 1..N : i - 1 \in S => i \in S
  PROVE  \A i \in 0..N : i \in S
<1> DEFINE T == {i \in 0..N : i \notin S}
<1> SUFFICES ASSUME T # {} PROVE FALSE
  OBVIOUS
<1>0. T \subseteq Nat
  OBVIOUS
<1>1. PICK x \in T : \A y \in T : x <= y
  <2> HIDE DEF T
  <2> QED BY <1>0, LeastNumber
<1>2. x \in 1..N
  BY <1>1
<1>3. x - 1 \in 0..N /\ ~(x <= x - 1)
  BY <1>2
<1>4. x - 1 \notin T
  BY <1>1, <1>3
<1> QED BY <1>1, <1>2, <1>3, <1>4

\* A recursion over 0..N whose steps stay in a set has a solution there.
Solution(f, N, A, a, g) ==
  f \in [0..N -> A] /\ f[0] = a /\ \A i \in 1..N : f[i] = g[<<i, f[i - 1]>>]
LEMMA Recursion ==
  ASSUME NEW N \in Nat, NEW A, NEW a \in A, NEW g \in [(1..N) \X A -> A]
  PROVE  \E f : Solution(f, N, A, a, g)
<1> DEFINE Solves(f, m) == f[0] = a /\ \A i \in 1..m : f[i] = g[<<i, f[i - 1]>>]
           S == {m \in 0..N : \E f \in [0..m -> A] : Solves(f, m)}
<1>1. 0 \in S
  <2> DEFINE h == [i \in 0..0 |-> a]
  <2>1. h \in [0..0 -> A] /\ Solves(h, 0)
    OBVIOUS
  <2> HIDE DEF h
  <2>2. \E f \in [0..0 -> A] : Solves(f, 0)
    BY <2>1
  <2> QED BY <2>2
<1>2. ASSUME NEW m \in 1..N, m - 1 \in S PROVE m \in S
  <2>1. PICK f \in [0..(m - 1) -> A] : Solves(f, m - 1)
    BY <1>2
  <2> DEFINE h == [i \in 0..m |-> IF i = m THEN g[<<m, f[m - 1]>>] ELSE f[i]]
  <2>2. h \in [0..m -> A]
    <3>1. f[m - 1] \in A /\ g[<<m, f[m - 1]>>] \in A
      BY <2>1
    <3>2. \A i \in 0..m : i # m => i \in 0..(m - 1)
      OBVIOUS
    <3> QED BY <2>1, <3>1, <3>2
  <2>3. Solves(h, m)
    <3>1. h[0] = a
      BY <2>1
    <3>2. ASSUME NEW i \in 1..m PROVE h[i] = g[<<i, h[i - 1]>>]
      <4>1. i - 1 \in 0..m /\ i - 1 # m /\ h[i - 1] = f[i - 1]
        OBVIOUS
      <4>2. CASE i = m
        BY <4>1, <4>2
      <4>3. CASE i # m
        <5>1. i \in 1..(m - 1) /\ h[i] = f[i]
          BY <4>3
        <5> QED BY <2>1, <4>1, <5>1
      <4> QED BY <4>2, <4>3
    <3> QED BY <3>1, <3>2
  <2> HIDE DEF h
  <2> QED BY <2>2, <2>3
<1> HIDE DEF S
<1>3. N \in S
  BY <1>1, <1>2, StepByStep
<1>4. PICK f \in [0..N -> A] : Solves(f, N)
  BY <1>3 DEF S
<1>5. Solution(f, N, A, a, g)
  BY <1>4 DEF Solution
<1> QED BY <1>5

(* Octets and frames. *)
Octets == Seq(Nat)
Frame == [data : Octets, how : {"line", "long", "idle", "rest"}]

\* Concatenation is closed and associative, and cuts fit together again.
LEMMA Glued == \A s, t \in Octets : s \o t \in Octets /\ Len(s \o t) = Len(s) + Len(t)
  BY ConcatProperties DEF Octets

LEMMA PieceIsBytes ==
  ASSUME serial.delimiter \in Octets, NEW x \in Frame PROVE Piece(x) \in Octets
<1>1. x.data \in Octets /\ << >> \in Octets
  BY DEF Frame, Octets
<1> QED BY <1>1, Glued DEF Piece

\* The joined frames, prefix by prefix.
LEMMA JoinedPrefixes ==
  ASSUME serial.delimiter \in Octets, NEW fs \in Seq(Frame)
  PROVE  \E f \in [0..Len(fs) -> Octets] :
           /\ f[0] = << >> /\ \A i \in 1..Len(fs) : f[i] = f[i - 1] \o Piece(fs[i])
           /\ Joined(fs) = f[Len(fs)]
<1> DEFINE N == Len(fs)
           g == [p \in (1..N) \X Octets |-> p[2] \o Piece(fs[p[1]])]
           Eq(h) == h = [n \in 0..N |-> IF n = 0 THEN << >> ELSE h[n - 1] \o Piece(fs[n])]
           u == CHOOSE h : Eq(h)
<1>1. N \in Nat /\ \A i \in 1..N : fs[i] \in Frame
  OBVIOUS
<1>2. << >> \in Octets
  BY DEF Octets
<1> HIDE DEF N
<1>3. \A i \in 1..N : \A s \in Octets : s \o Piece(fs[i]) \in Octets
  BY <1>1, PieceIsBytes, Glued
<1>4. g \in [(1..N) \X Octets -> Octets]
  BY <1>3
<1>5. \A i \in 1..N : \A s \in Octets : g[<<i, s>>] = s \o Piece(fs[i])
  OBVIOUS
<1> HIDE DEF g
<1>6. PICK h \in [0..N -> Octets] : h[0] = << >> /\ \A i \in 1..N : h[i] = g[<<i, h[i - 1]>>]
  <2>1. PICK h : Solution(h, N, Octets, << >>, g)
    BY <1>1, <1>2, <1>4, Recursion, Zenon
  <2> QED BY <2>1 DEF Solution
<1>7. Eq(h)
  <2>1. ASSUME NEW n \in 0..N PROVE h[n] = IF n = 0 THEN << >> ELSE h[n - 1] \o Piece(fs[n])
    <3>1. CASE n = 0
      BY <1>6, <3>1
    <3>2. CASE n # 0
      <4>1. n \in 1..N /\ n - 1 \in 0..N
        BY <1>1, <3>2
      <4>2. h[n - 1] \in Octets
        BY <4>1
      <4> QED BY <1>5, <1>6, <3>2, <4>1, <4>2
    <3> QED BY <3>1, <3>2
  <2> QED BY <2>1
<1>8. Eq(u)
  BY <1>7, Zenon
<1> HIDE DEF u
<1>9. u[0] = << >> /\ \A i \in 1..N : u[i] = u[i - 1] \o Piece(fs[i])
  <2>1. \A n \in 0..N : u[n] = IF n = 0 THEN << >> ELSE u[n - 1] \o Piece(fs[n])
    BY <1>8, Zenon
  <2>2. 0 \in 0..N /\ \A i \in 1..N : i \in 0..N /\ i # 0
    BY <1>1
  <2> QED BY <2>1, <2>2, Zenon
<1>10. \A i \in 0..N : u[i] \in Octets
  <2> DEFINE S == {i \in 0..N : u[i] \in Octets}
  <2>1. 0 \in S
    BY <1>1, <1>2, <1>9
  <2>2. ASSUME NEW i \in 1..N, i - 1 \in S PROVE i \in S
    <3>1. u[i - 1] \in Octets /\ i \in 0..N
      BY <1>1, <2>2
    <3>2. u[i - 1] \o Piece(fs[i]) \in Octets
      BY <1>3, <3>1, Zenon
    <3> QED BY <1>9, <3>1, <3>2
  <2>3. \A i \in 0..N : i \in S
    <3> HIDE DEF S
    <3> QED BY <1>1, <2>1, <2>2, StepByStep
  <2> QED BY <2>3
<1>11. u \in [0..N -> Octets]
  BY <1>8, <1>10
<1>12. Joined(fs) = u[N]
  BY DEF Joined, u, N
<1> QED BY <1>9, <1>11, <1>12 DEF N

LEMMA JoinedAppend ==
  ASSUME serial.delimiter \in Octets, NEW fs \in Seq(Frame), NEW x \in Frame
  PROVE  Joined(fs) \in Octets /\ Joined(Append(fs, x)) = Joined(fs) \o Piece(x)
<1> DEFINE N == Len(fs)
           gs == Append(fs, x)
<1>1. N \in Nat /\ gs \in Seq(Frame) /\ Len(gs) = N + 1 /\ gs[N + 1] = x
  OBVIOUS
<1>2. \A i \in 1..N : gs[i] = fs[i]
  OBVIOUS
<1>3. PICK f \in [0..N -> Octets] :
        /\ f[0] = << >> /\ \A i \in 1..N : f[i] = f[i - 1] \o Piece(fs[i])
        /\ Joined(fs) = f[N]
  BY JoinedPrefixes
<1> HIDE DEF gs
<1>4. PICK k \in [0..Len(gs) -> Octets] :
        /\ k[0] = << >> /\ \A i \in 1..Len(gs) : k[i] = k[i - 1] \o Piece(gs[i])
        /\ Joined(gs) = k[Len(gs)]
  BY <1>1, JoinedPrefixes
<1> HIDE DEF N
<1>5. k[N] = f[N]
  <2> DEFINE S == {i \in 0..N : k[i] = f[i]}
  <2>1. 0 \in S
    BY <1>1, <1>3, <1>4
  <2>2. ASSUME NEW i \in 1..N, i - 1 \in S PROVE i \in S
    <3>1. i \in 1..Len(gs) /\ gs[i] = fs[i] /\ i \in 0..N
      BY <1>1, <1>2
    <3>2. k[i] = k[i - 1] \o Piece(fs[i]) /\ f[i] = f[i - 1] \o Piece(fs[i])
      BY <1>3, <1>4, <3>1
    <3> QED BY <2>2, <3>1, <3>2
  <2> HIDE DEF S
  <2>3. N \in S
    <3>1. \A i \in 0..N : i \in S
      BY <1>1, <2>1, <2>2, StepByStep
    <3> QED BY <1>1, <3>1
  <2> QED BY <2>3 DEF S
<1>6. k[N + 1] = k[N] \o Piece(x)
  <2>1. N + 1 \in 1..Len(gs) /\ (N + 1) - 1 = N
    BY <1>1
  <2> QED BY <1>1, <1>4, <2>1
<1>7. f[N] \in Octets
  BY <1>1, <1>3
<1> QED BY <1>1, <1>3, <1>4, <1>5, <1>6, <1>7 DEF gs

LEMMA JoinedEmpty == Joined(<< >>) = << >>
<1>1. Len(<< >>) = 0
  OBVIOUS
<1> DEFINE Eq(h) == h = [n \in 0..0 |-> IF n = 0 THEN << >> ELSE h[n - 1] \o Piece(<< >>[n])]
           u == CHOOSE h : Eq(h)
<1>2. Eq([n \in 0..0 |-> << >>])
  OBVIOUS
<1>3. Eq(u)
  BY <1>2, Zenon
<1> HIDE DEF u
<1>4. u[0] = << >>
  BY <1>3
<1> QED BY <1>1, <1>4 DEF Joined, u

(* Delimiters in a sequence of bytes. *)
LEMMA DelimiterIsMatch ==
  ASSUME serial.delimiter \in Octets, serial.delimiter # << >>, NEW s \in Octets, NEW i
  PROVE  i \in Delimiters(s) <=>
           /\ i \in 1..(Len(s) - Len(serial.delimiter) + 1)
           /\ \A k \in 1..Len(serial.delimiter) : s[i + k - 1] = serial.delimiter[k]
<1> DEFINE d == serial.delimiter
           m == Len(d)
           n == Len(s)
<1>1. d \in Seq(Nat) /\ s \in Seq(Nat) /\ m \in Nat /\ n \in Nat /\ m > 0
  BY DEF Octets
<1>2. i \in Delimiters(s) <=> i \in 1..(n - m + 1) /\ SubSeq(s, i, i + m - 1) = d
  BY DEF Delimiters
<1>3. ASSUME i \in 1..(n - m + 1)
      PROVE  SubSeq(s, i, i + m - 1) = d <=> \A k \in 1..m : s[i + k - 1] = d[k]
  <2> DEFINE t == SubSeq(s, i, i + m - 1)
  <2> HIDE DEF d, m, n
  <2>1. i \in Int /\ i + m - 1 \in Int /\ i <= i + m - 1
    BY <1>1, <1>3
  <2>2. \A j \in i..(i + m - 1) : s[j] \in Nat
    <3>1. \A j \in i..(i + m - 1) : j \in 1..n
      BY <1>1, <1>3
    <3> QED BY <1>1, <3>1, ElementOfSeq DEF n
  <2>3. /\ t \in Seq(Nat)
        /\ Len(t) = IF i <= i + m - 1 THEN (i + m - 1) - i + 1 ELSE 0
        /\ \A j \in 1..((i + m - 1) - i + 1) : t[j] = s[i + j - 1]
    BY <2>1, <2>2, SubSeqProperties
  <2>4. t \in Seq(Nat) /\ Len(t) = m /\ \A j \in 1..m : t[j] = s[i + j - 1]
    BY <1>1, <1>3, <2>1, <2>3, SMTT(60)
  <2> HIDE DEF t
  <2>5. ASSUME \A k \in 1..m : s[i + k - 1] = d[k] PROVE t = d
    <3>1. Len(t) = Len(d) /\ \A k \in 1..Len(t) : t[k] = d[k]
      BY <2>4, <2>5 DEF m
    <3> QED BY <1>1, <2>4, <3>1, SeqEqual
  <2>6. ASSUME t = d PROVE \A k \in 1..m : s[i + k - 1] = d[k]
    BY <2>4, <2>6
  <2> QED BY <2>5, <2>6 DEF t
<1> QED BY <1>2, <1>3

\* The places of delimiters, as far as arithmetic needs them.
LEMMA DelimitersAreNumbers ==
  ASSUME serial.delimiter \in Octets, NEW s \in Octets
  PROVE  Delimiters(s) \subseteq 1..Len(s)
<1> DEFINE n == Len(s)
           m == Len(serial.delimiter)
<1>1. n \in Nat /\ m \in Nat /\ (serial.delimiter # << >> => m > 0)
  BY DEF Octets
<1>2. ASSUME NEW i \in Delimiters(s) PROVE i \in 1..(n - m + 1) /\ serial.delimiter # << >>
  BY <1>2 DEF Delimiters
<1> HIDE DEF n, m
<1>3. \A i \in Delimiters(s) : i \in 1..n
  BY <1>1, <1>2
<1> QED BY <1>3 DEF n

LEMMA EmptyIsClean ==
  ASSUME serial.delimiter \in Octets PROVE Delimiters(<< >>) = {}
<1>1. << >> \in Octets /\ Len(<< >>) = 0
  BY DEF Octets
<1> QED BY <1>1, DelimitersAreNumbers

\* The two parts of a sequence.
LEMMA Parts ==
  ASSUME NEW s \in Octets, NEW n \in 0..Len(s)
  PROVE  /\ SubSeq(s, 1, n) \in Octets /\ Len(SubSeq(s, 1, n)) = n
         /\ \A j \in 1..n : SubSeq(s, 1, n)[j] = s[j]
         /\ SubSeq(s, n + 1, Len(s)) \in Octets /\ Len(SubSeq(s, n + 1, Len(s))) = Len(s) - n
         /\ \A j \in 1..(Len(s) - n) : SubSeq(s, n + 1, Len(s))[j] = s[n + j]
<1> DEFINE L == Len(s)
<1>1. L \in Nat /\ n \in Nat /\ n <= L /\ \A j \in 1..L : s[j] \in Nat
  BY DEF Octets
<1> HIDE DEF L
<1>2. \A j \in 1..n : s[j] \in Nat
  BY <1>1
<1>3. \A j \in (n + 1)..L : s[j] \in Nat
  BY <1>1
<1>4. /\ SubSeq(s, 1, n) \in Seq(Nat) /\ Len(SubSeq(s, 1, n)) = IF 1 <= n THEN n - 1 + 1 ELSE 0
      /\ \A j \in 1..(n - 1 + 1) : SubSeq(s, 1, n)[j] = s[1 + j - 1]
  BY <1>1, <1>2, SubSeqProperties
<1>5. /\ SubSeq(s, n + 1, L) \in Seq(Nat)
      /\ Len(SubSeq(s, n + 1, L)) = IF n + 1 <= L THEN L - (n + 1) + 1 ELSE 0
      /\ \A j \in 1..(L - (n + 1) + 1) : SubSeq(s, n + 1, L)[j] = s[(n + 1) + j - 1]
  <2>1. n + 1 \in Int /\ L \in Int
    BY <1>1
  <2> QED BY <1>3, <2>1, SubSeqProperties
<1>6. Len(SubSeq(s, 1, n)) = n /\ \A j \in 1..n : SubSeq(s, 1, n)[j] = s[j]
  <2> DEFINE p == SubSeq(s, 1, n)
  <2>1. /\ Len(p) = IF 1 <= n THEN n - 1 + 1 ELSE 0
        /\ \A j \in 1..(n - 1 + 1) : p[j] = s[1 + j - 1]
    BY <1>4
  <2> HIDE DEF p
  <2>2. Len(p) = n
    BY <1>1, <2>1
  <2>3. \A j \in 1..n : p[j] = s[j]
    <3>1. \A j \in 1..n : j \in 1..(n - 1 + 1) /\ 1 + j - 1 = j
      BY <1>1
    <3> QED BY <2>1, <3>1
  <2> QED BY <2>2, <2>3 DEF p
<1>7. Len(SubSeq(s, n + 1, L)) = L - n /\ \A j \in 1..(L - n) : SubSeq(s, n + 1, L)[j] = s[n + j]
  <2> DEFINE p == SubSeq(s, n + 1, L)
  <2>1. /\ Len(p) = IF n + 1 <= L THEN L - (n + 1) + 1 ELSE 0
        /\ \A j \in 1..(L - (n + 1) + 1) : p[j] = s[(n + 1) + j - 1]
    BY <1>5
  <2> HIDE DEF p
  <2>2. Len(p) = L - n
    BY <1>1, <2>1
  <2>3. \A j \in 1..(L - n) : p[j] = s[n + j]
    <3>1. \A j \in 1..(L - n) : j \in 1..(L - (n + 1) + 1) /\ (n + 1) + j - 1 = n + j
      BY <1>1
    <3> QED BY <2>1, <3>1
  <2> QED BY <2>2, <2>3 DEF p
<1> QED BY <1>4, <1>5, <1>6, <1>7 DEF Octets, L

\* What comes before the delimiters has none.
LEMMA PrefixIsClean ==
  ASSUME serial.delimiter \in Octets, NEW s \in Octets, NEW n \in 0..Len(s),
         \A i \in Delimiters(s) : i > n - Len(serial.delimiter) + 1
  PROVE  Delimiters(SubSeq(s, 1, n)) = {}
<1> DEFINE d == serial.delimiter
           m == Len(d)
           p == SubSeq(s, 1, n)
           L == Len(s)
<1>1. CASE d = << >>
  BY <1>1 DEF Delimiters
<1>2. CASE d # << >>
  <2>1. p \in Octets /\ Len(p) = n /\ \A j \in 1..n : p[j] = s[j]
    BY Parts
  <2>2. m \in Nat /\ m > 0 /\ L \in Nat /\ n \in 0..L
    BY <1>2 DEF Octets
  <2> HIDE DEF p, m, L
  <2> SUFFICES ASSUME NEW i \in Delimiters(p) PROVE FALSE
    BY DEF p
  <2>3. i \in 1..(n - m + 1) /\ \A k \in 1..m : p[i + k - 1] = d[k]
    BY <1>2, <2>1, DelimiterIsMatch, ZenonT(90) DEF m
  <2>4. i \in 1..(L - m + 1) /\ \A k \in 1..m : i + k - 1 \in 1..n
    BY <2>2, <2>3
  <2>5. \A k \in 1..m : s[i + k - 1] = d[k]
    BY <2>1, <2>3, <2>4
  <2>6. i \in Delimiters(s)
    BY <1>2, <2>4, <2>5, DelimiterIsMatch DEF m, L
  <2>7. i > n - m + 1
    BY <2>6 DEF m
  <2> QED BY <2>2, <2>3, <2>7
<1> QED BY <1>1, <1>2

\* What is left of a sequence without a delimiter has none.
LEMMA SuffixIsClean ==
  ASSUME serial.delimiter \in Octets, NEW s \in Octets, NEW n \in 0..Len(s), Delimiters(s) = {}
  PROVE  Delimiters(SubSeq(s, n + 1, Len(s))) = {}
<1> DEFINE d == serial.delimiter
           m == Len(d)
           L == Len(s)
           p == SubSeq(s, n + 1, L)
<1>1. CASE d = << >>
  BY <1>1 DEF Delimiters
<1>2. CASE d # << >>
  <2>1. p \in Octets /\ Len(p) = L - n /\ \A j \in 1..(L - n) : p[j] = s[n + j]
    BY Parts
  <2>2. m \in Nat /\ m > 0 /\ L \in Nat /\ n \in 0..L
    BY <1>2 DEF Octets
  <2> HIDE DEF p, m, L
  <2> SUFFICES ASSUME NEW i \in Delimiters(p) PROVE FALSE
    BY DEF p, L
  <2>3. i \in 1..((L - n) - m + 1) /\ \A k \in 1..m : p[i + k - 1] = d[k]
    BY <1>2, <2>1, DelimiterIsMatch, ZenonT(90) DEF m
  <2> DEFINE j == n + i
  <2>4. j \in 1..(L - m + 1) /\ \A k \in 1..m : i + k - 1 \in 1..(L - n) /\ j + k - 1 = n + (i + k - 1)
    BY <2>2, <2>3
  <2> HIDE DEF j
  <2>5. \A k \in 1..m : s[j + k - 1] = d[k]
    BY <2>1, <2>3, <2>4, ZenonT(90)
  <2>6. j \in Delimiters(s)
    BY <1>2, <2>4, <2>5, DelimiterIsMatch DEF m, L
  <2> QED BY <2>6
<1> QED BY <1>1, <1>2

\* A delimiter is followed by the rest.
LEMMA PartsAround ==
  ASSUME NEW s \in Octets, NEW n \in 0..Len(s), NEW k \in 0..(Len(s) - n)
  PROVE  s = SubSeq(s, 1, n) \o (SubSeq(s, n + 1, n + k) \o SubSeq(s, n + k + 1, Len(s)))
<1> DEFINE L == Len(s)
<1>1. L \in Nat /\ n \in 0..L /\ k \in 0..(L - n) /\ s \in Seq(Nat)
  BY DEF Octets
<1> HIDE DEF L
<1>2. SubSeq(s, n + 1, n + k) \o SubSeq(s, (n + k) + 1, L) = SubSeq(s, n + 1, L)
  <2>1. n + 1 \in 1..(L + 1) /\ n + k \in ((n + 1) - 1)..L /\ L \in (n + k)..L
    BY <1>1
  <2> QED BY <1>1, <2>1, ConcatAdjacentSubSeq DEF L
<1>3. SubSeq(s, 1, n) \o SubSeq(s, n + 1, L) = SubSeq(s, 1, L)
  <2>1. 1 \in 1..(L + 1) /\ n \in (1 - 1)..L /\ L \in n..L
    BY <1>1
  <2> QED BY <1>1, <2>1, ConcatAdjacentSubSeq DEF L
<1>4. SubSeq(s, 1, L) = s
  BY <1>1, SubSeqFull DEF L
<1> QED BY <1>2, <1>3, <1>4 DEF L

(* Cutting frames off the buffer. *)
Buffered == [rest : Octets, cuts : Seq(Frame)]
AllClean(fs) == \A i \in 1..Len(fs) : Delimiters(fs[i].data) = {}

LEMMA Associated == \A s, t, u \in Octets : (s \o t) \o u = s \o (t \o u)
  BY ConcatAssociative, SMTT(60) DEF Octets

LEMMA CleanAppend ==
  ASSUME NEW fs \in Seq(Frame), NEW x \in Frame, AllClean(fs), Delimiters(x.data) = {}
  PROVE  AllClean(Append(fs, x))
<1> DEFINE a == Append(fs, x)
           n == Len(fs)
<1>1. n \in Nat /\ Len(a) = n + 1 /\ a[n + 1] = x /\ \A i \in 1..n : a[i] = fs[i]
  OBVIOUS
<1> HIDE DEF a
<1>2. \A i \in 1..n : Delimiters(fs[i].data) = {}
  BY DEF AllClean
<1> HIDE DEF n
<1>3. ASSUME NEW i \in 1..(n + 1) PROVE Delimiters(a[i].data) = {}
  <2>1. CASE i = n + 1
    BY <1>1, <2>1
  <2>2. CASE i # n + 1
    <3>1. i \in 1..n
      BY <1>1, <2>2
    <3> QED BY <1>1, <1>2, <3>1
  <2> QED BY <2>1, <2>2
<1> QED BY <1>1, <1>3 DEF AllClean, a

LEMMA CutKeeps ==
  ASSUME serial.delimiter \in Octets, NEW st \in Buffered, NEW n \in 0..Len(st.rest),
         NEW k \in 0..(Len(st.rest) - n), NEW how \in {"line", "long"},
         SubSeq(st.rest, n + 1, n + k) = (IF how = "line" THEN serial.delimiter ELSE << >>),
         AllClean(st.cuts), \A i \in Delimiters(st.rest) : i > n - Len(serial.delimiter) + 1
  PROVE  /\ Cut(st, n, k, how) \in Buffered
         /\ Joined(Cut(st, n, k, how).cuts) \o Cut(st, n, k, how).rest = Joined(st.cuts) \o st.rest
         /\ AllClean(Cut(st, n, k, how).cuts)
         /\ Len(Cut(st, n, k, how).rest) = Len(st.rest) - n - k
<1> DEFINE s == st.rest
           data == SubSeq(s, 1, n)
           mid == SubSeq(s, n + 1, n + k)
           tail == SubSeq(s, n + k + 1, Len(s))
           f == [data |-> data, how |-> how]
           J == Joined(st.cuts)
<1>1. s \in Octets /\ st.cuts \in Seq(Frame)
  BY DEF Buffered
<1>2. Len(s) \in Nat
  BY <1>1 DEF Octets
<1>3. data \in Octets
  BY <1>1, Parts
<1>4. tail \in Octets /\ Len(tail) = Len(s) - (n + k)
  <2> DEFINE m == n + k
  <2>1. m \in 0..Len(s)
    BY <1>2, SMTT(60)
  <2> HIDE DEF m
  <2>2. SubSeq(s, m + 1, Len(s)) \in Octets /\ Len(SubSeq(s, m + 1, Len(s))) = Len(s) - m
    BY <1>1, <2>1, Parts
  <2> QED BY <2>2 DEF m
<1>5. mid \in Octets
  <2>1. n + 1 \in Int /\ n + k \in Int /\ \A i \in (n + 1)..(n + k) : i \in 1..Len(s)
    BY <1>2, SMTT(60)
  <2>2. s \in Seq(Nat)
    BY <1>1 DEF Octets
  <2> HIDE DEF s
  <2>3. \A i \in 1..Len(s) : s[i] \in Nat
    BY <2>2, SMTT(60)
  <2>4. SubSeq(s, n + 1, n + k) \in Seq(Nat)
    BY <2>1, <2>3, SubSeqProperties, Zenon
  <2> QED BY <2>4 DEF Octets
<1>6. s = data \o (mid \o tail)
  BY <1>1, PartsAround
<1>7. Cut(st, n, k, how) = [rest |-> tail, cuts |-> Append(st.cuts, f)]
  BY DEF Cut
<1>8. f \in Frame
  BY <1>3 DEF Frame
<1>9. Piece(f) = data \o mid
  BY DEF Piece
<1>10. Delimiters(data) = {}
  BY <1>1, PrefixIsClean
<1> HIDE DEF s, data, mid, tail
<1>11. AllClean(Append(st.cuts, f))
  BY <1>1, <1>8, <1>10, CleanAppend
<1>12. J \in Octets /\ Joined(Append(st.cuts, f)) = J \o (data \o mid)
  BY <1>1, <1>8, <1>9, JoinedAppend
<1> HIDE DEF f, J
<1>13. (J \o (data \o mid)) \o tail = J \o ((data \o mid) \o tail)
  <2> DEFINE b == data \o mid
  <2>1. b \in Octets
    BY <1>3, <1>5, Glued
  <2> HIDE DEF b
  <2>2. (J \o b) \o tail = J \o (b \o tail)
    BY <1>4, <1>12, <2>1, Associated
  <2> QED BY <2>2 DEF b
<1>14. (data \o mid) \o tail = data \o (mid \o tail)
  BY <1>3, <1>4, <1>5, Associated, ZenonT(90)
<1>15. Append(st.cuts, f) \in Seq(Frame)
  BY <1>1, <1>8
<1>16. Joined(Append(st.cuts, f)) \o tail = J \o s
  BY <1>6, <1>12, <1>13, <1>14, Zenon
<1>17. Len(tail) = Len(s) - n - k
  BY <1>2, <1>4
<1> DEFINE c == Append(st.cuts, f)
<1> HIDE DEF c
<1>18. [rest |-> tail, cuts |-> c] \in Buffered
  BY <1>4, <1>15 DEF Buffered, c
<1> DEFINE r == Cut(st, n, k, how)
<1>19. r = [rest |-> tail, cuts |-> c]
  BY <1>7 DEF c
<1> HIDE DEF r
<1>20. r \in Buffered /\ r.rest = tail /\ r.cuts = c
  BY <1>18, <1>19
<1>21. Joined(r.cuts) \o r.rest = Joined(st.cuts) \o st.rest
  BY <1>16, <1>20 DEF c, s, J
<1>22. AllClean(r.cuts)
  BY <1>11, <1>20 DEF c
<1>23. Len(r.rest) = Len(st.rest) - n - k
  BY <1>17, <1>20 DEF s
<1> QED BY <1>20, <1>21, <1>22, <1>23 DEF r

\* The first delimiter.
LEMMA FirstIsFirst ==
  ASSUME serial.delimiter \in Octets, NEW s \in Octets, Delimiters(s) # {}
  PROVE  FirstDelimiter(s) \in Delimiters(s) /\ \A j \in Delimiters(s) : FirstDelimiter(s) <= j
<1>1. Delimiters(s) \subseteq Nat
  <2>1. Delimiters(s) \subseteq 1..Len(s) /\ Len(s) \in Nat
    BY DelimitersAreNumbers DEF Octets
  <2> DEFINE L == Len(s)
  <2> HIDE DEF L
  <2> QED BY <2>1 DEF L
<1>2. \E i \in Delimiters(s) : \A j \in Delimiters(s) : i <= j
  BY <1>1, LeastNumber
<1> QED BY <1>2, Zenon DEF FirstDelimiter

\* One frame less in the buffer, or nothing to cut.
LEMMA DrainKeeps ==
  ASSUME serial.delimiter \in Octets, NEW st \in Buffered, AllClean(st.cuts)
  PROVE  /\ DrainDelimitedFrame(st) \in Buffered
         /\ Joined(DrainDelimitedFrame(st).cuts) \o DrainDelimitedFrame(st).rest = Joined(st.cuts) \o st.rest
         /\ AllClean(DrainDelimitedFrame(st).cuts)
         /\ Delimiters(st.rest) = {} => DrainDelimitedFrame(st) = st
         /\ Delimiters(st.rest) # {} => Len(DrainDelimitedFrame(st).rest) < Len(st.rest)
<1>1. CASE Delimiters(st.rest) = {}
  BY <1>1 DEF DrainDelimitedFrame
<1>2. CASE Delimiters(st.rest) # {}
  <2> DEFINE s == st.rest
             d == serial.delimiter
             i == FirstDelimiter(s)
             m == Len(d)
             L == Len(s)
  <2>1. s \in Octets /\ d # << >>
    BY <1>2 DEF Buffered, Delimiters
  <2>2. i \in Delimiters(s) /\ \A j \in Delimiters(s) : i <= j
    BY <1>2, <2>1, FirstIsFirst
  <2>3. i \in 1..(L - m + 1) /\ SubSeq(s, i, i + m - 1) = d
    BY <2>2 DEF Delimiters
  <2>4. m \in Nat /\ m > 0 /\ L \in Nat
    BY <2>1 DEF Octets
  <2>5. Delimiters(s) \subseteq 1..L
    BY <2>1, DelimitersAreNumbers
  <2>6. DrainDelimitedFrame(st) = Cut(st, i - 1, m, "line")
    BY <1>2 DEF DrainDelimitedFrame
  <2> HIDE DEF i, m, L, s, d
  <2>7. i - 1 \in 0..L /\ m \in 0..(L - (i - 1)) /\ (i - 1) + 1 = i /\ (i - 1) + m = i + m - 1
    BY <2>3, <2>4
  <2>8. \A j \in Delimiters(s) : j > (i - 1) - m + 1
    BY <2>2, <2>3, <2>4, <2>5
  <2>9. SubSeq(s, (i - 1) + 1, (i - 1) + m) = d
    BY <2>3, <2>7
  <2>10. /\ Cut(st, i - 1, m, "line") \in Buffered
         /\ Joined(Cut(st, i - 1, m, "line").cuts) \o Cut(st, i - 1, m, "line").rest = Joined(st.cuts) \o st.rest
         /\ AllClean(Cut(st, i - 1, m, "line").cuts)
         /\ Len(Cut(st, i - 1, m, "line").rest) = Len(st.rest) - (i - 1) - m
    <3> DEFINE q == i - 1
    <3>1. q \in 0..Len(st.rest) /\ m \in 0..(Len(st.rest) - q)
      BY <2>7 DEF L, s
    <3>2. SubSeq(st.rest, q + 1, q + m) = (IF "line" = "line" THEN serial.delimiter ELSE << >>)
      BY <2>9 DEF s, d
    <3>3. \A j \in Delimiters(st.rest) : j > q - Len(serial.delimiter) + 1
      BY <2>8 DEF s, d, m
    <3>4. "line" \in {"line", "long"}
      OBVIOUS
    <3> HIDE DEF q
    <3>5. /\ Cut(st, q, m, "line") \in Buffered
          /\ Joined(Cut(st, q, m, "line").cuts) \o Cut(st, q, m, "line").rest = Joined(st.cuts) \o st.rest
          /\ AllClean(Cut(st, q, m, "line").cuts)
          /\ Len(Cut(st, q, m, "line").rest) = Len(st.rest) - q - m
      BY <3>1, <3>2, <3>3, <3>4, CutKeeps
    <3> QED BY <3>5 DEF q
  <2>11. L - (i - 1) - m < L
    BY <2>3, <2>4, SMTT(60)
  <2> QED BY <1>2, <2>6, <2>10, <2>11 DEF L, s
<1> QED BY <1>1, <1>2

\* After as many rounds as there are bytes no delimiter is left.
LEMMA DrainedKeeps ==
  ASSUME serial.delimiter \in Octets, NEW buffer \in Octets, cuts \in Seq(Frame), AllClean(cuts)
  PROVE  LET drained[k \in 0..Len(buffer)] ==
               IF k = 0 THEN [rest |-> buffer, cuts |-> cuts] ELSE DrainDelimitedFrame(drained[k - 1])
             end == drained[Len(buffer)]
         IN  /\ end \in Buffered /\ AllClean(end.cuts)
             /\ Joined(end.cuts) \o end.rest = Joined(cuts) \o buffer
             /\ Delimiters(end.rest) = {} /\ Len(end.rest) <= Len(buffer)
<1> DEFINE N == Len(buffer)
           start == [rest |-> buffer, cuts |-> cuts]
           total == Joined(cuts) \o buffer
           A == {st \in Buffered : AllClean(st.cuts) /\ Joined(st.cuts) \o st.rest = total}
           g == [p \in (1..N) \X A |-> DrainDelimitedFrame(p[2])]
           Eq(h) == h = [k \in 0..N |-> IF k = 0 THEN start ELSE DrainDelimitedFrame(h[k - 1])]
           u == CHOOSE h : Eq(h)
<1>1. N \in Nat
  BY DEF Octets
<1>2. start \in A /\ start.rest = buffer
  BY DEF Buffered
<1> HIDE DEF N, start, total
<1>3. \A st \in A : DrainDelimitedFrame(st) \in A
  BY DrainKeeps
<1>4. \A st \in A : st \in Buffered /\ AllClean(st.cuts) /\ Joined(st.cuts) \o st.rest = total
  OBVIOUS
<1> HIDE DEF A
<1>5. g \in [(1..N) \X A -> A]
  BY <1>3
<1>6. \A i \in 1..N : \A st \in A : g[<<i, st>>] = DrainDelimitedFrame(st)
  OBVIOUS
<1> HIDE DEF g
<1>7. PICK h \in [0..N -> A] : h[0] = start /\ \A i \in 1..N : h[i] = g[<<i, h[i - 1]>>]
  <2>1. PICK h : Solution(h, N, A, start, g)
    BY <1>1, <1>2, <1>5, Recursion, Zenon
  <2> QED BY <2>1 DEF Solution
<1>8. Eq(h)
  <2>1. ASSUME NEW n \in 0..N PROVE h[n] = IF n = 0 THEN start ELSE DrainDelimitedFrame(h[n - 1])
    <3>1. CASE n = 0
      BY <1>7, <3>1
    <3>2. CASE n # 0
      <4>1. n \in 1..N /\ n - 1 \in 0..N
        BY <1>1, <3>2
      <4>2. h[n - 1] \in A
        BY <4>1
      <4> QED BY <1>6, <1>7, <3>2, <4>1, <4>2
    <3> QED BY <3>1, <3>2
  <2> QED BY <2>1
<1>9. Eq(u)
  BY <1>8, Zenon
<1> HIDE DEF u
<1>10. u[0] = start /\ \A i \in 1..N : u[i] = DrainDelimitedFrame(u[i - 1])
  <2>1. \A n \in 0..N : u[n] = IF n = 0 THEN start ELSE DrainDelimitedFrame(u[n - 1])
    BY <1>9, Zenon
  <2>2. 0 \in 0..N /\ \A i \in 1..N : i \in 0..N /\ i # 0
    BY <1>1
  <2> QED BY <2>1, <2>2, Zenon
<1> DEFINE Fine(i) == /\ u[i] \in A /\ Len(u[i].rest) <= N
                      /\ Delimiters(u[i].rest) = {} \/ Len(u[i].rest) <= N - i
           S == {i \in 0..N : Fine(i)}
<1>11. 0 \in S
  BY <1>1, <1>2, <1>10 DEF N
<1>12. ASSUME NEW i \in 1..N, i - 1 \in S PROVE i \in S
  <2> DEFINE v == u[i - 1]
             w == DrainDelimitedFrame(v)
             x == Len(v.rest)
             y == Len(w.rest)
  <2>1. v \in A /\ x <= N /\ (Delimiters(v.rest) = {} \/ x <= N - (i - 1)) /\ u[i] = w
    BY <1>10, <1>12
  <2>2. w \in A
    BY <1>3, <2>1
  <2>3. v \in Buffered /\ AllClean(v.cuts) /\ w \in Buffered
    BY <1>4, <2>1, <2>2
  <2>4. x \in Nat /\ y \in Nat
    BY <2>3 DEF Buffered, Octets
  <2>5. /\ Delimiters(v.rest) = {} => w = v
        /\ Delimiters(v.rest) # {} => y < x
    BY <2>3, DrainKeeps
  <2>6. y <= N /\ (Delimiters(w.rest) = {} \/ y <= N - i)
    <3>1. CASE Delimiters(v.rest) = {}
      BY <2>1, <2>5, <3>1
    <3>2. CASE Delimiters(v.rest) # {}
      <4> HIDE DEF w, v, x, y
      <4> QED BY <1>1, <2>1, <2>4, <2>5, <3>2
    <3> QED BY <3>1, <3>2
  <2>7. Fine(i)
    BY <2>1, <2>2, <2>6
  <2>8. i \in 0..N
    BY <1>1
  <2> HIDE DEF Fine
  <2> QED BY <2>7, <2>8
<1>13. Fine(N)
  <2> HIDE DEF Fine
  <2>1. \A i \in 0..N : i \in S
    <3> HIDE DEF S
    <3> QED BY <1>1, <1>11, <1>12, StepByStep
  <2> QED BY <1>1, <2>1
<1> DEFINE e == u[N]
<1>14. e \in Buffered /\ AllClean(e.cuts) /\ Joined(e.cuts) \o e.rest = total
  BY <1>4, <1>13
<1>15. Delimiters(e.rest) = {} /\ Len(e.rest) <= N
  <2> DEFINE x == Len(e.rest)
  <2>1. e.rest \in Octets /\ x \in Nat
    BY <1>14 DEF Buffered, Octets
  <2>2. Delimiters(e.rest) \subseteq 1..x
    BY <2>1, DelimitersAreNumbers
  <2>3. x <= N /\ (Delimiters(e.rest) = {} \/ x <= N - N)
    BY <1>13
  <2> HIDE DEF x, e
  <2>4. Delimiters(e.rest) = {}
    BY <1>1, <2>1, <2>2, <2>3
  <2> QED BY <2>3, <2>4 DEF x
<1>16. u = CHOOSE w : w = [k \in 0..Len(buffer) |->
             IF k = 0 THEN [rest |-> buffer, cuts |-> cuts] ELSE DrainDelimitedFrame(w[k - 1])]
  BY DEF u, N, start
<1> QED BY <1>14, <1>15, <1>16 DEF N, total

\* A frame of the maximal length ends without a delimiter.
LEMMA CutLongKeeps ==
  ASSUME serial.delimiter \in Octets, serial.max \in Nat \ {0},
         NEW st \in Buffered, AllClean(st.cuts), Delimiters(st.rest) = {}
  PROVE  /\ CutLong(st) \in Buffered /\ AllClean(CutLong(st).cuts)
         /\ Joined(CutLong(st).cuts) \o CutLong(st).rest = Joined(st.cuts) \o st.rest
         /\ Delimiters(CutLong(st).rest) = {}
         /\ Len(st.rest) < serial.max + serial.max => Len(CutLong(st).rest) < serial.max
<1> DEFINE n == serial.max
           s == st.rest
           L == Len(s)
<1>1. s \in Octets /\ L \in Nat /\ n \in Nat
  BY DEF Buffered, Octets
<1>2. CASE L >= n
  <2>1. CutLong(st) = Cut(st, n, 0, "long")
    BY <1>2 DEF CutLong
  <2>2. n \in 0..L /\ 0 \in 0..(L - n) /\ n + 0 = n /\ n + 0 + 1 = n + 1
    <3> HIDE DEF n, L
    <3> QED BY <1>1, <1>2
  <2>3. SubSeq(s, n + 1, n + 0) = << >>
    <3>1. n + 1 \in Int /\ n + 0 \in Int /\ n + 0 < n + 1
      BY <1>1
    <3> QED BY <3>1, SubSeqEmpty
  <2>4. \A i \in Delimiters(s) : i > n - Len(serial.delimiter) + 1
    OBVIOUS
  <2> DEFINE r == Cut(st, n, 0, "long")
  <2>5. /\ r \in Buffered /\ Joined(r.cuts) \o r.rest = Joined(st.cuts) \o st.rest
        /\ AllClean(r.cuts) /\ Len(r.rest) = L - n - 0
    <3> DEFINE k == 0
               how == "long"
    <3>1. k \in 0..(L - n) /\ how \in {"line", "long"}
      BY <2>2
    <3>2. SubSeq(s, n + 1, n + k) = (IF how = "line" THEN serial.delimiter ELSE << >>)
      BY <2>3
    <3> HIDE DEF k, how
    <3>3. /\ Cut(st, n, k, how) \in Buffered
          /\ Joined(Cut(st, n, k, how).cuts) \o Cut(st, n, k, how).rest = Joined(st.cuts) \o st.rest
          /\ AllClean(Cut(st, n, k, how).cuts)
          /\ Len(Cut(st, n, k, how).rest) = Len(st.rest) - n - k
      BY <2>2, <2>4, <3>1, <3>2, CutKeeps, ZenonT(90)
    <3> QED BY <3>3 DEF k, how
  <2>6. r.rest = SubSeq(s, n + 0 + 1, L)
    BY DEF Cut
  <2>7. Delimiters(SubSeq(s, n + 1, L)) = {}
    BY <1>1, <2>2, SuffixIsClean
  <2>8. Delimiters(r.rest) = {}
    BY <2>2, <2>6, <2>7
  <2>9. L < n + n => L - n - 0 < n
    <3> HIDE DEF n, L
    <3> QED BY <1>1
  <2> HIDE DEF r
  <2> QED BY <2>1, <2>5, <2>8, <2>9 DEF r
<1>3. CASE ~(L >= n)
  <2>1. CutLong(st) = st
    BY <1>3 DEF CutLong
  <2> QED BY <1>1, <1>3, <2>1
<1> QED BY <1>2, <1>3

LEMMA TriggerReadsKeep ==
  ASSUME serial.delimiter \in Octets, serial.max \in Nat \ {0}, sbuf \in Octets, cuts \in Seq(Frame),
         AllClean(cuts), NEW chunk \in Octets
  PROVE  /\ TriggerReads(chunk) \in Buffered /\ AllClean(TriggerReads(chunk).cuts)
         /\ Joined(TriggerReads(chunk).cuts) \o TriggerReads(chunk).rest = Joined(cuts) \o (sbuf \o chunk)
         /\ Delimiters(TriggerReads(chunk).rest) = {}
         /\ Len(sbuf) < serial.max /\ Len(chunk) <= serial.max => Len(TriggerReads(chunk).rest) < serial.max
<1> DEFINE buffer == sbuf \o chunk
           drained == CHOOSE h : h = [k \in 0..Len(buffer) |->
             IF k = 0 THEN [rest |-> buffer, cuts |-> cuts] ELSE DrainDelimitedFrame(h[k - 1])]
           end == drained[Len(buffer)]
<1>1. TriggerReads(chunk) = CutLong(end)
  BY SMTT(60) DEF TriggerReads
<1>2. buffer \in Octets /\ Len(buffer) = Len(sbuf) + Len(chunk)
  BY Glued, SMTT(60)
<1> HIDE DEF buffer
<1>3. /\ end \in Buffered /\ AllClean(end.cuts)
      /\ Joined(end.cuts) \o end.rest = Joined(cuts) \o buffer
      /\ Delimiters(end.rest) = {} /\ Len(end.rest) <= Len(buffer)
  BY <1>2, DrainedKeeps
<1> HIDE DEF end
<1> DEFINE r == CutLong(end)
<1>4. /\ r \in Buffered /\ AllClean(r.cuts)
      /\ Joined(r.cuts) \o r.rest = Joined(end.cuts) \o end.rest
      /\ Delimiters(r.rest) = {}
      /\ Len(end.rest) < serial.max + serial.max => Len(r.rest) < serial.max
  BY <1>3, CutLongKeeps
<1> HIDE DEF r
<1>5. Len(sbuf) < serial.max /\ Len(chunk) <= serial.max => Len(end.rest) < serial.max + serial.max
  <2> DEFINE a == Len(sbuf)
             b == Len(chunk)
             c == Len(end.rest)
             n == serial.max
  <2>1. a \in Nat /\ b \in Nat /\ c \in Nat /\ c <= a + b /\ n \in Nat
    BY <1>2, <1>3 DEF Buffered, Octets
  <2> HIDE DEF a, b, c, n
  <2>2. a < n /\ b <= n => c < n + n
    BY <2>1
  <2> QED BY <2>2 DEF a, b, c, n
<1> QED BY <1>1, <1>3, <1>4, <1>5 DEF buffer, r

\* One more byte ends at most one delimiter, the last thing in the buffer.
LEMMA OneByteMore ==
  ASSUME serial.delimiter \in Octets, serial.delimiter # << >>, sbuf \in Octets, Delimiters(sbuf) = {},
         NEW chunk \in Octets, Len(chunk) = 1, NEW i \in Delimiters(sbuf \o chunk)
  PROVE  i = Len(sbuf \o chunk) - Len(serial.delimiter) + 1
<1> DEFINE b == sbuf \o chunk
           d == serial.delimiter
           m == Len(d)
           L == Len(b)
           n == Len(sbuf)
<1>1. n \in Nat /\ m \in Nat /\ m > 0 /\ b \in Octets /\ L = n + 1
  <2>1. b \in Octets /\ L = n + 1
    BY Glued
  <2>2. n \in Nat /\ m \in Nat /\ m > 0
    BY DEF Octets
  <2> QED BY <2>1, <2>2
<1>2. \A j \in 1..n : b[j] = sbuf[j]
  <2>1. \A j \in 1..(Len(sbuf) + Len(chunk)) : b[j] = IF j <= Len(sbuf) THEN sbuf[j] ELSE chunk[j - Len(sbuf)]
    BY ConcatProperties DEF Octets
  <2> HIDE DEF b
  <2>2. \A j \in 1..n : j \in 1..(n + Len(chunk)) /\ j <= n
    BY <1>1
  <2> QED BY <2>1, <2>2
<1> HIDE DEF b, m
<1>3. i \in 1..(L - m + 1) /\ \A k \in 1..m : b[i + k - 1] = d[k]
  <2>1. i \in Delimiters(b)
    BY DEF b
  <2> QED BY <1>1, <2>1, DelimiterIsMatch DEF m
<1> HIDE DEF L, n
<1>4. ASSUME i # L - m + 1 PROVE FALSE
  <2>1. i \in 1..(n - m + 1) /\ \A k \in 1..m : i + k - 1 \in 1..n
    BY <1>1, <1>3, <1>4
  <2>2. \A k \in 1..m : sbuf[i + k - 1] = d[k]
    BY <1>2, <1>3, <2>1
  <2>3. i \in Delimiters(sbuf)
    BY <2>1, <2>2, DelimiterIsMatch DEF m, n
  <2> QED BY <2>3
<1> QED BY <1>4 DEF L, b, m

LEMMA EventReadsKeep ==
  ASSUME serial.delimiter \in Octets, sbuf \in Octets, cuts \in Seq(Frame),
         AllClean(cuts), Delimiters(sbuf) = {}, NEW chunk \in Octets, Len(chunk) = 1
  PROVE  /\ EventReads(chunk) \in Buffered /\ AllClean(EventReads(chunk).cuts)
         /\ Joined(EventReads(chunk).cuts) \o EventReads(chunk).rest = Joined(cuts) \o (sbuf \o chunk)
         /\ Delimiters(EventReads(chunk).rest) = {}
<1> DEFINE b == sbuf \o chunk
           d == serial.delimiter
           m == Len(d)
           L == Len(b)
           last == L - m + 1
           st == [rest |-> b, cuts |-> cuts]
<1>1. b \in Octets /\ L \in Nat /\ m \in Nat
  BY Glued DEF Octets
<1>2. st \in Buffered /\ st.rest = b /\ st.cuts = cuts
  BY <1>1 DEF Buffered
<1>3. EventReads(chunk) = IF last \in Delimiters(b) THEN Cut(st, last - 1, m, "line") ELSE st
  BY DEF EventReads
<1> HIDE DEF st
<1>4. ASSUME NEW i \in Delimiters(b) PROVE i = last
  <2>1. d # << >>
    BY <1>4 DEF Delimiters
  <2> QED BY <2>1, OneByteMore
<1>5. CASE last \notin Delimiters(b)
  <2>1. Delimiters(b) = {}
    BY <1>4, <1>5
  <2> QED BY <1>2, <1>3, <1>5, <2>1
<1>6. CASE last \in Delimiters(b)
  <2>1. d # << >> /\ last \in 1..(L - m + 1) /\ SubSeq(b, last, last + m - 1) = d
    BY <1>6 DEF Delimiters
  <2>2. m > 0
    BY <2>1 DEF Octets
  <2> DEFINE n == L - m
             how == "line"
             r == Cut(st, n, m, how)
  <2> HIDE DEF b, L, m, d
  <2>3. n \in 0..L /\ m \in 0..(L - n) /\ n + 1 = last /\ n + m = last + m - 1 /\ last - 1 = n /\ n + m = L
    BY <1>1, <2>1, <2>2
  <2>4. SubSeq(b, n + 1, n + m) = (IF how = "line" THEN d ELSE << >>)
    BY <2>1, <2>3
  <2>5. \A i \in Delimiters(b) : i > n - m + 1
    BY <1>1, <1>4, <2>2
  <2>6. how \in {"line", "long"}
    OBVIOUS
  <2>7. EventReads(chunk) = r
    BY <1>3, <1>6, <2>3
  <2> HIDE DEF n, how
  <2>8. /\ r \in Buffered /\ Joined(r.cuts) \o r.rest = Joined(st.cuts) \o st.rest
        /\ AllClean(r.cuts) /\ Len(r.rest) = L - n - m
    <3>1. n \in 0..Len(st.rest) /\ m \in 0..(Len(st.rest) - n)
      BY <1>2, <2>3 DEF L
    <3>2. SubSeq(st.rest, n + 1, n + m) = (IF how = "line" THEN serial.delimiter ELSE << >>)
      BY <1>2, <2>4 DEF d
    <3>3. \A i \in Delimiters(st.rest) : i > n - Len(serial.delimiter) + 1
      BY <1>2, <2>5 DEF m, d
    <3>4. AllClean(st.cuts)
      BY <1>2
    <3>5. /\ Cut(st, n, m, how) \in Buffered
          /\ Joined(Cut(st, n, m, how).cuts) \o Cut(st, n, m, how).rest = Joined(st.cuts) \o st.rest
          /\ AllClean(Cut(st, n, m, how).cuts)
          /\ Len(Cut(st, n, m, how).rest) = Len(st.rest) - n - m
      BY <1>2, <2>6, <3>1, <3>2, <3>3, <3>4, CutKeeps
    <3> QED BY <1>2, <3>5 DEF L
  <2> HIDE DEF r
  <2>9. Delimiters(r.rest) = {}
    <3> DEFINE x == Len(r.rest)
    <3>1. r.rest \in Octets /\ x = L - n - m
      BY <2>8 DEF Buffered
    <3>2. Delimiters(r.rest) \subseteq 1..x
      BY <3>1, DelimitersAreNumbers
    <3> HIDE DEF x
    <3>3. x = 0
      BY <1>1, <2>3, <3>1
    <3> QED BY <3>2, <3>3
  <2> QED BY <1>2, <2>7, <2>8, <2>9 DEF b
<1> QED BY <1>5, <1>6

(* The invariant. *)
SerialTypes ==
  /\ serial.mode \in {"trigger", "event"} /\ serial.delimiter \in Octets /\ serial.max \in Nat \ {0}
  /\ sbuf \in Octets /\ received \in Octets /\ cuts \in Seq(Frame)

\* The frames of a trigger stay the bytes received until it is cancelled, those
\* of an event listener as long as its port is open.
Accountable ==
  sphase \in {"open", "reading", "broken"} \/ (serial.mode = "trigger" /\ sphase # "over")

LateOnce == late = 0 \/ (late = 1 /\ scancelled /\ sphase # "reading")

SerialInv ==
  /\ SerialTypes
  /\ Delimiters(sbuf) = {} /\ AllClean(cuts)
  /\ Accountable => Joined(cuts) \o sbuf = received
  /\ BufferBounded
  /\ LateOnce

\* The operators read the configuration, which stays.
LEMMA JoinedNext == ASSUME serial' = serial, NEW c, cuts' = c PROVE Joined(cuts)' = Joined(c)
  BY DEF Joined, Piece
LEMMA DelimitersNext == ASSUME serial' = serial, NEW s, sbuf' = s PROVE Delimiters(sbuf)' = Delimiters(s)
  BY DEF Delimiters
LEMMA CleanNext == ASSUME serial' = serial, NEW c, cuts' = c PROVE AllClean(cuts)' <=> AllClean(c)
  BY DEF AllClean, Delimiters

\* What a step has to show.
LEMMA SerialKept ==
  ASSUME SerialInv, serial' = serial, NEW s \in Octets, NEW c \in Seq(Frame), NEW r \in Octets,
         sbuf' = s, cuts' = c, received' = r, Delimiters(s) = {}, AllClean(c),
         Accountable' => Joined(c) \o s = r,
         (serial.mode = "trigger" /\ \A chunk \in SerialChunks : Len(chunk) <= serial.max) => Len(s) < serial.max,
         LateOnce'
  PROVE  SerialInv'
<1>1. SerialTypes'
  BY DEF SerialInv, SerialTypes
<1>2. Delimiters(sbuf)' = {} /\ AllClean(cuts)'
  BY DelimitersNext, CleanNext
<1>3. Joined(cuts)' = Joined(c)
  BY JoinedNext
<1>4. (Accountable => Joined(cuts) \o sbuf = received)'
  BY <1>3
<1>5. BufferBounded'
  BY DEF BufferBounded
<1> QED BY <1>1, <1>2, <1>4, <1>5 DEF SerialInv

\* The configured delimiter is decoded to bytes.
LEMMA DecodedIsBytes ==
  ASSUME NEW typed \in Octets PROVE DecodeSerialDelimiter(typed) \in Octets
<1> DEFINE N == Len(typed)
           A == [after : {"plain", "backslash"}, bytes : Octets]
           start == [after |-> "plain", bytes |-> << >>]
           g == [p \in (1..N) \X A |-> ReadEscape(p[2], typed[p[1]])]
           Eq(h) == h = [i \in 0..N |-> IF i = 0 THEN start ELSE ReadEscape(h[i - 1], typed[i])]
           u == CHOOSE h : Eq(h)
<1>1. N \in Nat /\ \A i \in 1..N : typed[i] \in Nat
  BY DEF Octets
<1>2. start \in A
  BY DEF Octets
<1> HIDE DEF N
<1>3. \A st \in A, ch \in Nat : ReadEscape(st, ch) \in A
  <2> SUFFICES ASSUME NEW st \in A, NEW ch \in Nat PROVE ReadEscape(st, ch) \in A
    OBVIOUS
  <2>1. Escaped(ch) \in Nat /\ Backslash \in Nat
    BY DEF Escaped, Backslash
  <2>2. \A n \in Nat : Append(st.bytes, n) \in Octets
    BY DEF Octets
  <2>3. CASE st.after = "backslash"
    BY <2>1, <2>2, <2>3 DEF ReadEscape
  <2>4. CASE st.after = "plain" /\ ch = Backslash
    BY <2>4 DEF ReadEscape
  <2>5. CASE st.after = "plain" /\ ch # Backslash
    BY <2>2, <2>5 DEF ReadEscape
  <2> QED BY <2>3, <2>4, <2>5
<1>4. \A st \in A : st.bytes \in Octets
  OBVIOUS
<1> HIDE DEF A, start
<1>5. g \in [(1..N) \X A -> A]
  BY <1>1, <1>3
<1>6. \A i \in 1..N : \A st \in A : g[<<i, st>>] = ReadEscape(st, typed[i])
  OBVIOUS
<1> HIDE DEF g
<1>7. PICK h \in [0..N -> A] : h[0] = start /\ \A i \in 1..N : h[i] = g[<<i, h[i - 1]>>]
  <2>1. PICK h : Solution(h, N, A, start, g)
    BY <1>1, <1>2, <1>5, Recursion, Zenon
  <2> QED BY <2>1 DEF Solution
<1>8. Eq(h)
  <2>1. ASSUME NEW n \in 0..N PROVE h[n] = IF n = 0 THEN start ELSE ReadEscape(h[n - 1], typed[n])
    <3>1. CASE n = 0
      BY <1>7, <3>1
    <3>2. CASE n # 0
      <4>1. n \in 1..N /\ n - 1 \in 0..N
        BY <1>1, <3>2
      <4>2. h[n - 1] \in A
        BY <4>1
      <4> QED BY <1>6, <1>7, <3>2, <4>1, <4>2
    <3> QED BY <3>1, <3>2
  <2> QED BY <2>1
<1>9. Eq(u)
  BY <1>8, Zenon
<1> HIDE DEF u
<1>10. u[0] = start /\ \A i \in 1..N : u[i] = ReadEscape(u[i - 1], typed[i])
  <2>1. \A n \in 0..N : u[n] = IF n = 0 THEN start ELSE ReadEscape(u[n - 1], typed[n])
    BY <1>9, Zenon
  <2>2. 0 \in 0..N /\ \A i \in 1..N : i \in 0..N /\ i # 0
    BY <1>1
  <2> QED BY <2>1, <2>2, Zenon
<1> DEFINE S == {i \in 0..N : u[i] \in A}
<1>11. 0 \in S
  BY <1>1, <1>2, <1>10
<1>12. ASSUME NEW i \in 1..N, i - 1 \in S PROVE i \in S
  <2>1. u[i - 1] \in A /\ i \in 0..N /\ typed[i] \in Nat
    BY <1>1, <1>12
  <2>2. ReadEscape(u[i - 1], typed[i]) \in A
    BY <1>3, <2>1
  <2> QED BY <1>10, <2>1, <2>2
<1> HIDE DEF S
<1>13. N \in S
  <2>1. \A i \in 0..N : i \in S
    BY <1>1, <1>11, <1>12, StepByStep
  <2> QED BY <1>1, <2>1
<1>14. u[N].bytes \in Octets
  BY <1>4, <1>13 DEF S
<1>15. Append(u[N].bytes, Backslash) \in Octets
  BY <1>14 DEF Backslash, Octets
<1>16. u = CHOOSE w : w = [i \in 0..Len(typed) |->
         IF i = 0 THEN [after |-> "plain", bytes |-> << >>] ELSE ReadEscape(w[i - 1], typed[i])]
  BY DEF u, N, start
<1>17. DecodeSerialDelimiter(typed)
         = IF u[N].after = "backslash" THEN Append(u[N].bytes, Backslash) ELSE u[N].bytes
  BY <1>16 DEF DecodeSerialDelimiter, N
<1> QED BY <1>14, <1>15, <1>17

LEMMA SerialStarts == SerialInit => SerialInv
<1> SUFFICES ASSUME SerialInit PROVE SerialInv
  OBVIOUS
<1>1. PICK c \in SerialConfigs : serial = Decoded(c)
  BY DEF SerialInit
<1>2. /\ c = [mode |-> c.mode, bound |-> c.bound, kind |-> c.kind, complete |-> c.complete,
              delimiter |-> c.delimiter, max |-> c.max]
      /\ c.mode \in {"trigger", "event"} /\ c.delimiter \in Octets /\ c.max \in Nat \ {0}
  BY SerialAssumption DEF Octets
<1>3. DecodeSerialDelimiter(c.delimiter) \in Octets
  BY <1>2, DecodedIsBytes
<1>4. ParseDelimiter(c.delimiter) \in Octets
  <2>1. <<10>> \in Octets /\ <<13, 10>> \in Octets
    BY DEF Octets
  <2> DEFINE a == c.delimiter = <<92, 110>>
             b == c.delimiter = <<92, 114, 92, 110>>
  <2>2. ~(a /\ b)
    OBVIOUS
  <2>3. CASE a
    BY <2>1, <2>2, <2>3 DEF ParseDelimiter
  <2>4. CASE b
    BY <2>1, <2>2, <2>4 DEF ParseDelimiter
  <2>5. CASE ~a /\ ~b
    BY <1>2, <2>5 DEF ParseDelimiter
  <2> QED BY <2>3, <2>4, <2>5
<1>5. serial.mode \in {"trigger", "event"} /\ serial.delimiter \in Octets /\ serial.max \in Nat \ {0}
  <2> DEFINE d == IF c.mode = "trigger" THEN DecodeSerialDelimiter(c.delimiter) ELSE ParseDelimiter(c.delimiter)
  <2>1. d \in Octets
    BY <1>3, <1>4
  <2>2. serial = [c EXCEPT !.delimiter = d]
    BY <1>1 DEF Decoded
  <2> HIDE DEF d
  <2>3. serial.mode = c.mode /\ serial.delimiter = d /\ serial.max = c.max
    BY <1>2, <2>2
  <2> QED BY <1>2, <2>1, <2>3
<1>6. << >> \in Octets /\ << >> \in Seq(Frame) /\ Len(<< >>) = 0 /\ << >> \o << >> = << >>
  BY ConcatEmptySeq DEF Octets
<1>7. SerialTypes
  BY <1>5, <1>6 DEF SerialInit, SerialTypes
<1>8. Delimiters(sbuf) = {} /\ AllClean(cuts)
  BY <1>5, EmptyIsClean DEF SerialInit, AllClean
<1>9. Joined(cuts) \o sbuf = received
  BY <1>6, JoinedEmpty DEF SerialInit
<1>10. BufferBounded
  BY <1>5, <1>6 DEF SerialInit, BufferBounded
<1> QED BY <1>7, <1>8, <1>9, <1>10 DEF SerialInv, SerialInit, LateOnce

\* Steps that read nothing and cut nothing.
LEMMA SerialQuiet ==
  ASSUME SerialInv, serial' = serial, sbuf' = sbuf, cuts' = cuts, received' = received,
         Accountable' => Accountable, LateOnce'
  PROVE  SerialInv'
<1>1. sbuf \in Octets /\ cuts \in Seq(Frame) /\ received \in Octets
  BY DEF SerialInv, SerialTypes
<1>2. Delimiters(sbuf) = {} /\ AllClean(cuts) /\ (Accountable => Joined(cuts) \o sbuf = received) /\ BufferBounded
  BY DEF SerialInv
<1>3. Accountable' => Joined(cuts) \o sbuf = received
  BY <1>2
<1>4. (serial.mode = "trigger" /\ \A chunk \in SerialChunks : Len(chunk) <= serial.max) => Len(sbuf) < serial.max
  BY <1>2 DEF BufferBounded
<1> QED BY <1>1, <1>2, <1>3, <1>4, SerialKept

LEMMA QuietKeeps ==
  ASSUME SerialInv,
         \/ DeployTrigger \/ DeployEventListener \/ GiveUp \/ AcquireFails \/ OpenFails \/ MetadataFails
         \/ SleepEnds \/ CheckToken \/ ReadFails \/ CancelSerial
  PROVE  SerialInv'
<1>1. serial' = serial /\ sbuf' = sbuf /\ cuts' = cuts /\ received' = received /\ late' = late
  BY DEF DeployTrigger, DeployEventListener, GiveUp, AcquireFails, OpenFails, MetadataFails, SleepEnds,
         CheckToken, ReadFails, CancelSerial
<1>2. Accountable' => Accountable
  BY <1>1 DEF Accountable, DeployTrigger, DeployEventListener, GiveUp, AcquireFails, OpenFails,
              MetadataFails, SleepEnds, CheckToken, ReadFails, CancelSerial
<1>3. LateOnce'
  BY <1>1 DEF SerialInv, LateOnce, DeployTrigger, DeployEventListener, GiveUp, AcquireFails, OpenFails,
              MetadataFails, SleepEnds, CheckToken, ReadFails, CancelSerial
<1> QED BY <1>1, <1>2, <1>3, SerialQuiet

LEMMA OpenKeeps == SerialInv /\ OpenPort => SerialInv'
<1> SUFFICES ASSUME SerialInv, OpenPort PROVE SerialInv'
  OBVIOUS
<1>1. << >> \in Octets /\ << >> \in Seq(Frame) /\ Len(<< >>) = 0 /\ << >> \o << >> = << >>
  BY ConcatEmptySeq DEF Octets
<1>2. serial.delimiter \in Octets /\ serial.max \in Nat \ {0}
  BY DEF SerialInv, SerialTypes
<1>3. Delimiters(<< >>) = {} /\ AllClean(<< >>) /\ Joined(<< >>) \o << >> = << >>
  BY <1>1, <1>2, EmptyIsClean, JoinedEmpty DEF AllClean
<1>4. serial' = serial /\ sbuf' = << >> /\ cuts' = << >> /\ received' = << >> /\ LateOnce'
  BY DEF OpenPort, LateOnce, SerialInv
<1>5. Len(<< >>) < serial.max
  BY <1>1, <1>2
<1> QED BY <1>1, <1>3, <1>4, <1>5, SerialKept

LEMMA ReadKeeps ==
  ASSUME SerialInv, NEW chunk \in SerialChunks, ReadBytes(chunk)
  PROVE  SerialInv'
<1> DEFINE st == IF serial.mode = "trigger" THEN TriggerReads(chunk) ELSE EventReads(chunk)
<1>1. /\ sphase = "reading" /\ sphase' = "open" /\ serial' = serial /\ scancelled' = scancelled
      /\ (serial.mode = "event" => Len(chunk) = 1)
      /\ sbuf' = st.rest /\ cuts' = st.cuts /\ received' = received \o chunk /\ late' = LateReads
  BY DEF ReadBytes
<1>2. chunk \in Octets
  BY SerialAssumption DEF Octets
<1>3. /\ serial.mode \in {"trigger", "event"} /\ serial.delimiter \in Octets /\ serial.max \in Nat \ {0}
      /\ sbuf \in Octets /\ received \in Octets /\ cuts \in Seq(Frame)
      /\ Delimiters(sbuf) = {} /\ AllClean(cuts) /\ BufferBounded
  BY DEF SerialInv, SerialTypes
<1>4. Joined(cuts) \o sbuf = received
  BY <1>1 DEF SerialInv, Accountable
<1>5. /\ st \in Buffered /\ AllClean(st.cuts) /\ Delimiters(st.rest) = {}
      /\ Joined(st.cuts) \o st.rest = Joined(cuts) \o (sbuf \o chunk)
      /\ serial.mode = "trigger" /\ Len(sbuf) < serial.max /\ Len(chunk) <= serial.max
           => Len(st.rest) < serial.max
  <2>1. CASE serial.mode = "trigger"
    <3> DEFINE r == TriggerReads(chunk)
    <3>1. /\ r \in Buffered /\ AllClean(r.cuts)
          /\ Joined(r.cuts) \o r.rest = Joined(cuts) \o (sbuf \o chunk)
          /\ Delimiters(r.rest) = {}
          /\ Len(sbuf) < serial.max /\ Len(chunk) <= serial.max => Len(r.rest) < serial.max
      BY <1>2, <1>3, TriggerReadsKeep
    <3>2. st = r
      BY <2>1
    <3> HIDE DEF r, st
    <3> QED BY <3>1, <3>2
  <2>2. CASE serial.mode = "event"
    <3> DEFINE r == EventReads(chunk)
    <3>1. /\ r \in Buffered /\ AllClean(r.cuts)
          /\ Joined(r.cuts) \o r.rest = Joined(cuts) \o (sbuf \o chunk)
          /\ Delimiters(r.rest) = {}
      BY <1>1, <1>2, <1>3, <2>2, EventReadsKeep
    <3>2. st = r
      BY <2>2
    <3> HIDE DEF r, st
    <3> QED BY <2>2, <3>1, <3>2
  <2> QED BY <1>3, <2>1, <2>2
<1> HIDE DEF st
<1>6. st.rest \in Octets /\ st.cuts \in Seq(Frame)
  BY <1>5 DEF Buffered
<1>7. received \o chunk \in Octets
  BY <1>2, <1>3, Glued
<1>8. Joined(st.cuts) \o st.rest = received \o chunk
  <2>1. Joined(cuts) \in Octets
    <3>1. [data |-> << >>, how |-> "line"] \in Frame
      BY DEF Frame, Octets
    <3> QED BY <1>3, <3>1, JoinedAppend
  <2>2. Joined(cuts) \o (sbuf \o chunk) = (Joined(cuts) \o sbuf) \o chunk
    BY <1>2, <1>3, <2>1, Associated
  <2> QED BY <1>4, <1>5, <2>2, Zenon
<1>9. (serial.mode = "trigger" /\ \A c \in SerialChunks : Len(c) <= serial.max) => Len(st.rest) < serial.max
  BY <1>3, <1>5 DEF BufferBounded
<1>10. LateOnce'
  BY <1>1 DEF SerialInv, LateOnce, LateReads
<1> QED BY <1>1, <1>5, <1>6, <1>7, <1>8, <1>9, <1>10, SerialKept

\* What is in the buffer becomes a frame as it is.
LEMMA LastCutKeeps ==
  ASSUME serial.delimiter \in Octets, NEW c \in Seq(Frame), NEW s \in Octets, NEW how \in {"idle", "rest"},
         AllClean(c), Delimiters(s) = {}
  PROVE  LET a == Append(c, [data |-> s, how |-> how])
         IN  a \in Seq(Frame) /\ AllClean(a) /\ Joined(a) \o << >> = Joined(c) \o s
<1> DEFINE f == [data |-> s, how |-> how]
           a == Append(c, f)
<1>1. f \in Frame /\ f.data = s /\ f.how # "line"
  BY DEF Frame
<1>2. Piece(f) = s
  <2>1. s \o << >> = s
    BY ConcatEmptySeq DEF Octets
  <2> QED BY <1>1, <2>1 DEF Piece
<1> HIDE DEF f
<1>3. a \in Seq(Frame) /\ AllClean(a)
  BY <1>1, CleanAppend
<1>4. Joined(c) \in Octets /\ Joined(a) = Joined(c) \o s
  BY <1>1, <1>2, JoinedAppend
<1>5. Joined(c) \o s \in Octets
  BY <1>4, Glued
<1> HIDE DEF a
<1>6. Joined(a) \o << >> = Joined(a)
  BY <1>4, <1>5, ConcatEmptySeq DEF Octets
<1> QED BY <1>3, <1>4, <1>6 DEF a, f

LEMMA TimeOutKeeps == SerialInv /\ ReadTimesOut => SerialInv'
<1> SUFFICES ASSUME SerialInv, ReadTimesOut PROVE SerialInv'
  OBVIOUS
<1>1. /\ sphase = "reading" /\ sphase' = "open" /\ serial' = serial /\ scancelled' = scancelled
      /\ received' = received /\ late' = LateReads
  BY DEF ReadTimesOut
<1>2. LateOnce'
  BY <1>1 DEF SerialInv, LateOnce, LateReads
<1>3. CASE UNCHANGED <<sbuf, cuts>>
  <2>1. Accountable
    BY <1>1 DEF Accountable
  <2> QED BY <1>1, <1>2, <1>3, <2>1, SerialQuiet
<1>4. CASE FlushIdle
  <2> DEFINE c == Append(cuts, [data |-> sbuf, how |-> "idle"])
  <2>1. cuts' = c /\ sbuf' = << >>
    BY <1>4 DEF FlushIdle
  <2>2. /\ serial.delimiter \in Octets /\ serial.max \in Nat \ {0} /\ sbuf \in Octets /\ received \in Octets
        /\ cuts \in Seq(Frame) /\ AllClean(cuts) /\ Delimiters(sbuf) = {}
    BY DEF SerialInv, SerialTypes
  <2>3. Joined(cuts) \o sbuf = received
    BY <1>1 DEF SerialInv, Accountable
  <2>4. c \in Seq(Frame) /\ AllClean(c) /\ Joined(c) \o << >> = Joined(cuts) \o sbuf
    BY <2>2, LastCutKeeps
  <2> HIDE DEF c
  <2>5. << >> \in Octets /\ Len(<< >>) < serial.max /\ Delimiters(<< >>) = {}
    BY <2>2, EmptyIsClean DEF Octets
  <2> QED BY <1>1, <1>2, <2>1, <2>2, <2>3, <2>4, <2>5, SerialKept
<1> QED BY <1>3, <1>4 DEF ReadTimesOut

LEMMA CloseKeeps == SerialInv /\ (CloseBroken \/ CloseCancelled) => SerialInv'
<1> SUFFICES ASSUME SerialInv, CloseBroken \/ CloseCancelled PROVE SerialInv'
  OBVIOUS
<1>1. /\ serial.mode \in {"trigger", "event"} /\ serial.delimiter \in Octets /\ serial.max \in Nat \ {0}
      /\ sbuf \in Octets /\ received \in Octets
      /\ cuts \in Seq(Frame) /\ AllClean(cuts) /\ Delimiters(sbuf) = {}
  BY DEF SerialInv, SerialTypes
<1>2. << >> \in Octets /\ Len(<< >>) < serial.max /\ Delimiters(<< >>) = {}
  BY <1>1, EmptyIsClean DEF Octets
<1>3. CASE CloseBroken
  <2>1. /\ sphase = "broken" /\ sphase' = "retry" /\ serial' = serial /\ cuts' = LastFrame
        /\ sbuf' = << >> /\ received' = received /\ LateOnce'
    BY <1>3 DEF CloseBroken, SerialInv, LateOnce
  <2>2. CASE serial.mode = "trigger"
    <3>1. Joined(cuts) \o sbuf = received
      BY <2>1 DEF SerialInv, Accountable
    <3>2. CASE sbuf = << >>
      <4>1. LastFrame = cuts
        BY <3>2 DEF LastFrame
      <4>2. Joined(cuts) \o << >> = received
        BY <3>1, <3>2
      <4> QED BY <1>1, <1>2, <2>1, <4>1, <4>2, SerialKept
    <3>3. CASE sbuf # << >>
      <4> DEFINE c == Append(cuts, [data |-> sbuf, how |-> "rest"])
      <4>1. LastFrame = c
        BY <2>2, <3>3 DEF LastFrame
      <4>2. c \in Seq(Frame) /\ AllClean(c) /\ Joined(c) \o << >> = Joined(cuts) \o sbuf
        BY <1>1, LastCutKeeps
      <4> HIDE DEF c
      <4> QED BY <1>1, <1>2, <2>1, <3>1, <4>1, <4>2, SerialKept
    <3> QED BY <3>2, <3>3
  <2>3. CASE serial.mode = "event"
    <3>1. LastFrame = cuts /\ ~Accountable'
      BY <2>1, <2>3 DEF LastFrame, Accountable
    <3> QED BY <1>1, <1>2, <2>1, <3>1, SerialKept
  <2> QED BY <1>1, <2>2, <2>3
<1>4. CASE CloseCancelled
  <2>1. /\ serial' = serial /\ sphase' = "over" /\ sbuf' = << >> /\ cuts' = cuts /\ received' = received
        /\ LateOnce'
    BY <1>4 DEF CloseCancelled, SerialInv, LateOnce
  <2>2. ~Accountable'
    BY <2>1 DEF Accountable
  <2> QED BY <1>1, <1>2, <2>1, <2>2, SerialKept
<1> QED BY <1>3, <1>4

\* Serial frames are the received bytes, cut as configured (serial_trigger).
THEOREM SerialIsSound == SerialSpec => []SerialSound
<1>1. SerialInv /\ [SerialNext]_serialVars => SerialInv'
  <2> SUFFICES ASSUME SerialInv, [SerialNext]_serialVars PROVE SerialInv'
    OBVIOUS
  <2>1. CASE \/ DeployTrigger \/ DeployEventListener \/ GiveUp \/ AcquireFails \/ OpenFails \/ MetadataFails
             \/ SleepEnds \/ CheckToken \/ ReadFails \/ CancelSerial
    BY <2>1, QuietKeeps
  <2>2. CASE OpenPort
    BY <2>2, OpenKeeps
  <2>3. ASSUME NEW chunk \in SerialChunks, ReadBytes(chunk) PROVE SerialInv'
    BY <2>3, ReadKeeps
  <2>4. CASE ReadTimesOut
    BY <2>4, TimeOutKeeps
  <2>5. CASE CloseBroken \/ CloseCancelled
    BY <2>5, CloseKeeps
  <2>6. CASE UNCHANGED serialVars
    <3>1. serial' = serial /\ sbuf' = sbuf /\ cuts' = cuts /\ received' = received
      BY <2>6 DEF serialVars
    <3>2. (Accountable' => Accountable) /\ LateOnce'
      BY <2>6 DEF serialVars, Accountable, LateOnce, SerialInv
    <3> QED BY <3>1, <3>2, SerialQuiet
  <2> QED BY <2>1, <2>2, <2>3, <2>4, <2>5, <2>6 DEF SerialNext, SerialStep, ReadEnds
<1>2. SerialInv => SerialSound
  <2> SUFFICES ASSUME SerialInv PROVE SerialSound
    OBVIOUS
  <2>1. FramesAreTheBytes
    BY DEF SerialInv, Accountable, FramesAreTheBytes
  <2>2. FramesAreWholeLines
    BY DEF SerialInv, AllClean, FramesAreWholeLines, Submitted
  <2>3. BufferBounded
    BY DEF SerialInv
  <2>4. OneLateRead
    BY DEF SerialInv, LateOnce, OneLateRead
  <2> QED BY <2>1, <2>2, <2>3, <2>4 DEF SerialSound
<1> QED BY <1>1, <1>2, SerialStarts, PTL DEF SerialSpec

(***************************************************************************)
(* Device signals (SignalListener).                                        *)
(***************************************************************************)
\* The chosen elements, place by place.
Choosing(f, A, s, good) ==
  /\ f \in [0..Len(s) -> Seq(A)] /\ f[0] = << >>
  /\ \A i \in 1..Len(s) : f[i] = IF i \in good THEN Append(f[i - 1], s[i]) ELSE f[i - 1]
  /\ Chosen(s, good) = f[Len(s)]

LEMMA ChosenPrefixes ==
  ASSUME NEW A, NEW s \in Seq(A), NEW good
  PROVE  \E f : Choosing(f, A, s, good)
<1> DEFINE N == Len(s)
           Next(i, t) == IF i \in good THEN Append(t, s[i]) ELSE t
           g == [p \in (1..N) \X Seq(A) |-> Next(p[1], p[2])]
           Eq(h) == h = [k \in 0..N |->
                      IF k = 0 THEN << >> ELSE IF k \in good THEN Append(h[k - 1], s[k]) ELSE h[k - 1]]
           u == CHOOSE h : Eq(h)
<1>1. N \in Nat /\ \A i \in 1..N : s[i] \in A
  OBVIOUS
<1>2. << >> \in Seq(A)
  OBVIOUS
<1> HIDE DEF N
<1>3. \A i \in 1..N : \A t \in Seq(A) : Next(i, t) \in Seq(A)
  <2> SUFFICES ASSUME NEW i \in 1..N, NEW t \in Seq(A) PROVE Next(i, t) \in Seq(A)
    OBVIOUS
  <2>1. Append(t, s[i]) \in Seq(A)
    BY <1>1
  <2> QED BY <2>1
<1> HIDE DEF Next
<1>4. g \in [(1..N) \X Seq(A) -> Seq(A)]
  BY <1>3
<1>5. \A i \in 1..N : \A t \in Seq(A) : g[<<i, t>>] = Next(i, t)
  OBVIOUS
<1> HIDE DEF g
<1>6. PICK h \in [0..N -> Seq(A)] : h[0] = << >> /\ \A i \in 1..N : h[i] = g[<<i, h[i - 1]>>]
  <2>1. PICK h : Solution(h, N, Seq(A), << >>, g)
    BY <1>1, <1>2, <1>4, Recursion, Zenon
  <2> QED BY <2>1 DEF Solution
<1>7. Eq(h)
  <2>1. ASSUME NEW k \in 0..N
        PROVE  h[k] = IF k = 0 THEN << >> ELSE IF k \in good THEN Append(h[k - 1], s[k]) ELSE h[k - 1]
    <3>1. CASE k = 0
      BY <1>6, <3>1
    <3>2. CASE k # 0
      <4>1. k \in 1..N /\ k - 1 \in 0..N
        BY <1>1, <3>2
      <4>2. h[k - 1] \in Seq(A)
        BY <4>1
      <4>3. h[k] = Next(k, h[k - 1])
        BY <1>5, <1>6, <4>1, <4>2
      <4> QED BY <3>2, <4>3 DEF Next
    <3> QED BY <3>1, <3>2
  <2> QED BY <2>1
<1>8. Eq(u)
  BY <1>7, Zenon
<1> HIDE DEF u
<1>9. u[0] = << >> /\ \A i \in 1..N : u[i] = IF i \in good THEN Append(u[i - 1], s[i]) ELSE u[i - 1]
  <2>1. \A k \in 0..N :
          u[k] = IF k = 0 THEN << >> ELSE IF k \in good THEN Append(u[k - 1], s[k]) ELSE u[k - 1]
    BY <1>8, Zenon
  <2>2. 0 \in 0..N /\ \A i \in 1..N : i \in 0..N /\ i # 0
    BY <1>1
  <2> QED BY <2>1, <2>2, Zenon
<1>10. \A i \in 0..N : u[i] \in Seq(A)
  <2> DEFINE S == {i \in 0..N : u[i] \in Seq(A)}
  <2>1. 0 \in S
    <3>1. 0 \in 0..N
      BY <1>1
    <3> QED BY <1>2, <1>9, <3>1, Zenon
  <2>2. ASSUME NEW i \in 1..N, i - 1 \in S PROVE i \in S
    <3>1. u[i - 1] \in Seq(A) /\ i \in 0..N
      BY <1>1, <2>2
    <3>2. Append(u[i - 1], s[i]) \in Seq(A)
      BY <1>1, <3>1
    <3> QED BY <1>9, <3>1, <3>2
  <2>3. \A i \in 0..N : i \in S
    <3> HIDE DEF S
    <3> QED BY <1>1, <2>1, <2>2, StepByStep
  <2> QED BY <2>3
<1>11. u \in [0..N -> Seq(A)]
  BY <1>8, <1>10
<1>12. Chosen(s, good) = u[N]
  BY DEF Chosen, u, N
<1>13. Choosing(u, A, s, good)
  BY <1>9, <1>11, <1>12 DEF N, Choosing
<1> QED BY <1>13

\* One more element is chosen or left out.
LEMMA ChosenAppend ==
  ASSUME NEW A, NEW s \in Seq(A), NEW x \in A, NEW good, NEW more,
         \A i \in 1..Len(s) : i \in good <=> i \in more
  PROVE  /\ Chosen(s, good) \in Seq(A)
         /\ Len(s) + 1 \in more => Chosen(Append(s, x), more) = Append(Chosen(s, good), x)
         /\ Len(s) + 1 \notin more => Chosen(Append(s, x), more) = Chosen(s, good)
<1> DEFINE N == Len(s)
           t == Append(s, x)
<1>1. N \in Nat /\ t \in Seq(A) /\ Len(t) = N + 1 /\ t[N + 1] = x
  OBVIOUS
<1>2. \A i \in 1..N : t[i] = s[i]
  OBVIOUS
<1>0. \A i \in 1..N : i \in good <=> i \in more
  OBVIOUS
<1>3. PICK f : Choosing(f, A, s, good)
  BY ChosenPrefixes
<1> HIDE DEF t
<1>4. PICK k : Choosing(k, A, t, more)
  BY <1>1, ChosenPrefixes, Zenon
<1>9. /\ f \in [0..N -> Seq(A)] /\ f[0] = << >>
      /\ \A i \in 1..N : f[i] = IF i \in good THEN Append(f[i - 1], s[i]) ELSE f[i - 1]
      /\ Chosen(s, good) = f[N]
  BY <1>3 DEF Choosing
<1>10. /\ k \in [0..Len(t) -> Seq(A)] /\ k[0] = << >>
       /\ \A i \in 1..Len(t) : k[i] = IF i \in more THEN Append(k[i - 1], t[i]) ELSE k[i - 1]
       /\ Chosen(t, more) = k[Len(t)]
  BY <1>4 DEF Choosing
<1> HIDE DEF N
<1>5. k[N] = f[N]
  <2> DEFINE S == {i \in 0..N : k[i] = f[i]}
  <2>1. 0 \in S
    BY <1>1, <1>9, <1>10
  <2>2. ASSUME NEW i \in 1..N, i - 1 \in S PROVE i \in S
    <3>1. i \in 1..Len(t) /\ t[i] = s[i] /\ i \in 0..N
      BY <1>1, <1>2
    <3>2. /\ k[i] = IF i \in more THEN Append(k[i - 1], s[i]) ELSE k[i - 1]
          /\ f[i] = IF i \in good THEN Append(f[i - 1], s[i]) ELSE f[i - 1]
      BY <1>9, <1>10, <3>1
    <3>3. k[i - 1] = f[i - 1]
      BY <2>2
    <3> QED BY <1>0, <3>1, <3>2, <3>3
  <2> HIDE DEF S
  <2>3. N \in S
    <3>1. \A i \in 0..N : i \in S
      BY <1>1, <2>1, <2>2, StepByStep
    <3> QED BY <1>1, <3>1
  <2> QED BY <2>3 DEF S
<1>6. k[N + 1] = IF N + 1 \in more THEN Append(k[N], x) ELSE k[N]
  <2>1. N + 1 \in 1..Len(t) /\ (N + 1) - 1 = N
    BY <1>1
  <2> QED BY <1>1, <1>10, <2>1
<1>7. f[N] \in Seq(A)
  BY <1>1, <1>9
<1>8. Chosen(t, more) = k[N + 1]
  BY <1>1, <1>10
<1> QED BY <1>9, <1>5, <1>6, <1>7, <1>8 DEF t, N

LEMMA ChosenType == ASSUME NEW A, NEW s \in Seq(A), NEW good PROVE Chosen(s, good) \in Seq(A)
<1>1. PICK f : Choosing(f, A, s, good)
  BY ChosenPrefixes
<1>2. Len(s) \in 0..Len(s)
  OBVIOUS
<1> QED BY <1>1, <1>2 DEF Choosing

LEMMA ChosenEmpty == ASSUME NEW good PROVE Chosen(<< >>, good) = << >>
<1>1. << >> \in Seq({}) /\ Len(<< >>) = 0
  OBVIOUS
<1>2. PICK f : Choosing(f, {}, << >>, good)
  BY <1>1, ChosenPrefixes, Zenon
<1> QED BY <1>1, <1>2, Zenon DEF Choosing

\* The signals there may be, and what is read of them.
Signalled == {lconf.signals[i] : i \in DOMAIN lconf.signals} \cup {[key |-> m.key] : m \in Messages}
Readings == [of : Signalled, message : Messages]

LEMMA SignalsListed ==
  ASSUME lconf \in ListenConfigs
  PROVE  lconf.signals \in Seq(Signalled)
<1>1. lconf.signals \in Seq({lconf.signals[i] : i \in DOMAIN lconf.signals})
  BY ListenAssumption
<1>2. {lconf.signals[i] : i \in DOMAIN lconf.signals} \subseteq Signalled
  BY DEF Signalled
<1> QED BY <1>1, <1>2, SeqMonotonic, Zenon

LEMMA MatchedListed ==
  ASSUME lconf \in ListenConfigs, NEW m \in Messages
  PROVE  Matched(m) \in Seq(Signalled)
<1>1. CASE Protocol = "subscribe"
  <2>1. [key |-> m.key] \in Signalled
    BY DEF Signalled
  <2> QED BY <1>1, <2>1 DEF Matched
<1>2. CASE Protocol # "subscribe"
  BY <1>2, SignalsListed, ChosenType, Zenon DEF Matched
<1> QED BY <1>1, <1>2

LEMMA ReadsListed ==
  ASSUME NEW m \in Messages, NEW s \in Seq(Signalled)
  PROVE  Reads(s, m) \in Seq(Readings) /\ Len(Reads(s, m)) = Len(s)
<1>1. Len(s) \in Nat /\ \A i \in 1..Len(s) : s[i] \in Signalled
  OBVIOUS
<1>2. \A i \in 1..Len(s) : [of |-> s[i], message |-> m] \in Readings
  BY <1>1 DEF Readings
<1> DEFINE n == Len(s)
<1>3. n \in Nat /\ Reads(s, m) = [i \in 1..n |-> [of |-> s[i], message |-> m]]
  BY <1>1 DEF Reads
<1>4. \A i \in 1..n : [of |-> s[i], message |-> m] \in Readings
  BY <1>2
<1> HIDE DEF n
<1>5. Reads(s, m) \in Seq(Readings) /\ Len(Reads(s, m)) = n
  BY <1>3, <1>4
<1> QED BY <1>5 DEF n

\* One more signal is read of the same message.
LEMMA ReadsAppend ==
  ASSUME NEW m \in Messages, NEW s \in Seq(Signalled), NEW x \in Signalled
  PROVE  Reads(Append(s, x), m) = Append(Reads(s, m), [of |-> x, message |-> m])
<1> DEFINE t == Append(s, x)
           y == [of |-> x, message |-> m]
           r == Reads(s, m)
<1>1. t \in Seq(Signalled) /\ Len(s) \in Nat /\ Len(t) = Len(s) + 1 /\ t[Len(s) + 1] = x
  OBVIOUS
<1>2. \A i \in 1..Len(s) : t[i] = s[i]
  OBVIOUS
<1>3. y \in Readings
  BY DEF Readings
<1>4. r \in Seq(Readings) /\ Len(r) = Len(s)
  BY ReadsListed
<1>5. Reads(t, m) \in Seq(Readings) /\ Len(Reads(t, m)) = Len(t)
  BY <1>1, ReadsListed, Zenon
<1>6. \A i \in 1..Len(t) : Reads(t, m)[i] = [of |-> t[i], message |-> m]
  BY DEF Reads
<1>7. \A i \in 1..Len(s) : r[i] = [of |-> s[i], message |-> m]
  BY DEF Reads
<1> DEFINE q == Append(r, y)
<1>8. q \in Seq(Readings) /\ Len(q) = Len(s) + 1 /\ q[Len(s) + 1] = y /\ \A i \in 1..Len(s) : q[i] = r[i]
  <2> HIDE DEF r, y
  <2> QED BY <1>3, <1>4
<1> HIDE DEF q, r, t
<1>9. \A i \in 1..Len(t) : Reads(t, m)[i] = q[i]
  <2> SUFFICES ASSUME NEW i \in 1..Len(t) PROVE Reads(t, m)[i] = q[i]
    OBVIOUS
  <2>1. CASE i = Len(s) + 1
    BY <1>1, <1>6, <1>8, <2>1
  <2>2. CASE i # Len(s) + 1
    <3>1. i \in 1..Len(s)
      BY <1>1, <2>2
    <3> QED BY <1>2, <1>6, <1>7, <1>8, <3>1
  <2> QED BY <2>1, <2>2
<1>10. Reads(t, m) = q
  BY <1>1, <1>5, <1>8, <1>9, SeqEqual
<1> QED BY <1>10 DEF q, t, r

\* One more reading gives one more value, or none.
Decodable(x) == Decodes(x.of, x.message)
LEMMA ValuesAppend ==
  ASSUME NEW A, NEW s \in Seq(A), NEW x \in A
  PROVE  /\ Values(s) \in Seq(A)
         /\ Decodable(x) => Values(Append(s, x)) = Append(Values(s), x)
         /\ ~Decodable(x) => Values(Append(s, x)) = Values(s)
<1> DEFINE t == Append(s, x)
           good == {i \in 1..Len(s) : Decodable(s[i])}
           more == {i \in 1..Len(t) : Decodable(t[i])}
<1>1. Len(s) \in Nat /\ Len(t) = Len(s) + 1 /\ t[Len(s) + 1] = x
  OBVIOUS
<1>2. \A i \in 1..Len(s) : t[i] = s[i]
  OBVIOUS
<1> HIDE DEF t
<1>3. \A i \in 1..Len(s) : i \in good <=> i \in more
  <2> SUFFICES ASSUME NEW i \in 1..Len(s) PROVE i \in good <=> i \in more
    OBVIOUS
  <2>1. i \in 1..Len(t) /\ t[i] = s[i]
    BY <1>1, <1>2
  <2> QED BY <2>1, Zenon
<1>4. Len(s) + 1 \in more <=> Decodable(x)
  <2>1. Len(s) + 1 \in 1..Len(t)
    BY <1>1
  <2> QED BY <1>1, <2>1, Zenon
<1>5. Values(s) = Chosen(s, good) /\ Values(t) = Chosen(t, more)
  BY Zenon DEF Values, Decodable
<1> HIDE DEF good, more
<1>6. /\ Chosen(s, good) \in Seq(A)
      /\ Len(s) + 1 \in more => Chosen(t, more) = Append(Chosen(s, good), x)
      /\ Len(s) + 1 \notin more => Chosen(t, more) = Chosen(s, good)
  <2>1. s \in Seq(A) /\ x \in A
    OBVIOUS
  <2>2. /\ Chosen(s, good) \in Seq(A)
        /\ Len(s) + 1 \in more => Chosen(Append(s, x), more) = Append(Chosen(s, good), x)
        /\ Len(s) + 1 \notin more => Chosen(Append(s, x), more) = Chosen(s, good)
    BY <1>3, <2>1, ChosenAppend
  <2> QED BY <2>2 DEF t
<1> QED BY <1>4, <1>5, <1>6, Zenon DEF t

LEMMA ValuesType == ASSUME NEW A, NEW s \in Seq(A) PROVE Values(s) \in Seq(A)
  BY ChosenType, Zenon DEF Values

LEMMA ValuesEmpty == Values(<< >>) = << >>
  BY ChosenEmpty, Zenon DEF Values

LEMMA EventsType ==
  ASSUME lconf \in ListenConfigs, NEW m \in Messages
  PROVE  EventsOf(m) \in Seq(Readings)
<1>1. Reads(Matched(m), m) \in Seq(Readings)
  BY MatchedListed, ReadsListed, Zenon
<1> QED BY <1>1, ValuesType, Zenon DEF EventsOf

\* The events of a sequence of messages, one message after the other.
Joint(ms) ==
  LET upto[k \in 0..Len(ms)] == IF k = 0 THEN << >> ELSE upto[k - 1] \o EventsOf(ms[k])
  IN  upto[Len(ms)]
Joining(f, ms) ==
  /\ f \in [0..Len(ms) -> Seq(Readings)] /\ f[0] = << >>
  /\ \A i \in 1..Len(ms) : f[i] = f[i - 1] \o EventsOf(ms[i])
  /\ Joint(ms) = f[Len(ms)]

LEMMA JointPrefixes ==
  ASSUME lconf \in ListenConfigs, NEW ms \in Seq(Messages)
  PROVE  \E f : Joining(f, ms)
<1> DEFINE N == Len(ms)
           A == Seq(Readings)
           g == [p \in (1..N) \X A |-> p[2] \o EventsOf(ms[p[1]])]
           Eq(h) == h = [k \in 0..N |-> IF k = 0 THEN << >> ELSE h[k - 1] \o EventsOf(ms[k])]
           u == CHOOSE h : Eq(h)
<1>1. N \in Nat /\ \A i \in 1..N : ms[i] \in Messages
  OBVIOUS
<1>2. << >> \in A
  OBVIOUS
<1> HIDE DEF N
<1>3. \A i \in 1..N : \A t \in A : t \o EventsOf(ms[i]) \in A
  <2> SUFFICES ASSUME NEW i \in 1..N, NEW t \in A PROVE t \o EventsOf(ms[i]) \in A
    OBVIOUS
  <2>1. EventsOf(ms[i]) \in A
    BY <1>1, EventsType, Zenon
  <2> QED BY <2>1, ConcatProperties
<1> HIDE DEF A
<1>4. g \in [(1..N) \X A -> A]
  BY <1>3
<1>5. \A i \in 1..N : \A t \in A : g[<<i, t>>] = t \o EventsOf(ms[i])
  OBVIOUS
<1> HIDE DEF g
<1>6. PICK h \in [0..N -> A] : h[0] = << >> /\ \A i \in 1..N : h[i] = g[<<i, h[i - 1]>>]
  <2>1. PICK h : Solution(h, N, A, << >>, g)
    BY <1>1, <1>2, <1>4, Recursion, Zenon
  <2> QED BY <2>1 DEF Solution
<1>7. Eq(h)
  <2>1. ASSUME NEW k \in 0..N PROVE h[k] = IF k = 0 THEN << >> ELSE h[k - 1] \o EventsOf(ms[k])
    <3>1. CASE k = 0
      BY <1>6, <3>1
    <3>2. CASE k # 0
      <4>1. k \in 1..N /\ k - 1 \in 0..N
        BY <1>1, <3>2
      <4>2. h[k - 1] \in A
        BY <4>1
      <4> QED BY <1>5, <1>6, <3>2, <4>1, <4>2
    <3> QED BY <3>1, <3>2
  <2> QED BY <2>1
<1>8. Eq(u)
  BY <1>7, Zenon
<1> HIDE DEF u
<1>9. u[0] = << >> /\ \A i \in 1..N : u[i] = u[i - 1] \o EventsOf(ms[i])
  <2>1. \A k \in 0..N : u[k] = IF k = 0 THEN << >> ELSE u[k - 1] \o EventsOf(ms[k])
    BY <1>8, Zenon
  <2>2. 0 \in 0..N /\ \A i \in 1..N : i \in 0..N /\ i # 0
    BY <1>1
  <2> QED BY <2>1, <2>2, Zenon
<1>10. \A i \in 0..N : u[i] \in A
  <2> DEFINE S == {i \in 0..N : u[i] \in A}
  <2>1. 0 \in S
    <3>1. 0 \in 0..N
      BY <1>1
    <3> QED BY <1>2, <1>9, <3>1, Zenon
  <2>2. ASSUME NEW i \in 1..N, i - 1 \in S PROVE i \in S
    <3>1. u[i - 1] \in A /\ i \in 0..N
      BY <1>1, <2>2
    <3>2. u[i - 1] \o EventsOf(ms[i]) \in A
      BY <1>3, <3>1, Zenon
    <3> QED BY <1>9, <3>1, <3>2
  <2>3. \A i \in 0..N : i \in S
    <3> HIDE DEF S
    <3> QED BY <1>1, <2>1, <2>2, StepByStep
  <2> QED BY <2>3
<1>11. u \in [0..N -> A]
  BY <1>8, <1>10
<1>12. Joint(ms) = u[N]
  BY DEF Joint, u, N
<1>13. Joining(u, ms)
  BY <1>9, <1>11, <1>12 DEF N, A, Joining
<1> QED BY <1>13

LEMMA JointAppend ==
  ASSUME lconf \in ListenConfigs, NEW ms \in Seq(Messages), NEW m \in Messages
  PROVE  Joint(ms) \in Seq(Readings) /\ Joint(Append(ms, m)) = Joint(ms) \o EventsOf(m)
<1> DEFINE N == Len(ms)
           t == Append(ms, m)
<1>1. N \in Nat /\ t \in Seq(Messages) /\ Len(t) = N + 1 /\ t[N + 1] = m
  OBVIOUS
<1>2. \A i \in 1..N : t[i] = ms[i]
  OBVIOUS
<1>3. PICK f : Joining(f, ms)
  BY JointPrefixes
<1> HIDE DEF t
<1>4. PICK k : Joining(k, t)
  BY <1>1, JointPrefixes, Zenon
<1>5. /\ f \in [0..N -> Seq(Readings)] /\ f[0] = << >>
      /\ \A i \in 1..N : f[i] = f[i - 1] \o EventsOf(ms[i])
      /\ Joint(ms) = f[N]
  BY <1>3 DEF Joining
<1>6. /\ k[0] = << >> /\ \A i \in 1..Len(t) : k[i] = k[i - 1] \o EventsOf(t[i])
      /\ Joint(t) = k[Len(t)]
  BY <1>4 DEF Joining
<1> HIDE DEF N
<1>7. k[N] = f[N]
  <2> DEFINE S == {i \in 0..N : k[i] = f[i]}
  <2>1. 0 \in S
    BY <1>1, <1>5, <1>6, SMTT(60)
  <2>2. ASSUME NEW i \in 1..N, i - 1 \in S PROVE i \in S
    <3>1. i \in 1..Len(t) /\ t[i] = ms[i] /\ i \in 0..N
      BY <1>1, <1>2
    <3>2. k[i] = k[i - 1] \o EventsOf(ms[i]) /\ f[i] = f[i - 1] \o EventsOf(ms[i])
      BY <1>5, <1>6, <3>1
    <3> QED BY <2>2, <3>1, <3>2
  <2> HIDE DEF S
  <2>3. N \in S
    <3>1. \A i \in 0..N : i \in S
      BY <1>1, <2>1, <2>2, StepByStep
    <3> QED BY <1>1, <3>1
  <2> QED BY <2>3 DEF S
<1>8. k[N + 1] = k[N] \o EventsOf(m)
  <2>1. N + 1 \in 1..Len(t) /\ (N + 1) - 1 = N
    BY <1>1
  <2> QED BY <1>1, <1>6, <2>1
<1>9. f[N] \in Seq(Readings)
  BY <1>1, <1>5
<1>10. Joint(t) = k[N + 1]
  BY <1>1, <1>6
<1> QED BY <1>5, <1>7, <1>8, <1>9, <1>10 DEF t

LEMMA JointEmpty == lconf \in ListenConfigs => Joint(<< >>) = << >>
<1> SUFFICES ASSUME lconf \in ListenConfigs PROVE Joint(<< >>) = << >>
  OBVIOUS
<1>1. << >> \in Seq(Messages) /\ Len(<< >>) = 0
  OBVIOUS
<1>2. PICK f : Joining(f, << >>)
  BY <1>1, JointPrefixes, Zenon
<1> QED BY <1>1, <1>2, Zenon DEF Joining

\* What is expected of a list of what has been handled.
ExpectedOf(h) == IF Protocol = "modbus" THEN Values(h) ELSE Joint(h)
LEMMA ExpectedIs == Expected = ExpectedOf(handled)
  BY DEF Expected, ExpectedOf, Joint

\* The operators read the configuration, which stays.
LEMMA ProtocolStays == lconf' = lconf => Protocol' = Protocol
  BY DEF Protocol
LEMMA DecodesStays == ASSUME lconf' = lconf, NEW x PROVE Decodable(x)' <=> Decodable(x)
  BY DEF Decodable, Decodes, BytesSuffice, Protocol
LEMMA ExpectedNext == ASSUME lconf' = lconf, NEW h, handled' = h PROVE Expected' = ExpectedOf(h)
  BY DEF Expected, ExpectedOf, Joint, Values, EventsOf, Matched, Matches, Reads, Decodes, BytesSuffice, Protocol
LEMMA MatchedNext == ASSUME lconf' = lconf, NEW m, message' = m PROVE Matched(message)' = Matched(m)
  BY DEF Matched, Matches, Protocol
LEMMA ValuesNext == ASSUME lconf' = lconf, NEW d, NEW m, message' = m
                    PROVE  Values(Reads(d, message))' = Values(Reads(d, m))
  BY DEF Values, Reads, Decodes, BytesSuffice, Protocol
LEMMA SetsNext == lconf' = lconf => Signalled' = Signalled /\ Readings' = Readings
  BY DEF Signalled, Readings

\* What has been handled, and whether a reading among the last n failed.
Handled == IF Protocol = "modbus" THEN Readings ELSE Messages
SomeFailed(h, n) == \E i \in (Len(h) - n + 1)..Len(h) : ~Decodable(h[i])

\* In the middle of a message, and in the middle of a round of the poll: what is
\* done, of which the values are out, and what is pending make up the whole.
HalfRead(done, p, m, e, h) ==
  /\ done \in Seq(Signalled) /\ Matched(m) = done \o p
  /\ e = ExpectedOf(h) \o Values(Reads(done, m))
PartRead(done, p, b, h) ==
  /\ done \in Seq(Signalled) /\ lconf.signals = done \o p
  /\ Len(done) <= Len(h) /\ (b <=> SomeFailed(h, Len(done)))

ListenTypes ==
  /\ lconf \in ListenConfigs /\ handled \in Seq(Handled) /\ events \in Seq(Readings)
  /\ pending \in Seq(Signalled) /\ failedRead \in BOOLEAN
UpToDate == lphase # "process" \/ Protocol = "modbus" => events = ExpectedOf(handled)
Halfway ==
  lphase = "process" /\ Protocol # "modbus" =>
    message \in Messages /\ \E done : HalfRead(done, pending, message, events, handled)
PartWay ==
  lphase = "process" /\ Protocol = "modbus" => \E done : PartRead(done, pending, failedRead, handled)
ListenInv ==
  /\ ListenTypes /\ UpToDate /\ Halfway /\ PartWay
  /\ lphase = "borrowed" => Protocol = "modbus"
  /\ ConnectedMeansSubscribed

LEMMA HandledNext ==
  lconf' = lconf => Handled' = Handled /\ Signalled' = Signalled /\ Readings' = Readings
  BY DEF Handled, Signalled, Readings, Protocol
LEMMA ExpectedOfNext ==
  ASSUME lconf' = lconf, NEW h, handled' = h PROVE ExpectedOf(handled)' = ExpectedOf(h)
  BY DEF ExpectedOf, Joint, Values, EventsOf, Matched, Matches, Reads, Decodes, BytesSuffice, Protocol
LEMMA HalfReadNext ==
  ASSUME lconf' = lconf, NEW d, NEW p, NEW m, NEW e, NEW h,
         pending' = p, message' = m, events' = e, handled' = h, HalfRead(d, p, m, e, h)
  PROVE  HalfRead(d, pending, message, events, handled)'
<1>1. /\ Signalled' = Signalled /\ Matched(message)' = Matched(m)
      /\ ExpectedOf(handled)' = ExpectedOf(h) /\ Values(Reads(d, message))' = Values(Reads(d, m))
  BY HandledNext, MatchedNext, ExpectedOfNext, ValuesNext, Zenon
<1> QED BY <1>1 DEF HalfRead
LEMMA PartReadNext ==
  ASSUME lconf' = lconf, NEW d, NEW p, NEW b, NEW h,
         pending' = p, failedRead' = b, handled' = h, PartRead(d, p, b, h)
  PROVE  PartRead(d, pending, failedRead, handled)'
  BY DEF PartRead, Signalled, SomeFailed, Decodable, Decodes, BytesSuffice, Protocol
\* What a step has to show.
LEMMA ListenKept ==
  ASSUME ListenInv, lconf' = lconf,
         NEW h \in Seq(Handled), NEW e \in Seq(Readings), NEW p \in Seq(Signalled), NEW m, NEW b \in BOOLEAN,
         handled' = h, events' = e, pending' = p, message' = m, failedRead' = b,
         lphase' # "process" \/ Protocol = "modbus" => e = ExpectedOf(h),
         lphase' = "process" /\ Protocol # "modbus" => m \in Messages /\ \E done : HalfRead(done, p, m, e, h),
         lphase' = "process" /\ Protocol = "modbus" => \E done : PartRead(done, p, b, h),
         lphase' = "borrowed" => Protocol = "modbus",
         ConnectedMeansSubscribed'
  PROVE  ListenInv'
<1>1. Protocol' = Protocol
  BY ProtocolStays
<1>2. ListenTypes'
  BY HandledNext DEF ListenInv, ListenTypes
<1>3. UpToDate'
  BY <1>1, ExpectedOfNext DEF UpToDate
<1>4. Halfway'
  <2> SUFFICES ASSUME lphase' = "process", Protocol # "modbus" 
               PROVE  message' \in Messages /\ \E done : HalfRead(done, pending, message, events, handled)'
    BY <1>1, Zenon DEF Halfway
  <2>1. PICK done : HalfRead(done, p, m, e, h)
    OBVIOUS
  <2>2. HalfRead(done, pending, message, events, handled)'
    BY <2>1, HalfReadNext, Zenon
  <2> QED BY <2>2, Zenon
<1>5. PartWay'
  <2> SUFFICES ASSUME lphase' = "process", Protocol = "modbus"
               PROVE  \E done : PartRead(done, pending, failedRead, handled)'
    BY <1>1, Zenon DEF PartWay
  <2>1. PICK done : PartRead(done, p, b, h)
    OBVIOUS
  <2>2. PartRead(done, pending, failedRead, handled)'
    BY <2>1, PartReadNext, Zenon
  <2> QED BY <2>2, Zenon
<1>6. (lphase = "borrowed" => Protocol = "modbus")'
  BY <1>1
<1> QED BY <1>2, <1>3, <1>4, <1>5, <1>6 DEF ListenInv

LEMMA ListenStarts == ListenInit => ListenInv
<1> SUFFICES ASSUME ListenInit PROVE ListenInv
  OBVIOUS
<1>1. ListenTypes
  <2>1. << >> \in Seq(Handled) /\ << >> \in Seq(Readings) /\ << >> \in Seq(Signalled)
    OBVIOUS
  <2> QED BY <2>1, Zenon DEF ListenInit, ListenTypes
<1>2. ExpectedOf(<< >>) = << >>
  BY <1>1, JointEmpty, ValuesEmpty, Zenon DEF ExpectedOf, ListenTypes
<1>3. UpToDate /\ Halfway /\ PartWay /\ lphase = "new" /\ ConnectedMeansSubscribed
  BY <1>2 DEF ListenInit, UpToDate, Halfway, PartWay, ConnectedMeansSubscribed
<1> QED BY <1>1, <1>3 DEF ListenInv

\* Between messages nothing is read.
LEMMA QuietListening ==
  ASSUME ListenInv, UNCHANGED <<lconf, pending, message, handled, events, failedRead>>,
         lphase' = lphase \/ (lphase # "process" /\ lphase' # "process"),
         lphase' = "borrowed" => Protocol = "modbus",
         ConnectedMeansSubscribed'
  PROVE  ListenInv'
<1>1. lconf' = lconf /\ pending' = pending /\ message' = message /\ handled' = handled /\ events' = events
      /\ failedRead' = failedRead
  OBVIOUS
<1>2. /\ handled \in Seq(Handled) /\ events \in Seq(Readings) /\ pending \in Seq(Signalled)
      /\ failedRead \in BOOLEAN
  BY DEF ListenInv, ListenTypes
<1>3. lphase' # "process" \/ Protocol = "modbus" => events = ExpectedOf(handled)
  BY DEF ListenInv, UpToDate
<1>4. lphase' = "process" /\ Protocol # "modbus"
        => message \in Messages /\ \E done : HalfRead(done, pending, message, events, handled)
  BY DEF ListenInv, Halfway
<1>5. lphase' = "process" /\ Protocol = "modbus" => \E done : PartRead(done, pending, failedRead, handled)
  BY Zenon DEF ListenInv, PartWay
<1> QED BY <1>1, <1>2, <1>3, <1>4, <1>5, ListenKept, Zenon

LEMMA ConnectsQuietly ==
  ASSUME ListenInv,
         \/ DeployListener \/ CancelListener \/ LeaveUnconnected \/ BorrowFails \/ ConnAckFails
         \/ ConnAckComes \/ SubscribeAllTopics \/ EnterSession \/ EnterPolling \/ RetryWaitEnds
         \/ PollTick \/ PollCancelled \/ StreamFails \/ SessionFails \/ StopListening
  PROVE  ListenInv'
<1> USE DEF Go, Topical
<1>1. ConnectedMeansSubscribed /\ (lphase = "borrowed" => Protocol = "modbus")
  BY DEF ListenInv
<1>2. UNCHANGED <<lconf, pending, message, handled, events, failedRead>> => Protocol' = Protocol
  BY ProtocolStays
<1>3. CASE DeployListener
  <2>1. /\ UNCHANGED <<lconf, pending, message, handled, events, failedRead>>
        /\ lphase # "process" /\ lphase' \in {"noop", "refused", "connect"}
    BY <1>3 DEF DeployListener
  <2>2. ConnectedMeansSubscribed'
    BY <2>1 DEF ConnectedMeansSubscribed
  <2> QED BY <2>1, <2>2, QuietListening
<1>4. CASE CancelListener
  <2>1. /\ UNCHANGED <<lconf, pending, message, handled, events, failedRead>>
        /\ lphase' = lphase /\ ltold' = ltold /\ subscribed' = subscribed
    BY <1>4 DEF CancelListener
  <2>2. ConnectedMeansSubscribed'
    BY <1>1, <1>2, <2>1 DEF ConnectedMeansSubscribed
  <2> QED BY <1>1, <2>1, <2>2, QuietListening
<1>5. CASE LeaveUnconnected \/ BorrowFails \/ ConnAckFails \/ ConnAckComes \/ RetryWaitEnds
           \/ StreamFails \/ SessionFails \/ StopListening
  <2>1. /\ UNCHANGED <<lconf, pending, message, handled, events, failedRead>>
        /\ lphase # "process" /\ lphase' \in {"over", "wait", "subscribe", "connect"}
    BY <1>5 DEF LeaveUnconnected, BorrowFails, ConnAckFails, ConnAckComes, RetryWaitEnds, StreamFails,
                SessionFails, StopListening
  <2>2. ConnectedMeansSubscribed'
    BY <2>1 DEF ConnectedMeansSubscribed
  <2> QED BY <2>1, <2>2, QuietListening
<1>6. CASE SubscribeAllTopics
  <2>1. /\ UNCHANGED <<lconf, pending, message, handled, events, failedRead>>
        /\ lphase # "process" /\ lphase' \in {"listen", "wait", "blocked"}
        /\ lphase' \in {"wait", "blocked"} \/ subscribed' = TRUE
    BY <1>6 DEF SubscribeAllTopics
  <2>2. ConnectedMeansSubscribed'
    BY <2>1 DEF ConnectedMeansSubscribed
  <2> QED BY <2>1, <2>2, QuietListening
<1>7. CASE EnterSession \/ EnterPolling \/ PollTick \/ PollCancelled
  <2>1. /\ UNCHANGED <<lconf, pending, message, handled, events, failedRead>>
        /\ lphase # "process" /\ lphase' \in {"listen", "over", "wait", "borrowed"}
        /\ Protocol \in {"can", "modbus"} /\ (lphase' = "borrowed" => Protocol = "modbus")
    BY <1>1, <1>7 DEF EnterSession, EnterPolling, PollTick, PollCancelled
  <2>2. ConnectedMeansSubscribed'
    BY <1>2, <2>1 DEF ConnectedMeansSubscribed
  <2> QED BY <2>1, <2>2, QuietListening
<1> QED BY <1>3, <1>4, <1>5, <1>6, <1>7

\* Nothing has been read of nothing.
LEMMA ReadsEmpty == ASSUME NEW m PROVE Reads(<< >>, m) = << >>
<1>1. Len(<< >>) = 0
  OBVIOUS
<1> QED BY <1>1 DEF Reads

LEMMA ExpectedType ==
  ASSUME lconf \in ListenConfigs, NEW h \in Seq(Handled)
  PROVE  ExpectedOf(h) \in Seq(Readings)
<1>1. CASE Protocol = "modbus"
  BY <1>1, ValuesType, Zenon DEF ExpectedOf, Handled
<1>2. CASE Protocol # "modbus"
  <2>1. h \in Seq(Messages)
    BY <1>2 DEF Handled
  <2>2. PICK f : Joining(f, h)
    BY <2>1, JointPrefixes
  <2>3. Len(h) \in 0..Len(h)
    OBVIOUS
  <2>4. Joint(h) \in Seq(Readings)
    BY <2>2, <2>3 DEF Joining
  <2> QED BY <1>2, <2>4 DEF ExpectedOf
<1> QED BY <1>1, <1>2

\* A message arrives: all it matches is pending.
LEMMA ReceiveKeeps ==
  ASSUME ListenInv, NEW m \in Messages, Receives(m)
  PROVE  ListenInv'
<1>1. /\ lconf' = lconf /\ handled' = handled /\ events' = events /\ pending' = Matched(m) /\ message' = m
      /\ failedRead' = failedRead /\ lphase = "listen" /\ lphase' = "process" /\ Protocol # "modbus"
      /\ ltold' = ltold /\ subscribed' = subscribed
  BY DEF Receives
<1>2. /\ lconf \in ListenConfigs /\ handled \in Seq(Handled) /\ events \in Seq(Readings)
      /\ failedRead \in BOOLEAN /\ events = ExpectedOf(handled) /\ ConnectedMeansSubscribed
  BY <1>1 DEF ListenInv, ListenTypes, UpToDate
<1>3. Matched(m) \in Seq(Signalled)
  BY <1>2, MatchedListed
<1>4. HalfRead(<< >>, Matched(m), m, events, handled)
  <2>1. << >> \in Seq(Signalled)
    OBVIOUS
  <2>2. Matched(m) = << >> \o Matched(m)
    BY <1>3, ConcatEmptySeq, Zenon
  <2>3. Values(Reads(<< >>, m)) = << >>
    BY ReadsEmpty, ValuesEmpty, Zenon
  <2>4. events = events \o << >>
    BY <1>2, ConcatEmptySeq, Zenon
  <2> QED BY <1>2, <2>1, <2>2, <2>3, <2>4, Zenon DEF HalfRead
<1>5. ConnectedMeansSubscribed'
  BY <1>1, <1>2, ProtocolStays DEF ConnectedMeansSubscribed
<1>6. lphase' # "borrowed"
  BY <1>1
<1>7. \E done : HalfRead(done, Matched(m), m, events, handled)
  BY <1>4, Zenon
<1> QED BY <1>1, <1>2, <1>3, <1>5, <1>6, <1>7, ListenKept, Zenon

\* A round of the poll begins: all registers are pending.
LEMMA BeginsKeeps ==
  ASSUME ListenInv, PollBegins
  PROVE  ListenInv'
<1>1. /\ lconf' = lconf /\ handled' = handled /\ events' = events /\ pending' = lconf.signals
      /\ message' = message /\ failedRead' = FALSE /\ lphase = "borrowed" /\ lphase' = "process"
      /\ ltold' = ltold /\ subscribed' = subscribed
  BY DEF PollBegins
<1>2. /\ lconf \in ListenConfigs /\ handled \in Seq(Handled) /\ events \in Seq(Readings)
      /\ events = ExpectedOf(handled) /\ Protocol = "modbus"
  BY <1>1 DEF ListenInv, ListenTypes, UpToDate
<1>3. lconf.signals \in Seq(Signalled)
  BY <1>2, SignalsListed
<1>4. PartRead(<< >>, lconf.signals, FALSE, handled)
  <2>1. << >> \in Seq(Signalled) /\ Len(<< >>) = 0 /\ Len(handled) \in Nat
    BY <1>2
  <2>2. lconf.signals = << >> \o lconf.signals
    BY <1>3, ConcatEmptySeq, Zenon
  <2>3. ~SomeFailed(handled, 0)
    BY <2>1 DEF SomeFailed
  <2> QED BY <2>1, <2>2, <2>3 DEF PartRead
<1>5. ConnectedMeansSubscribed'
  BY <1>1, <1>2, ProtocolStays DEF ConnectedMeansSubscribed
<1>6. lphase' # "borrowed" /\ FALSE \in BOOLEAN
  BY <1>1
<1>7. \E done : PartRead(done, lconf.signals, FALSE, handled)
  BY <1>4, Zenon
<1> QED BY <1>1, <1>2, <1>3, <1>5, <1>6, <1>7, ListenKept, Zenon

\* The first of what is pending is done next.
LEMMA HeadMoves ==
  ASSUME NEW A, NEW done \in Seq(A), NEW p \in Seq(A), p # << >>
  PROVE  /\ Head(p) \in A /\ Tail(p) \in Seq(A) /\ Append(done, Head(p)) \in Seq(A)
         /\ Len(Append(done, Head(p))) = Len(done) + 1
         /\ done \o p = Append(done, Head(p)) \o Tail(p)
<1> DEFINE x == Head(p)
           t == Tail(p)
           d == Append(done, x)
<1>1. /\ x \in A /\ t \in Seq(A) /\ Len(p) \in Nat /\ Len(p) > 0 /\ Len(t) = Len(p) - 1 /\ p[1] = x
      /\ \A i \in 1..Len(t) : t[i] = p[i + 1]
  OBVIOUS
<1> HIDE DEF x, t
<1>2. /\ d \in Seq(A) /\ Len(d) = Len(done) + 1 /\ d[Len(done) + 1] = x /\ Len(done) \in Nat
      /\ \A i \in 1..Len(done) : d[i] = done[i]
  BY <1>1
<1> HIDE DEF d
<1>3. /\ done \o p \in Seq(A) /\ Len(done \o p) = Len(done) + Len(p)
      /\ \A i \in 1..(Len(done) + Len(p)) :
           (done \o p)[i] = IF i <= Len(done) THEN done[i] ELSE p[i - Len(done)]
  BY ConcatProperties, Zenon
<1>4. /\ d \o t \in Seq(A) /\ Len(d \o t) = Len(d) + Len(t)
      /\ \A i \in 1..(Len(d) + Len(t)) : (d \o t)[i] = IF i <= Len(d) THEN d[i] ELSE t[i - Len(d)]
  BY <1>1, <1>2, ConcatProperties, Zenon
<1>5. Len(done \o p) = Len(d \o t)
  BY <1>1, <1>2, <1>3, <1>4
<1>6. \A i \in 1..Len(done \o p) : (done \o p)[i] = (d \o t)[i]
  <2> SUFFICES ASSUME NEW i \in 1..(Len(done) + Len(p)) PROVE (done \o p)[i] = (d \o t)[i]
    BY <1>3
  <2>1. i \in 1..(Len(d) + Len(t)) /\ i \in Nat
    BY <1>1, <1>2
  <2>2. CASE i <= Len(done)
    <3>1. (done \o p)[i] = done[i] /\ i \in 1..Len(done)
      BY <1>2, <1>3, <2>2
    <3>2. (d \o t)[i] = d[i]
      BY <1>2, <1>4, <2>1, <2>2
    <3> QED BY <1>2, <3>1, <3>2
  <2>3. CASE i = Len(done) + 1
    <3>1. (done \o p)[i] = p[1]
      BY <1>2, <1>3, <2>3
    <3>2. (d \o t)[i] = x
      BY <1>2, <1>4, <2>1, <2>3
    <3> QED BY <1>1, <3>1, <3>2
  <2>4. CASE i > Len(done) + 1
    <3>1. (done \o p)[i] = p[i - Len(done)]
      BY <1>2, <1>3, <2>4
    <3>2. (d \o t)[i] = t[i - Len(d)]
      BY <1>2, <1>4, <2>1, <2>4
    <3>3. i - Len(d) \in 1..Len(t) /\ (i - Len(d)) + 1 = i - Len(done)
      BY <1>1, <1>2, <2>1, <2>4
    <3> QED BY <1>1, <3>1, <3>2, <3>3
  <2> QED BY <1>2, <2>1, <2>2, <2>3, <2>4
<1>7. done \o p = d \o t
  BY <1>3, <1>4, <1>5, <1>6, SeqEqual
<1> QED BY <1>1, <1>2, <1>7 DEF d, x, t

\* The values of a message after one more signal.
LEMMA OneMoreRead ==
  ASSUME NEW m \in Messages, NEW d \in Seq(Signalled), NEW x \in Signalled
  PROVE  /\ Values(Reads(d, m)) \in Seq(Readings)
         /\ Decodes(x, m) => Values(Reads(Append(d, x), m)) = Append(Values(Reads(d, m)), [of |-> x, message |-> m])
         /\ ~Decodes(x, m) => Values(Reads(Append(d, x), m)) = Values(Reads(d, m))
<1> DEFINE r == Reads(d, m)
           y == [of |-> x, message |-> m]
<1>1. r \in Seq(Readings) /\ Reads(Append(d, x), m) = Append(r, y)
  BY ReadsListed, ReadsAppend
<1>2. y \in Readings
  BY DEF Readings
<1>3. Decodable(y) <=> Decodes(x, m)
  BY DEF Decodable
<1> HIDE DEF r, y
<1>4. /\ Values(r) \in Seq(Readings)
      /\ Decodable(y) => Values(Append(r, y)) = Append(Values(r), y)
      /\ ~Decodable(y) => Values(Append(r, y)) = Values(r)
  BY <1>1, <1>2, ValuesAppend, Zenon
<1> QED BY <1>1, <1>3, <1>4, Zenon DEF r, y

Behind(s, t, x) == Append(s \o t, x) = s \o Append(t, x)
LEMMA AppendAfter ==
  ASSUME NEW A, NEW s \in Seq(A), NEW t \in Seq(A), NEW x \in A
  PROVE  Behind(s, t, x)
<1>1. s \o t \in Seq(A) /\ << x >> \in Seq(A)
  BY ConcatProperties
<1>2. Append(s \o t, x) = (s \o t) \o << x >> /\ Append(t, x) = t \o << x >>
  BY <1>1, AppendIsConcat
<1> QED BY <1>1, <1>2, ConcatAssociative DEF Behind

\* A signal of a message gives its value, or is skipped.
LEMMA EmitKeeps ==
  ASSUME ListenInv, EmitNext
  PROVE  ListenInv'
<1> DEFINE x == Head(pending)
           m == message
           y == [of |-> x, message |-> m]
           e == IF Decodes(x, m) THEN Append(events, y) ELSE events
<1>1. /\ lconf' = lconf /\ handled' = handled /\ events' = e /\ pending' = Tail(pending) /\ message' = m
      /\ failedRead' = failedRead /\ lphase = "process" /\ lphase' = "process" /\ Protocol # "modbus"
      /\ ltold' = ltold /\ subscribed' = subscribed /\ pending # << >>
  BY DEF EmitNext, ProcessSignal, Emitted
<1>2. /\ lconf \in ListenConfigs /\ handled \in Seq(Handled) /\ events \in Seq(Readings)
      /\ pending \in Seq(Signalled) /\ failedRead \in BOOLEAN /\ m \in Messages /\ ConnectedMeansSubscribed
  BY <1>1 DEF ListenInv, ListenTypes, Halfway
<1>3. PICK done : HalfRead(done, pending, m, events, handled)
  BY <1>1 DEF ListenInv, Halfway
<1>4. /\ done \in Seq(Signalled) /\ Matched(m) = done \o pending
      /\ events = ExpectedOf(handled) \o Values(Reads(done, m))
  BY <1>3 DEF HalfRead
<1>5. /\ x \in Signalled /\ Tail(pending) \in Seq(Signalled) /\ Append(done, x) \in Seq(Signalled)
      /\ done \o pending = Append(done, x) \o Tail(pending)
  BY <1>1, <1>2, <1>4, HeadMoves, Zenon
<1> HIDE DEF x, m
<1>6. /\ Values(Reads(done, m)) \in Seq(Readings)
      /\ Decodes(x, m) => Values(Reads(Append(done, x), m)) = Append(Values(Reads(done, m)), y)
      /\ ~Decodes(x, m) => Values(Reads(Append(done, x), m)) = Values(Reads(done, m))
  BY <1>2, <1>4, <1>5, OneMoreRead, Zenon
<1>7. y \in Readings
  BY <1>2, <1>5 DEF Readings
<1>8. ExpectedOf(handled) \in Seq(Readings)
  BY <1>2, ExpectedType
<1> HIDE DEF y
<1>9. e = ExpectedOf(handled) \o Values(Reads(Append(done, x), m))
  <2>1. CASE Decodes(x, m)
    <3>1. e = Append(ExpectedOf(handled) \o Values(Reads(done, m)), y)
      BY <1>4, <2>1, Zenon
    <3>2. e = ExpectedOf(handled) \o Append(Values(Reads(done, m)), y)
      <4> DEFINE s == ExpectedOf(handled)
                 t == Values(Reads(done, m))
      <4>1. s \in Seq(Readings) /\ t \in Seq(Readings)
        BY <1>6, <1>8, Zenon
      <4> HIDE DEF s, t
      <4>2. Behind(s, t, y)
        BY <1>7, <4>1, AppendAfter, Zenon
      <4> QED BY <3>1, <4>2, Zenon DEF s, t, Behind
    <3> QED BY <1>6, <2>1, <3>2, Zenon
  <2>2. CASE ~Decodes(x, m)
    BY <1>4, <1>6, <2>2, Zenon
  <2> QED BY <2>1, <2>2
<1>10. e \in Seq(Readings)
  <2>1. Append(events, y) \in Seq(Readings)
    BY <1>2, <1>7
  <2> QED BY <1>2, <2>1
<1> HIDE DEF e
<1>11. HalfRead(Append(done, x), Tail(pending), m, e, handled)
  BY <1>4, <1>5, <1>9, Zenon DEF HalfRead
<1>12. ConnectedMeansSubscribed'
  BY <1>1, <1>2, ProtocolStays DEF ConnectedMeansSubscribed
<1>13. lphase' # "borrowed" /\ \E d : HalfRead(d, Tail(pending), m, e, handled)
  BY <1>1, <1>11, Zenon
<1> QED BY <1>1, <1>2, <1>5, <1>10, <1>12, <1>13, ListenKept, Zenon

\* One more reading, and whether one of the last failed.
LEMMA OneMoreFailed ==
  ASSUME NEW A, NEW h \in Seq(A), NEW y \in A, NEW n \in Nat, n <= Len(h)
  PROVE  SomeFailed(Append(h, y), n + 1) <=> SomeFailed(h, n) \/ ~Decodable(y)
<1> DEFINE L == Len(h)
           t == Append(h, y)
<1>1. /\ L \in Nat /\ Len(t) = L + 1 /\ t[L + 1] = y /\ \A i \in 1..L : t[i] = h[i]
      /\ n <= L
  OBVIOUS
<1> HIDE DEF t
<1>2. /\ SomeFailed(t, n + 1) <=> \E i \in ((L + 1) - (n + 1) + 1)..(L + 1) : ~Decodable(t[i])
      /\ SomeFailed(h, n) <=> \E i \in (L - n + 1)..L : ~Decodable(h[i])
  BY <1>1, Zenon DEF SomeFailed
<1> HIDE DEF L
<1>3. ASSUME NEW i \in ((L + 1) - (n + 1) + 1)..(L + 1), ~Decodable(t[i])
      PROVE  (\E k \in (L - n + 1)..L : ~Decodable(h[k])) \/ ~Decodable(y)
  <2>1. CASE i = L + 1
    BY <1>1, <1>3, <2>1
  <2>2. CASE i # L + 1
    <3>1. i \in (L - n + 1)..L /\ i \in 1..L
      BY <1>1, <2>2
    <3>2. t[i] = h[i]
      BY <1>1, <3>1
    <3> QED BY <1>3, <3>1, <3>2, Zenon
  <2> QED BY <2>1, <2>2
<1>4. ASSUME NEW i \in (L - n + 1)..L, ~Decodable(h[i])
      PROVE  \E k \in ((L + 1) - (n + 1) + 1)..(L + 1) : ~Decodable(t[k])
  <2>1. i \in ((L + 1) - (n + 1) + 1)..(L + 1) /\ i \in 1..L
    BY <1>1
  <2>2. t[i] = h[i]
    BY <1>1, <2>1
  <2> QED BY <1>4, <2>1, <2>2, Zenon
<1>5. ASSUME ~Decodable(y)
      PROVE  \E k \in ((L + 1) - (n + 1) + 1)..(L + 1) : ~Decodable(t[k])
  <2>1. L + 1 \in ((L + 1) - (n + 1) + 1)..(L + 1)
    BY <1>1
  <2> QED BY <1>1, <1>5, <2>1, Zenon
<1> QED BY <1>2, <1>3, <1>4, <1>5, Zenon DEF t

\* A register is read, whatever became of the others.
LEMMA RegisterKeeps ==
  ASSUME ListenInv, NEW m \in Messages, PollRegister(m)
  PROVE  ListenInv'
<1> DEFINE x == Head(pending)
           y == [of |-> x, message |-> m]
           h == Append(handled, y)
           e == IF Decodes(x, m) THEN Append(events, y) ELSE events
           b == failedRead \/ ~Decodes(x, m)
<1>1. /\ lconf' = lconf /\ handled' = h /\ events' = e /\ pending' = Tail(pending) /\ message' = message
      /\ lphase = "process" /\ lphase' = "process" /\ Protocol = "modbus"
      /\ ltold' = ltold /\ subscribed' = subscribed /\ pending # << >>
  BY DEF PollRegister, ProcessSignal, Emitted
<1>14. failedRead' = b
  BY DEF PollRegister, ReadFailed
<1>2. /\ lconf \in ListenConfigs /\ handled \in Seq(Handled) /\ events \in Seq(Readings)
      /\ pending \in Seq(Signalled) /\ events = ExpectedOf(handled)
  BY <1>1 DEF ListenInv, ListenTypes, UpToDate
<1>3. PICK done : PartRead(done, pending, failedRead, handled)
  BY <1>1 DEF ListenInv, PartWay
<1>4. /\ done \in Seq(Signalled) /\ lconf.signals = done \o pending /\ Len(done) <= Len(handled)
      /\ (failedRead <=> SomeFailed(handled, Len(done)))
  BY <1>3, Zenon DEF PartRead
<1>5. /\ x \in Signalled /\ Tail(pending) \in Seq(Signalled) /\ Append(done, x) \in Seq(Signalled)
      /\ Len(Append(done, x)) = Len(done) + 1 /\ done \o pending = Append(done, x) \o Tail(pending)
  BY <1>1, <1>2, <1>4, HeadMoves, Zenon
<1> HIDE DEF x
<1>6. y \in Readings /\ Handled = Readings /\ handled \in Seq(Readings)
  BY <1>1, <1>2, <1>5 DEF Readings, Handled
<1>7. Decodable(y) <=> Decodes(x, m)
  BY DEF Decodable
<1> HIDE DEF y
<1>8. h \in Seq(Handled) /\ Len(h) = Len(handled) + 1 /\ Len(handled) \in Nat /\ Len(done) \in Nat
  BY <1>4, <1>6
<1>9. e = ExpectedOf(h) /\ e \in Seq(Readings)
  <2>1. /\ Decodable(y) => Values(h) = Append(Values(handled), y)
        /\ ~Decodable(y) => Values(h) = Values(handled)
    BY <1>6, ValuesAppend, Zenon
  <2>2. ExpectedOf(h) = Values(h) /\ ExpectedOf(handled) = Values(handled)
    BY <1>1 DEF ExpectedOf
  <2>3. e = ExpectedOf(h)
    BY <1>2, <1>7, <2>1, <2>2, Zenon
  <2>4. ExpectedOf(h) \in Seq(Readings)
    BY <1>2, <1>8, ExpectedType
  <2> QED BY <2>3, <2>4
<1>10. b <=> SomeFailed(h, Len(Append(done, x)))
  <2>1. SomeFailed(h, Len(done) + 1) <=> SomeFailed(handled, Len(done)) \/ ~Decodable(y)
    BY <1>4, <1>6, <1>8, OneMoreFailed, Zenon
  <2>2. SomeFailed(h, Len(Append(done, x))) <=> SomeFailed(h, Len(done) + 1)
    BY <1>5, Zenon
  <2> QED BY <1>4, <1>7, <2>1, <2>2, Zenon
<1>11. Len(Append(done, x)) <= Len(h)
  BY <1>4, <1>5, <1>8
<1>12. PartRead(Append(done, x), Tail(pending), b, h)
  <2> HIDE DEF b, h
  <2> QED BY <1>4, <1>5, <1>10, <1>11, Zenon DEF PartRead
<1>13. ConnectedMeansSubscribed'
  BY <1>1, ProtocolStays DEF ConnectedMeansSubscribed
<1>15. b \in BOOLEAN
  OBVIOUS
<1> HIDE DEF b, h, e
<1>16. lphase' # "borrowed" /\ \E d : PartRead(d, Tail(pending), b, h)
  BY <1>1, <1>12, Zenon
<1> QED BY <1>1, <1>5, <1>8, <1>9, <1>13, <1>14, <1>15, <1>16, ListenKept, Zenon

\* A message is done: the events are those of one more message.
LEMMA MessageKeeps ==
  ASSUME ListenInv, MessageDone
  PROVE  ListenInv'
<1> DEFINE h == Append(handled, message)
<1>1. /\ lconf' = lconf /\ handled' = h /\ events' = events /\ pending' = pending /\ message' = NoMessage
      /\ failedRead' = failedRead /\ lphase = "process" /\ lphase' = "listen" /\ Protocol # "modbus"
      /\ ltold' = ltold /\ subscribed' = subscribed /\ pending = << >>
  BY DEF MessageDone
<1>2. /\ lconf \in ListenConfigs /\ handled \in Seq(Handled) /\ events \in Seq(Readings)
      /\ pending \in Seq(Signalled) /\ failedRead \in BOOLEAN /\ message \in Messages
      /\ ConnectedMeansSubscribed
  BY <1>1 DEF ListenInv, ListenTypes, Halfway
<1>3. PICK done : HalfRead(done, pending, message, events, handled)
  BY <1>1 DEF ListenInv, Halfway
<1>4. /\ done \in Seq(Signalled) /\ Matched(message) = done \o << >>
      /\ events = ExpectedOf(handled) \o Values(Reads(done, message))
  BY <1>1, <1>3 DEF HalfRead
<1>5. Matched(message) = done
  BY <1>4, ConcatEmptySeq
<1>6. Handled = Messages /\ handled \in Seq(Messages)
  BY <1>1, <1>2 DEF Handled
<1>7. h \in Seq(Handled)
  BY <1>2, <1>6
<1>8. events = ExpectedOf(h)
  <2>1. events = Joint(handled) \o EventsOf(message)
    BY <1>1, <1>4, <1>5, Zenon DEF ExpectedOf, EventsOf
  <2>2. Joint(h) = Joint(handled) \o EventsOf(message)
    BY <1>2, <1>6, JointAppend
  <2> QED BY <1>1, <2>1, <2>2, Zenon DEF ExpectedOf
<1>9. ConnectedMeansSubscribed'
  BY <1>1, <1>2, ProtocolStays DEF ConnectedMeansSubscribed
<1>10. lphase' # "borrowed" /\ lphase' # "process"
  BY <1>1
<1> HIDE DEF h
<1> QED BY <1>1, <1>2, <1>7, <1>8, <1>9, <1>10, ListenKept, Zenon

\* A round is done.
LEMMA RoundKeeps ==
  ASSUME ListenInv, PollDone
  PROVE  ListenInv'
<1>1. /\ lconf' = lconf /\ handled' = handled /\ events' = events /\ pending' = pending /\ message' = message
      /\ failedRead' = failedRead /\ lphase' \in {"wait", "listen"} /\ Protocol = "modbus"
  BY DEF PollDone
<1>2. /\ handled \in Seq(Handled) /\ events \in Seq(Readings) /\ pending \in Seq(Signalled)
      /\ failedRead \in BOOLEAN /\ events = ExpectedOf(handled)
  BY <1>1 DEF ListenInv, ListenTypes, UpToDate
<1>3. ConnectedMeansSubscribed'
  BY <1>1, ProtocolStays DEF ConnectedMeansSubscribed
<1>4. lphase' # "borrowed" /\ lphase' # "process"
  BY <1>1
<1> QED BY <1>1, <1>2, <1>3, <1>4, ListenKept, Zenon

LEMMA ListenPreserves == ListenInv /\ [ListenNext]_listenVars => ListenInv'
<1> SUFFICES ASSUME ListenInv, [ListenNext]_listenVars PROVE ListenInv'
  OBVIOUS
<1>1. ASSUME NEW m \in Messages, Receives(m) PROVE ListenInv'
  BY <1>1, ReceiveKeeps
<1>2. ASSUME NEW m \in Messages, PollRegister(m) PROVE ListenInv'
  BY <1>2, RegisterKeeps
<1>3. CASE UNCHANGED listenVars
  <2>1. /\ UNCHANGED <<lconf, pending, message, handled, events, failedRead>>
        /\ lphase' = lphase /\ ltold' = ltold /\ subscribed' = subscribed
    BY <1>3 DEF listenVars
  <2>2. Protocol' = Protocol
    BY <2>1, ProtocolStays
  <2>3. ConnectedMeansSubscribed' /\ (lphase' = "borrowed" => Protocol = "modbus")
    BY <2>1, <2>2 DEF ListenInv, ConnectedMeansSubscribed
  <2> QED BY <2>1, <2>3, QuietListening
<1> QED BY <1>1, <1>2, <1>3, ConnectsQuietly, BeginsKeeps, EmitKeeps, MessageKeeps, RoundKeeps, Zenon
        DEF ListenNext, ListenStep

LEMMA ListenInvIsSound == ListenInv => SignalSound
<1> SUFFICES ASSUME ListenInv PROVE SignalSound
  OBVIOUS
<1>1. EventsAreTheSignals
  BY ExpectedIs DEF ListenInv, UpToDate, EventsAreTheSignals
<1>2. RoundVerdict
  <2> SUFFICES ASSUME lphase = "process", pending = << >>, Protocol = "modbus"
               PROVE  failedRead <=> SomeFailed(handled, Len(lconf.signals))
    BY Zenon DEF RoundVerdict, SomeFailed, Decodable
  <2>1. PICK done : PartRead(done, pending, failedRead, handled)
    BY DEF ListenInv, PartWay
  <2>2. /\ done \in Seq(Signalled) /\ lconf.signals = done \o << >>
        /\ (failedRead <=> SomeFailed(handled, Len(done)))
    BY <2>1, Zenon DEF PartRead
  <2>3. lconf.signals = done
    BY <2>2, ConcatEmptySeq
  <2> QED BY <2>2, <2>3, Zenon
<1> QED BY <1>1, <1>2 DEF ListenInv, SignalSound

\* Whatever the listeners of device signals receive: between two messages the
\* events are those of every signal that matches and can be decoded, in order; a
\* round of the poll counts as failed if and only if one of its reads failed; and
\* an MQTT connection that counts as good is subscribed (device_event_trigger).
THEOREM SignalsAreSound == ListenSpec => []SignalSound
<1>1. ListenInv /\ [ListenNext]_listenVars => ListenInv'
  BY ListenPreserves
<1>2. ListenInv => SignalSound
  BY ListenInvIsSound
<1> QED BY <1>1, <1>2, ListenStarts, PTL DEF ListenSpec

-----------------------------------------------------------------------------
(* Capability calls (CapabilityCall): quotients, rests and powers of the base. *)
\* A number written to a base: quotient and rest, and they determine it.
LEMMA QuotientAndRest ==
  ASSUME NEW w \in Int, NEW b \in Nat \ {0}
  PROVE  w \div b \in Int /\ w % b \in 0..(b - 1) /\ w = b * (w \div b) + (w % b)
  OBVIOUS
LEMMA OneQuotient ==
  ASSUME NEW w \in Int, NEW b \in Nat \ {0}, NEW q \in Int, NEW r \in 0..(b - 1), w = b * q + r
  PROVE  w \div b = q /\ w % b = r
  OBVIOUS
LEMMA TimesPositive ==
  ASSUME NEW a \in Nat \ {0}, NEW b \in Nat \ {0} PROVE a * b \in Nat \ {0}
  OBVIOUS

\* Dividing twice is dividing by the product ...
LEMMA DividedTwice ==
  ASSUME NEW v \in Int, NEW b \in Nat \ {0}, NEW p \in Nat \ {0}
  PROVE  (v \div p) \div b = v \div (b * p)
<1> DEFINE w == v \div p
           r == v % p
           q == w \div b
           s == w % b
<1>1. w \in Int /\ r \in 0..(p - 1) /\ v = p * w + r
  BY QuotientAndRest
<1>2. q \in Int /\ s \in 0..(b - 1) /\ w = b * q + s
  BY <1>1, QuotientAndRest
<1> HIDE DEF w, r, q, s
<1>3. v = (b * p) * q + (p * s + r)
  BY <1>1, <1>2
<1>4. p * s + r \in 0..(b * p - 1)
  <2>1. p * s \in Nat /\ p * s <= p * (b - 1)
    BY <1>2
  <2>2. p * (b - 1) = b * p - p
    OBVIOUS
  <2>3. b * p \in Int
    OBVIOUS
  <2> QED BY <1>1, <2>1, <2>2, <2>3
<1>5. v \div (b * p) = q
  BY <1>2, <1>3, <1>4, TimesPositive, OneQuotient
<1> QED BY <1>5 DEF w, q

\* ... and the rest by the product is put together from both rests.
LEMMA RestOfProduct ==
  ASSUME NEW w \in Int, NEW b \in Nat \ {0}, NEW p \in Nat \ {0}
  PROVE  ((w \div b) % p) * b + (w % b) = w % (b * p)
<1> DEFINE x == w \div b
           r == w % b
           q == x \div p
           s == x % p
<1>1. x \in Int /\ r \in 0..(b - 1) /\ w = b * x + r
  BY QuotientAndRest
<1>2. q \in Int /\ s \in 0..(p - 1) /\ x = p * q + s
  BY <1>1, QuotientAndRest
<1> HIDE DEF x, r, q, s
<1>3. w = (b * p) * q + (s * b + r)
  BY <1>1, <1>2
<1>4. s * b + r \in 0..(b * p - 1)
  <2>1. s * b \in Nat /\ s * b <= (p - 1) * b
    BY <1>2
  <2>2. (p - 1) * b = b * p - b
    OBVIOUS
  <2>3. b * p \in Int
    OBVIOUS
  <2> QED BY <1>1, <2>1, <2>2, <2>3
<1>5. w % (b * p) = s * b + r
  BY <1>2, <1>3, <1>4, TimesPositive, OneQuotient
<1> QED BY <1>5 DEF x, r, s

\* What n bytes tell apart.
LEMMA Powers ==
  /\ Power[0] = 1 /\ \A n \in 1..8 : Power[n] = Base * Power[n - 1]
  /\ \A n \in 0..8 : Power[n] \in Nat \ {0}
<1> DEFINE A == Nat \ {0}
           g == [p \in (1..8) \X A |-> Base * p[2]]
           Eq(h) == h = [n \in 0..8 |-> IF n = 0 THEN 1 ELSE Base * h[n - 1]]
<1>1. Base \in A
  BY CapAssumption
<1>2. \A x \in A : Base * x \in A
  BY <1>1, TimesPositive
<1>3. g \in [(1..8) \X A -> A] /\ 1 \in A /\ 8 \in Nat
  BY <1>2
<1>4. \A i \in 1..8 : \A x \in A : g[<<i, x>>] = Base * x
  OBVIOUS
<1> HIDE DEF g, A
<1>5. PICK h \in [0..8 -> A] : h[0] = 1 /\ \A i \in 1..8 : h[i] = g[<<i, h[i - 1]>>]
  <2>1. PICK h : Solution(h, 8, A, 1, g)
    BY <1>3, Recursion, Zenon
  <2> QED BY <2>1 DEF Solution
<1>6. Eq(h)
  <2>1. ASSUME NEW n \in 0..8 PROVE h[n] = IF n = 0 THEN 1 ELSE Base * h[n - 1]
    <3>1. CASE n = 0
      BY <1>5, <3>1
    <3>2. CASE n # 0
      <4>1. n \in 1..8 /\ n - 1 \in 0..8
        BY <3>2
      <4>2. h[n - 1] \in A
        BY <4>1
      <4> QED BY <1>4, <1>5, <3>2, <4>1, <4>2
    <3> QED BY <3>1, <3>2
  <2> QED BY <2>1
<1>7. Power = [n \in 0..8 |-> IF n = 0 THEN 1 ELSE Base * Power[n - 1]]
  <2> DEFINE u == CHOOSE x : Eq(x)
  <2>1. Eq(u)
    BY <1>6, Zenon
  <2>2. Power = u
    BY DEF Power
  <2> HIDE DEF u
  <2> QED BY <2>1, <2>2
<1>8. Power[0] = 1 /\ \A n \in 1..8 : Power[n] = Base * Power[n - 1]
  <2>1. \A n \in 0..8 : Power[n] = IF n = 0 THEN 1 ELSE Base * Power[n - 1]
    BY <1>7, Zenon
  <2>2. 0 \in 0..8 /\ \A i \in 1..8 : i \in 0..8 /\ i # 0
    OBVIOUS
  <2> QED BY <2>1, <2>2, Zenon
<1>9. \A n \in 0..8 : Power[n] \in A
  <2> DEFINE S == {n \in 0..8 : Power[n] \in A}
  <2>1. 0 \in S
    BY <1>3, <1>8
  <2>2. ASSUME NEW i \in 1..8, i - 1 \in S PROVE i \in S
    <3>1. Power[i - 1] \in A /\ i \in 0..8 /\ Power[i] = Base * Power[i - 1]
      BY <1>8, <2>2
    <3>2. Power[i] \in A
      BY <1>2, <3>1, Zenon
    <3> QED BY <3>1, <3>2
  <2>3. \A n \in 0..8 : n \in S
    <3> HIDE DEF S
    <3> QED BY <2>1, <2>2, StepByStep
  <2> QED BY <2>3
<1> QED BY <1>8, <1>9 DEF A
LEMMA BaseIs == Base \in Nat \ {0} /\ Base > 1
  BY CapAssumption
LEMMA PowerIs ==
  ASSUME NEW n \in 0..8 PROVE Power[n] \in Nat \ {0}
  BY Powers
LEMMA PowerStep ==
  ASSUME NEW n \in 1..8 PROVE Power[n] = Base * Power[n - 1]
  BY Powers
LEMMA PowersFew == Power[0] = 1 /\ Power[1] = Base
<1>1. Power[0] = 1
  BY Powers, Zenon
<1>2. 1 \in 1..8 /\ 1 - 1 = 0 /\ Base * 1 = Base
  BY BaseIs
<1>3. Power[1] = Base * Power[1 - 1]
  BY <1>2, PowerStep, Zenon
<1> QED BY <1>1, <1>2, <1>3

-----------------------------------------------------------------------------
(* Numbers and their bytes. *)
\* The value of a sequence of bytes, byte by byte.
LEMMA UnsignedPrefixes ==
  ASSUME NEW s \in Seq(Nat)
  PROVE  \E f \in [0..Len(s) -> Nat] :
           /\ f[0] = 0 /\ \A i \in 1..Len(s) : f[i] = f[i - 1] * Base + s[i]
           /\ Unsigned(s) = f[Len(s)]
<1> DEFINE N == Len(s)
           g == [p \in (1..N) \X Nat |-> p[2] * Base + s[p[1]]]
           Eq(h) == h = [i \in 0..N |-> IF i = 0 THEN 0 ELSE h[i - 1] * Base + s[i]]
           u == CHOOSE h : Eq(h)
<1>1. N \in Nat /\ \A i \in 1..N : s[i] \in Nat
  OBVIOUS
<1> HIDE DEF N
<1>2. \A x, y \in Nat : x * Base + y \in Nat
  BY BaseIs
<1>3. g \in [(1..N) \X Nat -> Nat] /\ 0 \in Nat
  BY <1>1, <1>2
<1>4. \A i \in 1..N : \A x \in Nat : g[<<i, x>>] = x * Base + s[i]
  OBVIOUS
<1> HIDE DEF g
<1>5. PICK h \in [0..N -> Nat] : h[0] = 0 /\ \A i \in 1..N : h[i] = g[<<i, h[i - 1]>>]
  <2>1. PICK h : Solution(h, N, Nat, 0, g)
    BY <1>1, <1>3, Recursion, Zenon
  <2> QED BY <2>1 DEF Solution
<1>6. Eq(h)
  <2>1. ASSUME NEW n \in 0..N PROVE h[n] = IF n = 0 THEN 0 ELSE h[n - 1] * Base + s[n]
    <3>1. CASE n = 0
      BY <1>5, <3>1
    <3>2. CASE n # 0
      <4>1. n \in 1..N /\ n - 1 \in 0..N
        BY <1>1, <3>2
      <4>2. h[n - 1] \in Nat
        BY <4>1
      <4>3. h[n] = h[n - 1] * Base + s[n]
        BY <1>4, <1>5, <4>1, <4>2, Zenon
      <4> QED BY <3>2, <4>3, Zenon
    <3> QED BY <3>1, <3>2
  <2> QED BY <2>1
<1>7. Eq(u)
  BY <1>6, Zenon
<1> HIDE DEF u
<1>8. u[0] = 0 /\ \A i \in 1..N : u[i] = u[i - 1] * Base + s[i]
  <2>1. \A n \in 0..N : u[n] = IF n = 0 THEN 0 ELSE u[n - 1] * Base + s[n]
    BY <1>7, Zenon
  <2>2. 0 \in 0..N /\ \A i \in 1..N : i \in 0..N /\ i # 0
    BY <1>1
  <2> QED BY <2>1, <2>2, Zenon
<1>9. \A i \in 0..N : u[i] \in Nat
  <2> DEFINE S == {i \in 0..N : u[i] \in Nat}
  <2>1. 0 \in S
    BY <1>1, <1>8
  <2>2. ASSUME NEW i \in 1..N, i - 1 \in S PROVE i \in S
    <3>1. u[i - 1] \in Nat /\ i \in 0..N /\ u[i] = u[i - 1] * Base + s[i] /\ s[i] \in Nat
      BY <1>1, <1>8, <2>2
    <3>2. u[i] \in Nat
      BY <1>2, <3>1, Zenon
    <3> QED BY <3>1, <3>2
  <2>3. \A i \in 0..N : i \in S
    <3> HIDE DEF S
    <3> QED BY <1>1, <2>1, <2>2, StepByStep
  <2> QED BY <2>3
<1>10. u \in [0..N -> Nat]
  BY <1>7, <1>9
<1>11. Unsigned(s) = u[N]
  BY DEF Unsigned, u, N
<1> QED BY <1>8, <1>10, <1>11 DEF N

LEMMA BytesAreBytes ==
  ASSUME NEW v \in Int, NEW n \in 0..8
  PROVE  /\ Bytes(v, n) \in Seq(0..(Base - 1)) /\ Bytes(v, n) \in Seq(Nat) /\ Len(Bytes(v, n)) = n
         /\ \A i \in 1..n : Bytes(v, n)[i] = (v \div Power[n - i]) % Base
<1>1. ASSUME NEW i \in 1..n PROVE (v \div Power[n - i]) % Base \in 0..(Base - 1)
  <2>1. n - i \in 0..8
    OBVIOUS
  <2>2. Power[n - i] \in Nat \ {0} /\ Base \in Nat \ {0}
    BY <2>1, PowerIs, BaseIs
  <2>3. v \div Power[n - i] \in Int
    BY <2>2, QuotientAndRest
  <2> QED BY <2>2, <2>3, QuotientAndRest
<1> DEFINE s == Bytes(v, n)
<1>2. s = [i \in 1..n |-> (v \div Power[n - i]) % Base]
  BY DEF Bytes
<1> HIDE DEF s
<1>3. s \in [1..n -> 0..(Base - 1)] /\ \A i \in 1..n : s[i] = (v \div Power[n - i]) % Base
  BY <1>1, <1>2, Zenon
<1>4. s \in Seq(0..(Base - 1)) /\ Len(s) = n
  <2>1. n \in Nat /\ DOMAIN s = 1..n
    BY <1>3
  <2>2. s \in Seq(0..(Base - 1))
    <3> DEFINE A == 0..(Base - 1)
    <3>1. s \in [1..n -> A]
      BY <1>3
    <3> HIDE DEF A
    <3>2. s \in Seq(A)
      BY <2>1, <3>1
    <3> QED BY <3>2 DEF A
  <2> QED BY <2>1, <2>2
<1>5. s \in Seq(Nat)
  BY <1>4, CapAssumption
<1> QED BY <1>3, <1>4, <1>5 DEF s

\* The bytes of a number give the number back, but for what they cannot tell.
LEMMA BytesBack ==
  ASSUME NEW v \in Int, NEW n \in 0..8
  PROVE  Unsigned(Bytes(v, n)) = v % Power[n]
<1> DEFINE s == Bytes(v, n)
<1>1. /\ s \in Seq(Nat) /\ Len(s) = n
      /\ \A i \in 1..n : s[i] = (v \div Power[n - i]) % Base
  BY BytesAreBytes
<1> HIDE DEF s
<1>2. PICK f \in [0..n -> Nat] :
        /\ f[0] = 0 /\ \A i \in 1..n : f[i] = f[i - 1] * Base + s[i]
        /\ Unsigned(s) = f[n]
  BY <1>1, UnsignedPrefixes
<1> DEFINE S == {i \in 0..n : f[i] = (v \div Power[n - i]) % Power[i]}
<1>3. 0 \in S
  <2>1. n - 0 = n /\ 0 \in 0..n
    OBVIOUS
  <2>2. Power[n] \in Nat \ {0} /\ Power[0] = 1
    BY PowerIs, PowersFew
  <2>3. \A w \in Int : w % 1 = 0
    OBVIOUS
  <2>4. v \div Power[n] \in Int
    BY <2>2, QuotientAndRest
  <2> QED BY <1>2, <2>1, <2>2, <2>3, <2>4
<1>4. ASSUME NEW i \in 1..n, i - 1 \in S PROVE i \in S
  <2> DEFINE p == Power[n - i]
             q == Power[i - 1]
             w == v \div p
  <2>1. /\ i \in 0..n /\ n - i \in 0..8 /\ n - (i - 1) \in 1..8 /\ (n - (i - 1)) - 1 = n - i
        /\ i \in 1..8 /\ i - 1 \in 0..8
    OBVIOUS
  <2>2. p \in Nat \ {0} /\ q \in Nat \ {0} /\ Base \in Nat \ {0}
    BY <2>1, PowerIs, BaseIs
  <2>3. Power[n - (i - 1)] = Base * p /\ Power[i] = Base * q
    BY <2>1, PowerStep
  <2>4. w \in Int
    BY <2>2, QuotientAndRest
  <2>5. v \div Power[n - (i - 1)] = w \div Base
    <3>1. v \div (Base * p) = w \div Base
      BY <2>2, DividedTwice
    <3> QED BY <2>3, <3>1, Zenon
  <2>6. f[i - 1] = (w \div Base) % q
    BY <1>4, <2>5
  <2>7. f[i] = f[i - 1] * Base + s[i] /\ s[i] = w % Base
    BY <1>1, <1>2
  <2> HIDE DEF p, q, w
  <2>8. f[i] = ((w \div Base) % q) * Base + (w % Base)
    BY <2>6, <2>7, Zenon
  <2>9. f[i] = w % (Base * q)
    BY <2>2, <2>4, <2>8, RestOfProduct
  <2>10. f[i] = (v \div Power[n - i]) % Power[i]
    BY <2>3, <2>9, Zenon DEF w, p
  <2> QED BY <2>1, <2>10
<1>5. n \in S
  <2>1. \A i \in 0..n : i \in S
    <3>1. n \in Nat
      OBVIOUS
    <3> HIDE DEF S
    <3> QED BY <1>3, <1>4, <3>1, StepByStep
  <2> QED BY <2>1
<1>6. n - n = 0 /\ Power[0] = 1 /\ v \div 1 = v
  BY PowersFew
<1>7. f[n] = v % Power[n]
  BY <1>5, <1>6
<1> QED BY <1>2, <1>7 DEF s

\* Two bytes are those of their value.
LEMMA PairIsBytes ==
  ASSUME NEW s \in Seq(0..(Base - 1)), Len(s) = 2
  PROVE  Unsigned(s) \in Nat /\ Bytes(Unsigned(s), 2) = s
<1>1. s \in Seq(Nat) /\ s[1] \in 0..(Base - 1) /\ s[2] \in 0..(Base - 1) /\ Base \in Nat \ {0}
  <2>1. Base \in Nat \ {0} /\ 0..(Base - 1) \subseteq Nat
    BY BaseIs
  <2>2. s \in Seq(Nat)
    BY <2>1, SeqMonotonic, Zenon
  <2>3. s[1] \in 0..(Base - 1) /\ s[2] \in 0..(Base - 1)
    <3> DEFINE A == 0..(Base - 1)
    <3>1. s \in Seq(A) /\ 1 \in 1..Len(s) /\ 2 \in 1..Len(s)
      OBVIOUS
    <3> HIDE DEF A
    <3>2. s[1] \in A /\ s[2] \in A
      BY <3>1, ElementOfSeq, Zenon
    <3> QED BY <3>2 DEF A
  <2> QED BY <2>1, <2>2, <2>3
<1>2. PICK f \in [0..2 -> Nat] :
        /\ f[0] = 0 /\ \A i \in 1..2 : f[i] = f[i - 1] * Base + s[i]
        /\ Unsigned(s) = f[2]
  BY <1>1, UnsignedPrefixes
<1>3. f[1] = s[1]
  BY <1>1, <1>2
<1>4. Unsigned(s) = Base * s[1] + s[2]
  <2>1. f[2] = f[1] * Base + s[2]
    BY <1>2
  <2> QED BY <1>1, <1>2, <1>3, <2>1
<1> DEFINE u == Unsigned(s)
<1>5. u \in Nat
  BY <1>2
<1> HIDE DEF u
<1>6. u \div Base = s[1] /\ u % Base = s[2]
  BY <1>1, <1>4, <1>5, OneQuotient, SMTT(60) DEF u
<1>7. Power[0] = 1 /\ Power[1] = Base
  BY PowersFew
<1>8. /\ Bytes(u, 2) \in Seq(0..(Base - 1)) /\ Len(Bytes(u, 2)) = 2
      /\ \A i \in 1..2 : Bytes(u, 2)[i] = (u \div Power[2 - i]) % Base
  <2>1. u \in Int /\ 2 \in 0..8
    BY <1>5
  <2> QED BY <2>1, BytesAreBytes, Zenon
<1>9. Bytes(u, 2)[1] = s[1]
  <2>1. Bytes(u, 2)[1] = (u \div Power[1]) % Base
    <3>1. 1 \in 1..2 /\ 2 - 1 = 1
      OBVIOUS
    <3> QED BY <1>8, <3>1, Zenon
  <2>2. Bytes(u, 2)[1] = s[1] % Base
    BY <1>6, <1>7, <2>1, Zenon
  <2>3. \A x \in 0..(Base - 1) : x % Base = x
    BY BaseIs
  <2> QED BY <1>1, <2>2, <2>3, Zenon
<1>10. Bytes(u, 2)[2] = s[2]
  <2>1. Bytes(u, 2)[2] = (u \div Power[0]) % Base
    <3>1. 2 \in 1..2 /\ 2 - 2 = 0
      OBVIOUS
    <3> QED BY <1>8, <3>1, Zenon
  <2>2. u \div 1 = u
    BY <1>5
  <2> QED BY <1>6, <1>7, <2>1, <2>2
<1>11. Bytes(u, 2) = s
  <2>1. \A i \in 1..Len(s) : Bytes(u, 2)[i] = s[i]
    BY <1>9, <1>10
  <2> QED BY <1>8, <2>1, SeqEqual
<1> QED BY <1>5, <1>11 DEF u

-----------------------------------------------------------------------------
(* Sequences turned round and joined. *)
\* Sequences joined into one, one after the other.
LEMMA Flattened ==
  ASSUME NEW S, NEW N \in Nat, NEW ss \in [1..N -> Seq(S)]
  PROVE  \E f \in [0..N -> Seq(S)] :
           /\ f[0] = << >> /\ \A i \in 1..N : f[i] = f[i - 1] \o ss[i]
           /\ Seqs!FlattenSeq(ss) = f[N]
<1> DEFINE A == Seq(S)
           g == [p \in (1..N) \X A |-> p[2] \o ss[p[1]]]
           Eq(h) == h = [i \in 1..N |-> IF i = 1 THEN ss[i] ELSE h[i - 1] \o ss[i]]
           u == CHOOSE h : Eq(h)
<1>1. /\ << >> \in A /\ \A x, y \in A : x \o y \in A
      /\ \A x \in A : << >> \o x = x
      /\ \A i \in 1..N : ss[i] \in A
  OBVIOUS
<1>2. Len(ss) = N /\ (N = 0 => ss = << >>)
  OBVIOUS
<1> HIDE DEF A
<1>3. g \in [(1..N) \X A -> A] /\ \A i \in 1..N : \A x \in A : g[<<i, x>>] = x \o ss[i]
  BY <1>1
<1> HIDE DEF g
<1>4. PICK f \in [0..N -> A] : f[0] = << >> /\ \A i \in 1..N : f[i] = g[<<i, f[i - 1]>>]
  <2>1. PICK h : Solution(h, N, A, << >>, g)
    BY <1>1, <1>3, Recursion, Zenon
  <2> QED BY <2>1 DEF Solution
<1>5. \A i \in 1..N : f[i] = f[i - 1] \o ss[i]
  <2> SUFFICES ASSUME NEW i \in 1..N PROVE f[i] = f[i - 1] \o ss[i]
    OBVIOUS
  <2>1. i - 1 \in 0..N
    OBVIOUS
  <2>2. f[i - 1] \in A
    BY <2>1
  <2> QED BY <1>3, <1>4, <2>2, Zenon
<1>6. CASE N = 0
  <2>1. Seqs!FlattenSeq(ss) = f[N]
    BY <1>2, <1>4, <1>6 DEF Seqs!FlattenSeq
  <2> QED BY <1>4, <1>5, <2>1 DEF A
<1>7. CASE N # 0
  <2> DEFINE h == [i \in 1..N |-> f[i]]
  <2>1. Eq(h)
    <3>1. ASSUME NEW n \in 1..N PROVE h[n] = IF n = 1 THEN ss[n] ELSE h[n - 1] \o ss[n]
      <4>1. CASE n = 1
        <5>1. f[1] = << >> \o ss[1]
          <6>1. 1 \in 1..N /\ 1 - 1 = 0
            BY <4>1
          <6> QED BY <1>4, <1>5, <6>1
        <5> QED BY <1>1, <4>1, <5>1
      <4>2. CASE n # 1
        <5>1. n - 1 \in 1..N
          BY <4>2
        <5> QED BY <1>5, <4>2, <5>1
      <4> QED BY <4>1, <4>2
    <3> QED BY <3>1
  <2>2. Eq(u)
    BY <2>1, Zenon
  <2>3. Seqs!FlattenSeq(ss) = u[N]
    BY <1>2, <1>7 DEF Seqs!FlattenSeq
  <2> HIDE DEF u
  <2> DEFINE T == {i \in 0..N : i = 0 \/ u[i] = f[i]}
  <2>4. \A i \in 1..N : u[i] = IF i = 1 THEN ss[i] ELSE u[i - 1] \o ss[i]
    BY <2>2, Zenon
  <2>5. 0 \in T
    OBVIOUS
  <2>6. ASSUME NEW i \in 1..N, i - 1 \in T PROVE i \in T
    <3>1. CASE i = 1
      <4>1. f[1] = << >> \o ss[1]
        <5>1. 1 \in 1..N /\ 1 - 1 = 0
          BY <3>1
        <5> QED BY <1>4, <1>5, <5>1
      <4> QED BY <1>1, <2>4, <3>1, <4>1
    <3>2. CASE i # 1
      <4>1. i - 1 # 0 /\ i \in 0..N
        BY <3>2
      <4>2. u[i - 1] = f[i - 1]
        BY <2>6, <4>1
      <4>3. u[i] = f[i]
        BY <1>5, <2>4, <3>2, <4>2, Zenon
      <4> QED BY <4>1, <4>3
    <3> QED BY <3>1, <3>2
  <2>7. \A i \in 0..N : i \in T
    <3> HIDE DEF T
    <3> QED BY <2>5, <2>6, StepByStep
  <2>8. u[N] = f[N]
    BY <1>7, <2>7
  <2> QED BY <1>4, <1>5, <2>3, <2>8 DEF A
<1> QED BY <1>6, <1>7

\* A sequence turned around twice is the sequence.
LEMMA TurnedTwice ==
  ASSUME NEW S, NEW s \in Seq(S)
  PROVE  /\ Seqs!Reverse(s) \in Seq(S) /\ Len(Seqs!Reverse(s)) = Len(s)
         /\ Seqs!Reverse(Seqs!Reverse(s)) = s
<1> DEFINE L == Len(s)
           r == Seqs!Reverse(s)
           t == Seqs!Reverse(r)
<1>1. L \in Nat /\ \A i \in 1..L : s[i] \in S /\ (L - i) + 1 \in 1..L /\ (L - ((L - i) + 1)) + 1 = i
  OBVIOUS
<1>2. r = [i \in 1..L |-> s[(L - i) + 1]]
  BY DEF Seqs!Reverse
<1> HIDE DEF L, r
<1>3. r \in [1..L -> S] /\ \A i \in 1..L : r[i] = s[(L - i) + 1]
  BY <1>1, <1>2
<1>4. r \in Seq(S) /\ Len(r) = L
  BY <1>1, <1>3
<1>5. t = [i \in 1..L |-> r[(L - i) + 1]]
  BY <1>4 DEF Seqs!Reverse
<1> HIDE DEF t
<1>6. t \in Seq(S) /\ Len(t) = L /\ \A i \in 1..L : t[i] = s[i]
  <2>1. \A i \in 1..L : t[i] = s[i]
    BY <1>1, <1>3, <1>5
  <2>2. t \in [1..L -> S]
    BY <1>1, <1>3, <1>5
  <2> QED BY <1>1, <2>1, <2>2
<1>7. t = s
  BY <1>6, SeqEqual DEF L
<1> QED BY <1>4, <1>7 DEF r, t, L

\* Cut into pairs and joined again.
LEMMA PairsJoined ==
  ASSUME NEW S, NEW s \in Seq(S), NEW m \in Nat, Len(s) = 2 * m
  PROVE  Seqs!FlattenSeq([i \in 1..m |-> SubSeq(s, 2 * i - 1, 2 * i)]) = s
<1> DEFINE ss == [i \in 1..m |-> SubSeq(s, 2 * i - 1, 2 * i)]
           cut(n) == SubSeq(s, 1, n)
<1>1. ASSUME NEW i \in 1..m
      PROVE  SubSeq(s, 2 * i - 1, 2 * i) \in Seq(S) /\ cut(2 * (i - 1)) \o SubSeq(s, 2 * i - 1, 2 * i) = cut(2 * i)
  <2> DEFINE k == 2 * (i - 1)
             n == 2 * i
  <2>1. /\ 1 \in 1..(Len(s) + 1) /\ k \in (1 - 1)..Len(s) /\ n \in k..Len(s)
        /\ k + 1 = 2 * i - 1 /\ n \in Int /\ k + 1 \in Int
        /\ \A j \in (k + 1)..n : j \in 1..Len(s)
    OBVIOUS
  <2> HIDE DEF k, n
  <2>2. SubSeq(s, 1, k) \o SubSeq(s, k + 1, n) = SubSeq(s, 1, n)
    BY <2>1, ConcatAdjacentSubSeq
  <2>3. \A j \in (k + 1)..n : s[j] \in S
    BY <2>1, ElementOfSeq, Zenon
  <2>4. SubSeq(s, k + 1, n) \in Seq(S)
    BY <2>1, <2>3, SubSeqProperties
  <2> QED BY <2>1, <2>2, <2>4 DEF k, n
<1>2. ss \in [1..m -> Seq(S)] /\ \A i \in 1..m : ss[i] = SubSeq(s, 2 * i - 1, 2 * i)
  BY <1>1
<1> HIDE DEF ss
<1>3. PICK f \in [0..m -> Seq(S)] :
        /\ f[0] = << >> /\ \A i \in 1..m : f[i] = f[i - 1] \o ss[i]
        /\ Seqs!FlattenSeq(ss) = f[m]
  <2>1. ss \in [1..m -> Seq(S)] /\ m \in Nat
    BY <1>2
  <2>2. \E f \in [0..m -> Seq(S)] :
           /\ f[0] = << >> /\ \A i \in 1..m : f[i] = f[i - 1] \o ss[i]
           /\ Seqs!FlattenSeq(ss) = f[m]
    BY <2>1, Flattened
  <2> QED BY <2>2
<1> DEFINE T == {i \in 0..m : f[i] = cut(2 * i)}
<1>4. 0 \in T
  <2>1. SubSeq(s, 1, 0) = << >>
    OBVIOUS
  <2>2. 2 * 0 = 0 /\ 0 \in 0..m
    OBVIOUS
  <2> QED BY <1>3, <2>1, <2>2
<1>5. ASSUME NEW i \in 1..m, i - 1 \in T PROVE i \in T
  <2>1. f[i - 1] = cut(2 * (i - 1)) /\ i \in 0..m
    BY <1>5
  <2>2. f[i] = f[i - 1] \o SubSeq(s, 2 * i - 1, 2 * i)
    BY <1>2, <1>3, Zenon
  <2>3. f[i] = cut(2 * i)
    BY <1>1, <2>1, <2>2, Zenon
  <2> QED BY <2>1, <2>3
<1>6. m \in T
  <2>1. \A i \in 0..m : i \in T
    <3> HIDE DEF T
    <3> QED BY <1>4, <1>5, StepByStep
  <2> QED BY <2>1, SMTT(60)
<1>7. f[m] = cut(Len(s))
  BY <1>6
<1> QED BY <1>3, <1>7, SubSeqFull DEF ss

-----------------------------------------------------------------------------
(* What is encoded decodes to the same value. *)
LEMMA WidthIs ==
  ASSUME NEW type \in Types
  PROVE  /\ Width(type) \in {2, 4, 8} /\ Width(type) \div 2 \in 1..4
         /\ Width(type) = 2 * (Width(type) \div 2)
         /\ Width(type) \in 0..8 /\ Width(type) # 0
  BY DEF Width, Types

\* What the bytes of a value mean in a type.
ValueIn(v, type) ==
  CASE type = "bool" -> <<IF v # 0 THEN 1 ELSE 0>>
    [] type \in {"i16", "i32"} -> <<IF 2 * v >= Power[Width(type)] THEN v - Power[Width(type)] ELSE v>>
    [] OTHER -> <<v>>

LEMMA DecodeIs ==
  ASSUME NEW type, NEW ord, NEW raw, Len(raw) = Width(type), Width(type) \in Nat
  PROVE  CapabilityDecode(raw, type, ord, -1)
           = ValueIn(Unsigned(IF LittleEndian(ord) THEN Seqs!Reverse(SubSeq(raw, 1, Width(type)))
                              ELSE SubSeq(raw, 1, Width(type))), type)
<1>1. ~(-1 >= 0) /\ ~(Len(raw) < Width(type))
  OBVIOUS
<1> QED BY <1>1, Zenon DEF CapabilityDecode, ValueIn

LEMMA ParsedBack ==
  ASSUME NEW type \in Types, NEW t \in Seq(Symbols), Parses(t, type)
  PROVE  t[1] \in Int /\ ValueIn(t[1] % Power[Width(type)], type) = t
<1> DEFINE P == Power[Width(type)]
           v == t[1]
<1>1. P \in Nat \ {0} /\ P > 1
  <2>1. Width(type) - 1 \in 0..8 /\ Width(type) \in 1..8
    BY WidthIs
  <2>2. P = Base * Power[Width(type) - 1] /\ Power[Width(type) - 1] \in Nat \ {0}
    BY <2>1, PowerStep, PowerIs
  <2> HIDE DEF P
  <2>3. \A p \in Nat \ {0} : Base * p >= Base /\ Base * p \in Int
    BY BaseIs
  <2> QED BY <2>2, <2>3, BaseIs
<1>2. v \in Int /\ t = <<v>>
  <2>1. Len(t) = 1 /\ v \in Int
    BY DEF Parses
  <2> QED BY <2>1
<1>3. /\ type = "bool" => v \in {0, 1}
      /\ type \in {"i16", "i32"} => v \in (0 - (P \div 2))..((P \div 2) - 1)
      /\ type \notin {"bool", "i16", "i32"} => v \in 0..(2 * (P \div 2) - 1)
  BY DEF Parses, Types
<1> HIDE DEF P, v
<1>4. CASE type = "bool"
  <2>1. v \in {0, 1} /\ v % P = v
    BY <1>1, <1>3, <1>4
  <2>2. ValueIn(v % P, type) = <<IF v # 0 THEN 1 ELSE 0>>
    BY <1>4, <2>1 DEF ValueIn
  <2>3. (IF v # 0 THEN 1 ELSE 0) = v
    BY <2>1
  <2> QED BY <1>2, <2>2, <2>3 DEF P, v
<1>5. CASE type \in {"i16", "i32"}
  <2>1. v \in (0 - (P \div 2))..((P \div 2) - 1)
    BY <1>3, <1>5
  <2>2. (IF 2 * (v % P) >= P THEN (v % P) - P ELSE v % P) = v
    <3>1. CASE v >= 0
      <4>1. v % P = v /\ ~(2 * v >= P)
        BY <1>1, <1>2, <2>1, <3>1
      <4> QED BY <4>1
    <3>2. CASE ~(v >= 0)
      <4>1. v + P \in 0..(P - 1) /\ v = P * (-1) + (v + P)
        BY <1>1, <1>2, <2>1, <3>2
      <4>2. v % P = v + P
        BY <1>1, <1>2, <4>1, OneQuotient, SMTT(60)
      <4>3. 2 * (v + P) >= P /\ (v + P) - P = v
        BY <1>1, <1>2, <2>1
      <4> QED BY <4>2, <4>3
    <3> QED BY <3>1, <3>2
  <2>3. ValueIn(v % P, type) = <<IF 2 * (v % P) >= P THEN (v % P) - P ELSE v % P>>
    BY <1>5 DEF ValueIn, P
  <2> QED BY <1>2, <2>2, <2>3 DEF P, v
<1>6. CASE type \notin {"bool", "i16", "i32"}
  <2>1. v \in 0..(2 * (P \div 2) - 1)
    BY <1>3, <1>6
  <2>2. v % P = v
    BY <1>1, <1>2, <2>1
  <2>3. ValueIn(v % P, type) = <<v % P>>
    BY <1>6 DEF ValueIn
  <2> QED BY <1>2, <2>2, <2>3 DEF P, v
<1> QED BY <1>4, <1>5, <1>6

\* The bytes of a value that parses decode to it, in either order.
LEMMA BytesDecode ==
  ASSUME NEW type \in Types, NEW t \in Seq(Symbols), Parses(t, type), NEW ord, NEW raw,
         raw = (IF LittleEndian(ord) THEN Seqs!Reverse(Bytes(t[1], Width(type))) ELSE Bytes(t[1], Width(type)))
  PROVE  CapabilityDecode(raw, type, ord, -1) = t
<1> DEFINE n == Width(type)
           v == t[1]
           s == Bytes(v, n)
           head == SubSeq(raw, 1, n)
<1>1. v \in Int /\ ValueIn(v % Power[n], type) = t /\ n \in 0..8
  BY ParsedBack, WidthIs
<1>2. s \in Seq(Nat) /\ Len(s) = n /\ Unsigned(s) = v % Power[n]
  BY <1>1, BytesAreBytes, BytesBack
<1> HIDE DEF n, v, s
<1>3. raw \in Seq(Nat) /\ Len(raw) = n /\ (IF LittleEndian(ord) THEN Seqs!Reverse(raw) ELSE raw) = s
  <2>1. raw = (IF LittleEndian(ord) THEN Seqs!Reverse(s) ELSE s)
    BY DEF s, v, n
  <2>2. Seqs!Reverse(s) \in Seq(Nat) /\ Len(Seqs!Reverse(s)) = n /\ Seqs!Reverse(Seqs!Reverse(s)) = s
    BY <1>2, TurnedTwice
  <2>3. CASE LittleEndian(ord)
    BY <2>1, <2>2, <2>3, Zenon
  <2>4. CASE ~LittleEndian(ord)
    BY <1>2, <2>1, <2>4, Zenon
  <2> QED BY <2>3, <2>4, Zenon
<1>4. head = raw
  BY <1>3, SubSeqFull
<1>5. CapabilityDecode(raw, type, ord, -1)
        = ValueIn(Unsigned(IF LittleEndian(ord) THEN Seqs!Reverse(head) ELSE head), type)
  <2>1. Len(raw) = Width(type) /\ Width(type) \in Nat
    BY <1>1, <1>3 DEF n
  <2> QED BY <2>1, DecodeIs, Zenon DEF n
<1>6. CapabilityDecode(raw, type, ord, -1) = ValueIn(v % Power[n], type)
  BY <1>2, <1>3, <1>4, <1>5, Zenon
<1> QED BY <1>1, <1>6, Zenon

-----------------------------------------------------------------------------
(* Words in registers and values in frames. *)
\* The words of a value, kept in registers, decode to it: high word first, or
\* one word only.
LEMMA WordsDecode ==
  ASSUME NEW type \in Types, NEW t \in Seq(Symbols), NEW ord,
         Width(type) = 2 \/ ~LittleEndian(ord), EncodeModbusWords(t, type, ord) # Bad
  PROVE  /\ Len(EncodeModbusWords(t, type, ord)) = Width(type) \div 2
         /\ CapabilityDecode(Seqs!FlattenSeq([i \in 1..(Width(type) \div 2) |->
                               Bytes(EncodeModbusWords(t, type, ord)[i], 2)]), type, "big", -1) = t
<1> DEFINE m == Width(type) \div 2
           v == t[1]
           big == Bytes(v, Width(type))
           pair(i) == SubSeq(big, 2 * i - 1, 2 * i)
           words == [i \in 1..m |-> Unsigned(pair(i))]
           sent == EncodeModbusWords(t, type, ord)
<1>1. Parses(t, type) /\ sent = IF LittleEndian(ord) THEN Seqs!Reverse(words) ELSE words
  BY DEF EncodeModbusWords
<1>2. v \in Int /\ m \in 1..4 /\ Width(type) = 2 * m /\ Width(type) \in 0..8
  BY <1>1, ParsedBack, WidthIs
<1>3. big \in Seq(0..(Base - 1)) /\ Len(big) = 2 * m
  <2>1. big \in Seq(0..(Base - 1)) /\ Len(big) = Width(type)
    BY <1>2, BytesAreBytes, Zenon
  <2> QED BY <1>2, <2>1
<1> HIDE DEF m, v, big
<1>4. ASSUME NEW i \in 1..m PROVE pair(i) \in Seq(0..(Base - 1)) /\ Len(pair(i)) = 2
  <2> DEFINE A == 0..(Base - 1)
             x == 2 * i - 1
             y == 2 * i
  <2>1. big \in Seq(A) /\ x \in Int /\ y \in Int /\ x <= y /\ y - x + 1 = 2 /\ \A j \in x..y : j \in 1..Len(big)
    BY <1>2, <1>3
  <2> HIDE DEF A, x, y
  <2>2. \A j \in x..y : big[j] \in A
    BY <2>1, ElementOfSeq, Zenon
  <2>3. SubSeq(big, x, y) \in Seq(A) /\ Len(SubSeq(big, x, y)) = IF x <= y THEN y - x + 1 ELSE 0
    BY <2>1, <2>2, SubSeqProperties, ZenonT(90)
  <2> QED BY <2>1, <2>3 DEF A, x, y
<1>5. ASSUME NEW i \in 1..m PROVE Unsigned(pair(i)) \in Nat /\ Bytes(Unsigned(pair(i)), 2) = pair(i)
  BY <1>4, PairIsBytes
<1> HIDE DEF pair
<1>6. words \in Seq(Nat) /\ Len(words) = m
  BY <1>2, <1>5
<1>7. sent = words
  <2>1. CASE LittleEndian(ord)
    <3>1. m = 1
      BY <1>2, <2>1
    <3>2. sent = [i \in 1..1 |-> words[(1 - i) + 1]]
      <4>1. sent = Seqs!Reverse(words)
        BY <1>1, <2>1
      <4>2. Seqs!Reverse(words) = [i \in 1..Len(words) |-> words[(Len(words) - i) + 1]]
        BY DEF Seqs!Reverse
      <4> HIDE DEF words
      <4> QED BY <1>6, <3>1, <4>1, <4>2, Zenon
    <3>3. \A i \in 1..1 : (1 - i) + 1 = i
      OBVIOUS
    <3>4. sent = [i \in 1..1 |-> words[i]]
      BY <3>2, <3>3
    <3>5. words = [i \in 1..1 |-> words[i]]
      BY <3>1
    <3> QED BY <3>4, <3>5, Zenon
  <2>2. CASE ~LittleEndian(ord)
    BY <1>1, <2>2
  <2> QED BY <2>1, <2>2
<1> DEFINE back == [i \in 1..m |-> Bytes(sent[i], 2)]
<1>8. back = [i \in 1..m |-> pair(i)]
  <2>1. \A i \in 1..m : sent[i] = Unsigned(pair(i))
    BY <1>7
  <2> HIDE DEF sent
  <2>2. \A i \in 1..m : Bytes(sent[i], 2) = pair(i)
    BY <1>5, <2>1
  <2> QED BY <2>2
<1>9. Seqs!FlattenSeq(back) = big
  <2>1. m \in Nat
    BY <1>2
  <2>2. Seqs!FlattenSeq([i \in 1..m |-> SubSeq(big, 2 * i - 1, 2 * i)]) = big
    BY <1>3, <2>1, PairsJoined
  <2> QED BY <1>8, <2>2, Zenon DEF pair
<1>10. CapabilityDecode(big, type, "big", -1) = t
  <2>1. big = IF LittleEndian("big") THEN Seqs!Reverse(Bytes(t[1], Width(type))) ELSE Bytes(t[1], Width(type))
    BY DEF LittleEndian, big, v
  <2> QED BY <1>1, <2>1, BytesDecode
<1>11. Len(sent) = m
  BY <1>6, <1>7
<1> HIDE DEF sent, back
<1>12. Len(sent) = m /\ CapabilityDecode(Seqs!FlattenSeq(back), type, "big", -1) = t
  BY <1>9, <1>10, <1>11, Zenon
<1> QED BY <1>12, Zenon DEF sent, back, m

LEMMA LargerIsZero ==
  ASSUME NEW x \in Int, x <= 0 PROVE Sets!Max({0, x}) = 0
<1> DEFINE P(y) == y \in {0, x} /\ \A z \in {0, x} : y >= z
<1>1. P(0) /\ \A y : P(y) => y = 0
  OBVIOUS
<1> QED BY <1>1 DEF Sets!Max
LEMMA SmallerIs ==
  ASSUME NEW x \in Nat, NEW y \in Nat
  PROVE  Sets!Min({x, y}) \in Nat /\ Sets!Min({x, y}) <= x /\ Sets!Min({x, y}) <= y
<1> DEFINE P(z) == z \in {x, y} /\ \A w \in {x, y} : z <= w
           c == CHOOSE z : P(z)
<1>1. \E z : P(z)
  <2>1. CASE x <= y
    <3>1. P(x)
      BY <2>1
    <3> QED BY <3>1
  <2>2. CASE ~(x <= y)
    <3>1. P(y)
      BY <2>2
    <3> QED BY <3>1
  <2> QED BY <2>1, <2>2
<1>2. P(c)
  BY <1>1, Zenon
<1>3. Sets!Min({x, y}) = c
  BY Zenon DEF Sets!Min
<1> HIDE DEF c
<1> QED BY <1>2, <1>3

\* How long an encoding is, and what it decodes to.
LEMMA EncodingIs ==
  ASSUME NEW type \in Types, NEW t \in Seq(Symbols), NEW ord
  PROVE  LET e == EncodeValueToBytes(t, type, ord)
         IN  /\ e \in Seq(Nat) /\ Len(e) <= Width(type)
             /\ Len(e) = Width(type) => CapabilityDecode(e, type, ord, -1) = t
<1> DEFINE e == EncodeValueToBytes(t, type, ord)
           n == IF type = "bool" THEN 1 ELSE Width(type)
           s == Bytes(t[1], n)
<1>1. Width(type) \in {2, 4, 8} /\ n \in 0..8 /\ n <= Width(type)
  BY WidthIs
<1>2. CASE ~Parses(t, type)
  <2>1. e = << >>
    BY <1>2 DEF EncodeValueToBytes, Bad
  <2>2. << >> \in Seq(Nat) /\ Len(<< >>) = 0
    OBVIOUS
  <2> HIDE DEF e
  <2> QED BY <1>1, <2>1, <2>2 DEF e
<1>3. CASE Parses(t, type)
  <2>1. e = IF LittleEndian(ord) THEN Seqs!Reverse(s) ELSE s
    BY <1>3 DEF EncodeValueToBytes
  <2>2. t[1] \in Int
    BY <1>3, ParsedBack
  <2>3. s \in Seq(Nat) /\ Len(s) = n
    BY <1>1, <2>2, BytesAreBytes
  <2>4. Seqs!Reverse(s) \in Seq(Nat) /\ Len(Seqs!Reverse(s)) = n
    <3> HIDE DEF s, n
    <3> QED BY <2>3, TurnedTwice
  <2>5. e \in Seq(Nat) /\ Len(e) = n
    <3> HIDE DEF e, s, n
    <3> QED BY <2>1, <2>3, <2>4, Zenon
  <2>6. ASSUME n = Width(type) PROVE CapabilityDecode(e, type, ord, -1) = t
    <3>1. e = IF LittleEndian(ord) THEN Seqs!Reverse(Bytes(t[1], Width(type))) ELSE Bytes(t[1], Width(type))
      <4> HIDE DEF e, n
      <4> QED BY <2>1, <2>6, Zenon
    <3> QED BY <1>3, <3>1, BytesDecode, ZenonT(90)
  <2> HIDE DEF e, n, s
  <2> QED BY <1>1, <2>5, <2>6 DEF e
<1> QED BY <1>2, <1>3

\* A frame over a window as wide as its type carries the value and nothing else.
LEMMA FrameDecodes ==
  ASSUME NEW k, NEW t \in Seq(Symbols), k.type \in Types, k.offset \in Nat, k.length = Width(k.type),
         EncodeCanFrameData(t, k) # Bad
  PROVE  /\ ReadCanFrame(EncodeCanFrameData(t, k), k) = t
         /\ \A i \in 1..8 : i - k.offset \in 1..k.length \/ EncodeCanFrameData(t, k)[i] = 0
<1> DEFINE e == EncodeValueToBytes(t, k.type, k.order)
           n == k.length
           o == k.offset
           kept == SubSeq(e, Sets!Max({0, Len(e) - n}) + 1, Len(e))
           f == EncodeCanFrameData(t, k)
<1>1. n \in Nat /\ n # 0 /\ o \in Nat
  BY WidthIs
<1>2. e \in Seq(Nat) /\ Len(e) <= n /\ (Len(e) = n => CapabilityDecode(e, k.type, k.order, -1) = t)
  BY EncodingIs
<1> HIDE DEF e, n, o
<1>3. kept = e
  <2>1. Len(e) \in Nat /\ Len(e) - n \in Int /\ Len(e) - n <= 0
    BY <1>1, <1>2
  <2>2. Sets!Max({0, Len(e) - n}) = 0
    BY <2>1, LargerIsZero
  <2>3. SubSeq(e, 1, Len(e)) = e
    BY <1>2, SubSeqFull
  <2>4. 0 + 1 = 1
    OBVIOUS
  <2> QED BY <2>2, <2>3, <2>4, Zenon
<1>4. /\ o + n <= 8 /\ Len(kept) = n
      /\ f = [i \in 1..8 |-> IF i - o \in 1..n THEN kept[i - o] ELSE 0]
  <2>1. f = IF n = 0 THEN IF \A i \in 1..Len(t) : t[i] \in 0..(Base - 1) THEN t ELSE Bad
            ELSE IF o + n > 8 \/ Len(kept) # n THEN Bad
            ELSE [i \in 1..8 |-> IF i - o \in 1..n THEN kept[i - o] ELSE 0]
    BY Zenon DEF EncodeCanFrameData, e, n, o
  <2>2. f # Bad
    OBVIOUS
  <2> HIDE DEF kept, f
  <2>3. ~(o + n > 8 \/ Len(kept) # n) /\ f = [i \in 1..8 |-> IF i - o \in 1..n THEN kept[i - o] ELSE 0]
    BY <1>1, <2>1, <2>2, Zenon
  <2> QED BY <1>1, <2>3
<1> HIDE DEF kept, f
<1>5. Len(e) = n /\ f = [i \in 1..8 |-> IF i - o \in 1..n THEN e[i - o] ELSE 0]
  BY <1>3, <1>4
<1>6. \A i \in 1..n : e[i] \in Nat
  BY <1>2, <1>5, SMTT(60)
<1>7. f \in [1..8 -> Nat] /\ Len(f) = 8
  <2>1. f \in [1..8 -> Nat]
    BY <1>1, <1>5, <1>6
  <2> QED BY <2>1
<1>8. SubSeq(f, o + 1, o + n) = e
  <2> DEFINE x == o + 1
             y == o + n
             w == SubSeq(f, x, y)
  <2>1. x \in Int /\ y \in Int /\ x <= y /\ y - x + 1 = n /\ \A j \in x..y : j \in 1..8
    BY <1>1, <1>4
  <2>2. \A i \in 1..n : x + i - 1 \in 1..8 /\ (x + i - 1) - o = i
    BY <1>1, <1>4
  <2> HIDE DEF x, y
  <2>3. \A j \in x..y : f[j] \in Nat
    BY <1>7, <2>1
  <2>4. /\ w \in Seq(Nat) /\ Len(w) = IF x <= y THEN y - x + 1 ELSE 0
        /\ \A i \in 1..(y - x + 1) : w[i] = f[x + i - 1]
    BY <2>1, <2>3, SubSeqProperties
  <2>5. w \in Seq(Nat) /\ Len(w) = n /\ \A i \in 1..n : w[i] = f[x + i - 1]
    <3> HIDE DEF w
    <3> QED BY <2>1, <2>4
  <2> HIDE DEF w
  <2>6. \A i \in 1..n : w[i] = e[i]
    BY <1>5, <2>2, <2>5
  <2>7. w = e
    BY <1>2, <1>5, <2>5, <2>6, SeqEqual
  <2> QED BY <2>7 DEF w, x, y
<1>9. ReadCanFrame(f, k) = CapabilityDecode(SubSeq(f, o + 1, o + n), k.type, k.order, -1)
  <2>1. ~(o + n > Len(f))
    BY <1>1, <1>4, <1>7
  <2> QED BY <2>1, Zenon DEF ReadCanFrame, o, n
<1>10. ReadCanFrame(f, k) = t
  BY <1>2, <1>5, <1>8, <1>9, Zenon
<1>11. \A i \in 1..8 : i - o \in 1..n \/ f[i] = 0
  BY <1>5
<1> QED BY <1>10, <1>11 DEF f, o, n

-----------------------------------------------------------------------------
(* How a template is filled, place by place. *)
\* What a template becomes, place by place.
ValueOf(k, name) ==
  IF name \in DOMAIN k.payload THEN k.payload[name]
  ELSE IF name \in DOMAIN CapVariables THEN CapVariables[name]
  ELSE IF name \in DOMAIN k.args THEN k.args[name]
  ELSE <<name>>
Filling(k, x) == IF x \in Names THEN ValueOf(k, x) ELSE <<x>>
Fillings(k) == [i \in 1..Len(k.template) |-> Filling(k, k.template[i])]
Resolved(k) == Seqs!FlattenSeq(Fillings(k))
FillsUp(k, f) ==
  /\ f \in [0..Len(k.template) -> Seq(Symbols)]
  /\ f[0] = << >> /\ \A i \in 1..Len(k.template) : f[i] = f[i - 1] \o Filling(k, k.template[i])
  /\ Resolved(k) = f[Len(k.template)]
FilledUp(k) == CHOOSE f : FillsUp(k, f)
Rest(k, j) == SubSeq(k.template, j + 1, Len(k.template))

\* The text while its places are filled: those before j are, and the search is
\* behind what was put there.
Upto(k, t, a, j) == t = FilledUp(k)[j] \o Rest(k, j) /\ a = Len(FilledUp(k)[j])
Resolving(k, t, a) == \E j \in 0..Len(k.template) : Upto(k, t, a, j)

LEMMA CallIs ==
  ASSUME NEW k \in CapCalls
  PROVE  /\ k.template \in Seq(Symbols) /\ k.type \in Types /\ k.offset \in Nat /\ k.length \in Nat
         /\ k.unit \in Units /\ k.reader \in Units
         /\ \A i \in 1..(Width(k.type) \div 2) : k.impl = "modbus" => k.offset + i - 1 \in Registers
  BY CapAssumption

LEMMA ValueIsText ==
  ASSUME NEW k \in CapCalls, NEW x \in Symbols
  PROVE  Filling(k, x) \in Seq(Symbols) /\ <<x>> \in Seq(Symbols)
<1>1. <<x>> \in Seq(Symbols)
  OBVIOUS
<1>2. /\ \A n \in DOMAIN k.payload : k.payload[n] \in Seq(Symbols)
      /\ \A n \in DOMAIN k.args : k.args[n] \in Seq(Symbols)
      /\ \A n \in DOMAIN CapVariables : CapVariables[n] \in Seq(Symbols)
  BY CapAssumption, Zenon
<1> QED BY <1>1, <1>2, Zenon DEF Filling, ValueOf

LEMMA FilledUpIs == ASSUME NEW k \in CapCalls PROVE FillsUp(k, FilledUp(k))
<1> DEFINE N == Len(k.template)
           ss == Fillings(k)
<1>1. N \in Nat /\ \A i \in 1..N : k.template[i] \in Symbols
  BY CallIs
<1>2. ss = [i \in 1..N |-> Filling(k, k.template[i])]
  BY DEF Fillings
<1> HIDE DEF ss, N
<1>3. ss \in [1..N -> Seq(Symbols)] /\ \A i \in 1..N : ss[i] = Filling(k, k.template[i])
  BY <1>1, <1>2, ValueIsText
<1>4. PICK f \in [0..N -> Seq(Symbols)] :
        /\ f[0] = << >> /\ \A i \in 1..N : f[i] = f[i - 1] \o ss[i]
        /\ Seqs!FlattenSeq(ss) = f[N]
  BY <1>1, <1>3, Flattened
<1>5. FillsUp(k, f)
  BY <1>3, <1>4, Zenon DEF FillsUp, Resolved, N, ss
<1> QED BY <1>5, Zenon DEF FilledUp

LEMMA Filled ==
  ASSUME NEW k \in CapCalls, NEW j \in 0..Len(k.template)
  PROVE  FilledUp(k)[j] \in Seq(Symbols) /\ Len(FilledUp(k)[j]) \in Nat
<1>1. FilledUp(k)[j] \in Seq(Symbols)
  BY FilledUpIs, Zenon DEF FillsUp
<1> QED BY <1>1, LenProperties

LEMMA RestIs ==
  ASSUME NEW k \in CapCalls, NEW j \in 0..Len(k.template)
  PROVE  Rest(k, j) \in Seq(Symbols) /\ Len(Rest(k, j)) = Len(k.template) - j
<1> DEFINE s == k.template
           L == Len(s)
           n == j + 1
<1>1. s \in Seq(Symbols) /\ L \in Nat /\ j \in 0..L
  BY CallIs
<1>2. n \in Int /\ L \in Int /\ \A i \in n..L : i \in 1..Len(s)
  BY <1>1
<1> HIDE DEF n
<1>3. \A i \in n..L : s[i] \in Symbols
  <2> HIDE DEF s, L
  <2> QED BY <1>1, <1>2, ElementOfSeq, Zenon
<1>4. (IF n <= L THEN L - n + 1 ELSE 0) = L - j
  BY <1>1 DEF n
<1> HIDE DEF s, L
<1>5. SubSeq(s, n, L) \in Seq(Symbols) /\ Len(SubSeq(s, n, L)) = IF n <= L THEN L - n + 1 ELSE 0
  BY <1>2, <1>3, SubSeqProperties
<1>6. Rest(k, j) = SubSeq(s, n, L)
  BY DEF Rest, n, s, L
<1>7. Rest(k, j) \in Seq(Symbols) /\ Len(Rest(k, j)) = L - j
  BY <1>4, <1>5, <1>6, Zenon
<1> QED BY <1>7 DEF L, s

\* The next place is the first of the rest.
LEMMA NextPlace ==
  ASSUME NEW k \in CapCalls, NEW q \in 0..(Len(k.template) - 1), NEW t \in Seq(Symbols), NEW a \in Nat,
         Upto(k, t, a, q)
  PROVE  /\ a + 1 \in 1..Len(t) /\ q + 1 \in 0..Len(k.template)
         /\ t[a + 1] = k.template[q + 1] /\ k.template[q + 1] \in Symbols
         /\ FilledUp(k)[q + 1] = FilledUp(k)[q] \o Filling(k, k.template[q + 1])
         /\ SubSeq(t, 1, a) = FilledUp(k)[q]
         /\ SubSeq(t, a + 2, Len(t)) = Rest(k, q + 1)
         /\ Rest(k, q) = <<k.template[q + 1]>> \o Rest(k, q + 1)
<1> DEFINE s == k.template
           L == Len(s)
           x == s[q + 1]
           F == FilledUp(k)[q]
           R == Rest(k, q)
           T == Rest(k, q + 1)
<1>1. s \in Seq(Symbols) /\ L \in Nat
  BY CallIs
<1>2. q \in 0..L /\ q + 1 \in 0..L /\ q + 1 \in 1..L /\ L \in (q + 1)..L /\ (q + 1) - 1 = q
  BY <1>1
<1>3. x \in Symbols
  BY <1>1, <1>2, ElementOfSeq, Zenon
<1>4. F \in Seq(Symbols) /\ a = Len(F) /\ a \in Nat /\ t = F \o R
  BY <1>2, Filled DEF Upto
<1>5. R \in Seq(Symbols) /\ T \in Seq(Symbols) /\ Len(R) = L - q /\ Len(T) = L - (q + 1)
  BY <1>2, RestIs
<1>6. R = <<x>> \o T
  BY <1>1, <1>2, SubSeqRecursiveFirst DEF Rest
<1>7. FilledUp(k)[q + 1] = F \o Filling(k, x)
  <2>1. \A i \in 1..L : FilledUp(k)[i] = FilledUp(k)[i - 1] \o Filling(k, s[i])
    BY FilledUpIs, Zenon DEF FillsUp
  <2>2. FilledUp(k)[q + 1] = FilledUp(k)[(q + 1) - 1] \o Filling(k, s[q + 1])
    BY <1>2, <2>1, Zenon
  <2> QED BY <1>2, <2>2, Zenon
<1> HIDE DEF L, F, R, T, x
<1>8. Len(t) = a + (L - q) /\ \A i \in 1..Len(t) : t[i] = IF i <= a THEN F[i] ELSE R[i - a]
  <2>1. Len(F \o R) = Len(F) + Len(R) /\ \A i \in 1..(Len(F) + Len(R)) : (F \o R)[i] = IF i <= Len(F) THEN F[i] ELSE R[i - Len(F)]
    BY <1>4, <1>5, ConcatProperties, Zenon
  <2>2. Len(t) = Len(F) + Len(R) /\ \A i \in 1..Len(t) : t[i] = IF i <= Len(F) THEN F[i] ELSE R[i - Len(F)]
    BY <1>4, <2>1, Zenon
  <2> QED BY <1>4, <1>5, <2>2, Zenon
<1>9. R[1] = x /\ \A i \in 1..(L - (q + 1)) : R[i + 1] = T[i]
  BY <1>2, <1>3, <1>5, <1>6
<1>10. a + 1 \in 1..Len(t) /\ t[a + 1] = x
  <2>1. a + 1 \in 1..Len(t) /\ ~(a + 1 <= a) /\ (a + 1) - a = 1
    BY <1>2, <1>4, <1>8
  <2> QED BY <1>8, <1>9, <2>1
<1>11. SubSeq(t, 1, a) = F
  <2> DEFINE p == SubSeq(t, 1, a)
  <2>1. \A i \in 1..a : i \in 1..Len(t) /\ i <= a /\ 1 + i - 1 = i
    BY <1>4, <1>10
  <2>2. \A i \in 1..a : t[i] \in Symbols
    BY <2>1, ElementOfSeq, Zenon
  <2>3. /\ p \in Seq(Symbols) /\ Len(p) = IF 1 <= a THEN a - 1 + 1 ELSE 0
        /\ \A i \in 1..(a - 1 + 1) : p[i] = t[1 + i - 1]
    BY <1>4, <2>2, SubSeqProperties
  <2> HIDE DEF p
  <2>4. p \in Seq(Symbols) /\ Len(p) = a /\ \A i \in 1..a : p[i] = t[i]
    BY <1>4, <2>3
  <2>5. \A i \in 1..Len(p) : p[i] = F[i]
    BY <1>8, <2>1, <2>4
  <2>6. p = F
    BY <1>4, <2>4, <2>5, SeqEqual
  <2> QED BY <2>6 DEF p
<1>12. SubSeq(t, a + 2, Len(t)) = T
  <2> DEFINE m == a + 2
             n == Len(t)
             p == SubSeq(t, m, n)
             d == L - (q + 1)
  <2>1. /\ m \in Int /\ n \in Int /\ n - m + 1 = d /\ (IF m <= n THEN n - m + 1 ELSE 0) = d
        /\ \A i \in m..n : i \in 1..n
        /\ \A i \in 1..d : m + i - 1 \in 1..n /\ ~(m + i - 1 <= a) /\ (m + i - 1) - a = i + 1
    <3>1. n \in Nat /\ a \in Nat /\ m = a + 2 /\ n - m + 1 = d /\ d \in Nat
      BY <1>2, <1>4, <1>8
    <3> HIDE DEF m, n, d
    <3> QED BY <3>1
  <2> HIDE DEF m, d
  <2>2. \A i \in m..n : t[i] \in Symbols
    BY <2>1, ElementOfSeq, Zenon
  <2>3. /\ p \in Seq(Symbols) /\ Len(p) = IF m <= n THEN n - m + 1 ELSE 0
        /\ \A i \in 1..(n - m + 1) : p[i] = t[m + i - 1]
    BY <2>1, <2>2, SubSeqProperties
  <2> HIDE DEF p, n
  <2>4. p \in Seq(Symbols) /\ Len(p) = d /\ \A i \in 1..d : p[i] = t[m + i - 1]
    BY <2>1, <2>3
  <2>5. \A i \in 1..d : t[m + i - 1] = R[i + 1] /\ R[i + 1] = T[i]
    BY <1>8, <1>9, <2>1 DEF n, d
  <2>6. \A i \in 1..Len(p) : p[i] = T[i]
    BY <2>4, <2>5
  <2>7. Len(T) = d
    BY <1>5 DEF d
  <2>8. p = T
    BY <1>5, <2>4, <2>6, <2>7, SeqEqual
  <2> QED BY <2>8 DEF p, m, n
<1> QED BY <1>2, <1>3, <1>4, <1>6, <1>7, <1>10, <1>11, <1>12 DEF L, F, R, T, x

-----------------------------------------------------------------------------
(* One place more. *)
\* What is no place is passed over.
LEMMA PassedOver ==
  ASSUME NEW k \in CapCalls, NEW t \in Seq(Symbols), NEW a \in Nat, NEW j \in 0..Len(k.template), Upto(k, t, a, j),
         NEW n \in 0..(Len(k.template) - j), \A i \in (a + 1)..(a + n) : t[i] \notin Names
  PROVE  Upto(k, t, a + n, j + n)
<1> DEFINE L == Len(k.template)
           S == {m \in 0..n : Upto(k, t, a + m, j + m)}
<1>1. L \in Nat
  BY CallIs
<1>2. 0 \in S
  BY <1>1
<1>3. ASSUME NEW m \in 1..n, m - 1 \in S PROVE m \in S
  <2> DEFINE q == j + (m - 1)
             b == a + (m - 1)
             x == k.template[q + 1]
             F == FilledUp(k)[q]
             T == Rest(k, q + 1)
  <2>1. /\ q \in 0..(L - 1) /\ q \in 0..L /\ q + 1 = j + m /\ q + 1 \in 0..L /\ b + 1 = a + m /\ b \in Nat
        /\ a + m \in (a + 1)..(a + n)
    BY <1>1
  <2>2. Upto(k, t, b, q)
    BY <1>3
  <2> HIDE DEF q, b
  <2>3. t[b + 1] = x /\ x \in Symbols /\ FilledUp(k)[q + 1] = F \o Filling(k, x) /\ Rest(k, q) = <<x>> \o T
    <3>1. q \in 0..(Len(k.template) - 1) /\ b \in Nat
      BY <2>1
    <3> HIDE DEF F, T, x, L
    <3>2. /\ t[b + 1] = k.template[q + 1] /\ k.template[q + 1] \in Symbols
          /\ FilledUp(k)[q + 1] = FilledUp(k)[q] \o Filling(k, k.template[q + 1])
          /\ Rest(k, q) = <<k.template[q + 1]>> \o Rest(k, q + 1)
      BY <2>2, <3>1, NextPlace, ZenonT(90)
    <3> QED BY <3>2, Zenon DEF F, T, x
  <2>4. Filling(k, x) = <<x>>
    <3>1. t[b + 1] \notin Names
      BY <2>1
    <3> QED BY <2>3, <3>1, Zenon DEF Filling
  <2>5. F \in Seq(Symbols) /\ T \in Seq(Symbols) /\ <<x>> \in Seq(Symbols) /\ t = F \o Rest(k, q) /\ b = Len(F)
    BY <2>1, <2>2, <2>3, Filled, RestIs, ValueIsText DEF Upto
  <2> HIDE DEF F, T
  <2>6. t = (F \o <<x>>) \o T
    <3>1. t = F \o (<<x>> \o T)
      BY <2>3, <2>5, Zenon
    <3>2. (F \o <<x>>) \o T = F \o (<<x>> \o T)
      <4> DEFINE u == <<x>>
      <4>1. F \in Seq(Symbols) /\ T \in Seq(Symbols) /\ u \in Seq(Symbols)
        BY <2>5
      <4> HIDE DEF u
      <4>2. (F \o u) \o T = F \o (u \o T)
        BY <4>1, ConcatAssociative, SMTT(60)
      <4> QED BY <4>2 DEF u
    <3> QED BY <3>1, <3>2, Zenon
  <2>7. Len(F \o <<x>>) = b + 1
    <3> DEFINE u == <<x>>
    <3>1. Len(u) = 1
      OBVIOUS
    <3> HIDE DEF u
    <3>2. Len(F \o u) = Len(F) + Len(u)
      BY <2>5, ConcatProperties, Zenon DEF u
    <3>3. Len(F \o u) = b + 1
      BY <2>5, <3>1, <3>2, Zenon
    <3> QED BY <3>3 DEF u
  <2>8. Upto(k, t, b + 1, q + 1)
    BY <2>3, <2>4, <2>6, <2>7, Zenon DEF Upto, T
  <2> QED BY <2>1, <2>8
<1>4. \A m \in 0..n : m \in S
  <2>1. n \in Nat
    BY <1>1
  <2> HIDE DEF S
  <2> QED BY <1>2, <1>3, <2>1, StepByStep
<1> QED BY <1>1, <1>4

PlacesIn(t, a) == {i \in (a + 1)..Len(t) : t[i] \in Names}
LengthOf(k, t, a, j) == Len(t) = a + (Len(k.template) - j)
LEMMA TextLength ==
  ASSUME NEW k \in CapCalls, NEW t \in Seq(Symbols), NEW a, NEW j \in 0..Len(k.template), Upto(k, t, a, j)
  PROVE  a \in Nat /\ LengthOf(k, t, a, j)
<1> DEFINE F == FilledUp(k)[j]
           R == Rest(k, j)
<1>1. F \in Seq(Symbols) /\ R \in Seq(Symbols) /\ Len(R) = Len(k.template) - j /\ Len(F) \in Nat
  BY Filled, RestIs
<1>2. t = F \o R /\ a = Len(F)
  BY DEF Upto
<1> HIDE DEF F, R
<1>3. Len(F \o R) = Len(F) + Len(R)
  BY <1>1, ConcatProperties, Zenon
<1> QED BY <1>1, <1>2, <1>3, Zenon DEF LengthOf

\* When no place is left the template is filled ...
LEMMA NoPlaceLeft ==
  ASSUME NEW k \in CapCalls, NEW t \in Seq(Symbols), NEW a \in Nat, Resolving(k, t, a), PlacesIn(t, a) = {}
  PROVE  t = Resolved(k)
<1> DEFINE L == Len(k.template)
<1>1. PICK j \in 0..L : Upto(k, t, a, j)
  BY DEF Resolving
<1>2. a \in Nat /\ LengthOf(k, t, a, j)
  BY <1>1, TextLength
<1>3. L \in Nat
  BY CallIs
<1> HIDE DEF L
<1> DEFINE n == L - j
<1>4. n \in 0..(L - j) /\ j + n = L /\ L \in 0..L
  BY <1>3
<1>5. \A i \in (a + 1)..(a + n) : t[i] \notin Names
  <2>1. Len(t) = a + n
    BY <1>2 DEF LengthOf, L
  <2> HIDE DEF n
  <2> QED BY <2>1 DEF PlacesIn
<1> HIDE DEF n
<1>6. Upto(k, t, a + n, L)
  <2>1. Upto(k, t, a + n, j + n)
    BY <1>1, <1>2, <1>4, <1>5, PassedOver DEF L
  <2> QED BY <1>4, <2>1, Zenon
<1> DEFINE F == FilledUp(k)[L]
<1>7. F \in Seq(Symbols) /\ Resolved(k) = F
  BY <1>4, Filled, FilledUpIs DEF FillsUp, L
<1>8. Rest(k, L) = << >>
  BY <1>3 DEF Rest, L
<1>9. t = F \o << >>
  BY <1>6, <1>8, Zenon DEF Upto
<1> HIDE DEF F
<1> QED BY <1>7, <1>9

\* ... and replacing the first place that is left fills one more.
LEMMA PlaceFilled ==
  ASSUME NEW k \in CapCalls, NEW t \in Seq(Symbols), NEW a \in Nat, Resolving(k, t, a), PlacesIn(t, a) # {},
         NEW i \in {Sets!Min(PlacesIn(t, a))}, NEW v \in {ValueOf(k, t[i])}
  PROVE  /\ SubSeq(t, 1, i - 1) \o v \o SubSeq(t, i + 1, Len(t)) \in Seq(Symbols)
         /\ Resolving(k, SubSeq(t, 1, i - 1) \o v \o SubSeq(t, i + 1, Len(t)), i - 1 + Len(v))
<1> DEFINE L == Len(k.template)
           P == PlacesIn(t, a)
<1>1. PICK j \in 0..L : Upto(k, t, a, j)
  BY DEF Resolving
<1>2. a \in Nat /\ Len(t) = a + (L - j)
  BY <1>1, TextLength DEF LengthOf
<1>3. L \in Nat
  BY CallIs
<1>4. i \in P /\ \A y \in P : i <= y
  <2>1. P \subseteq Nat
    BY <1>2, <1>3 DEF PlacesIn
  <2> HIDE DEF P
  <2>2. \E x \in P : \A y \in P : x <= y
    BY <2>1, LeastNumber DEF P
  <2>3. i = CHOOSE x \in P : \A y \in P : x <= y
    BY DEF Sets!Min, P
  <2> QED BY <2>2, <2>3, Zenon
<1>5. i \in (a + 1)..Len(t) /\ t[i] \in Names
  BY <1>4 DEF PlacesIn
<1> DEFINE n == i - 1 - a
<1>6. n \in 0..(L - j) /\ a + n = i - 1 /\ j + n \in 0..(L - 1) /\ (i - 1) + 1 = i /\ (i - 1) + 2 = i + 1
  <2> DEFINE M == Len(t)
  <2>1. M = a + (L - j) /\ i \in (a + 1)..M
    BY <1>2, <1>5
  <2>2. j \in 0..L
    BY <1>1
  <2> HIDE DEF M, L, P
  <2>3. a \in Nat
    BY <1>2
  <2>4. i \in (a + 1)..(a + (L - j))
    BY <2>1
  <2> QED BY <1>3, <2>2, <2>3, <2>4
<1>7. \A x \in (a + 1)..(a + n) : t[x] \notin Names
  <2> SUFFICES ASSUME NEW x \in (a + 1)..(a + n), t[x] \in Names PROVE FALSE
    OBVIOUS
  <2>1. x \in (a + 1)..Len(t) /\ ~(i <= x)
    BY <1>2, <1>3, <1>5, SMTT(60)
  <2>2. x \in P
    BY <2>1 DEF PlacesIn
  <2> HIDE DEF P
  <2> QED BY <1>4, <2>1, <2>2
<1> HIDE DEF L, P, n
<1> DEFINE q == j + n
           F == FilledUp(k)[q]
           T == Rest(k, q + 1)
<1>8. Upto(k, t, i - 1, q)
  BY <1>1, <1>2, <1>6, <1>7, PassedOver DEF L
<1> HIDE DEF q
<1>9. /\ i - 1 \in Nat /\ q + 1 \in 0..L /\ t[i] = k.template[q + 1] /\ k.template[q + 1] \in Symbols
      /\ FilledUp(k)[q + 1] = F \o Filling(k, k.template[q + 1])
      /\ SubSeq(t, 1, i - 1) = F /\ SubSeq(t, i + 1, Len(t)) = T
  <2>1. q \in 0..(L - 1)
    BY <1>6 DEF q
  <2>3. i - 1 \in Nat
    BY <1>2, <1>6
  <2>2. /\ q + 1 \in 0..L /\ t[(i - 1) + 1] = k.template[q + 1] /\ k.template[q + 1] \in Symbols
        /\ FilledUp(k)[q + 1] = F \o Filling(k, k.template[q + 1])
        /\ SubSeq(t, 1, i - 1) = F /\ SubSeq(t, (i - 1) + 2, Len(t)) = T
    BY <1>8, <2>1, <2>3, NextPlace DEF L
  <2> QED BY <1>6, <2>2, <2>3, Zenon
<1>10. v = Filling(k, k.template[q + 1])
  BY <1>5, <1>9, Zenon DEF Filling
<1>11. v \in Seq(Symbols) /\ F \in Seq(Symbols) /\ T \in Seq(Symbols)
  <2>1. q \in 0..L
    BY <1>3, <1>6 DEF q
  <2> QED BY <1>9, <1>10, <2>1, ValueIsText, Filled, RestIs DEF L
<1>12. Len(F) = i - 1
  BY <1>8, Zenon DEF Upto
<1> HIDE DEF F, T
<1> DEFINE u == F \o v
<1>13. u \in Seq(Symbols) /\ Len(u) = i - 1 + Len(v) /\ FilledUp(k)[q + 1] = u
  <2>1. u \in Seq(Symbols) /\ Len(u) = Len(F) + Len(v)
    BY <1>11, ConcatProperties, Zenon
  <2> QED BY <1>9, <1>10, <1>12, <2>1, Zenon
<1> HIDE DEF u
<1>14. u \o T \in Seq(Symbols)
  BY <1>11, <1>13, ConcatProperties, Zenon
<1>15. Upto(k, u \o T, i - 1 + Len(v), q + 1)
  BY <1>13, Zenon DEF Upto, T
<1>16. Resolving(k, u \o T, i - 1 + Len(v))
  BY <1>9, <1>15, Zenon DEF Resolving, L
<1>17. SubSeq(t, 1, i - 1) \o v \o SubSeq(t, i + 1, Len(t)) = u \o T
  BY <1>9, Zenon DEF u
<1> QED BY <1>14, <1>16, <1>17, Zenon

\* Nothing is filled to begin with.
LEMMA NothingFilled ==
  ASSUME NEW k \in CapCalls PROVE k.template \in Seq(Symbols) /\ Resolving(k, k.template, 0)
<1> DEFINE s == k.template
<1>1. s \in Seq(Symbols) /\ Len(s) \in Nat
  BY CallIs
<1>2. FilledUp(k)[0] = << >>
  BY FilledUpIs, Zenon DEF FillsUp
<1>3. Rest(k, 0) = s
  BY <1>1, SubSeqFull DEF Rest
<1> HIDE DEF s
<1>4. s = << >> \o s /\ Len(<< >>) = 0 /\ 0 \in 0..Len(s)
  BY <1>1
<1>5. Upto(k, s, 0, 0)
  BY <1>2, <1>3, <1>4, Zenon DEF Upto
<1> QED BY <1>1, <1>4, <1>5, Zenon DEF Resolving, s

-----------------------------------------------------------------------------
(* What one step of a call may do. *)
CapStages == {"resolve", "execute", "send", "write", "done"}
Images == [1..ImageSize -> Nat]
CapTypes ==
  /\ call \in [Callers -> CapCalls] /\ capStage \in [Callers -> CapStages]
  /\ capResult \in [Callers -> {"none", "ok", "failed"}]
  /\ text \in [Callers -> Seq(Symbols)] /\ at \in [Callers -> Nat]
  /\ image \in Images /\ seen = [c \in Callers |-> seen[c]]

\* What one step of a caller leaves to the others, and what its stage says of it.
LeavesOthers(c) ==
  \A d \in Callers : d # c =>
    /\ capStage'[d] = capStage[d] /\ capResult'[d] = capResult[d] /\ text'[d] = text[d]
    /\ at'[d] = at[d] /\ seen'[d] = seen[d]
GoesOn(c) ==
  /\ capStage[c] # "done"
  /\ capResult'[c] = "ok" => capStage'[c] = "done"
  /\ \/ Resolve(c)
     \/ text' = text /\ at' = at /\ capStage'[c] # "resolve" /\ (capStage[c] = "resolve" => Places(c) = {})
KeepsTypes(c) ==
  /\ call' = call
  /\ capStage' \in [Callers -> CapStages] /\ capResult' \in [Callers -> {"none", "ok", "failed"}]
  /\ seen' = [d \in Callers |-> seen'[d]]

LEMMA FinishSteps ==
  ASSUME CapTypes, NEW c \in Callers, capStage[c] # "done", NEW result \in {"ok", "failed"}, NEW mark,
         Finish(c, result, mark), capStage[c] = "resolve" => Places(c) = {}
  PROVE  LeavesOthers(c) /\ GoesOn(c) /\ KeepsTypes(c)
<1>1. /\ capStage' = [capStage EXCEPT ![c] = "done"] /\ capResult' = [capResult EXCEPT ![c] = result]
      /\ call' = call /\ text' = text /\ at' = at /\ seen' = seen
  BY DEF Finish
<1>2. capStage'[c] = "done" /\ capResult'[c] = result
  BY <1>1 DEF CapTypes
<1>3. LeavesOthers(c)
  BY <1>1 DEF LeavesOthers
<1>4. GoesOn(c)
  BY <1>1, <1>2 DEF GoesOn
<1>5. KeepsTypes(c)
  BY <1>1 DEF KeepsTypes, CapTypes, CapStages
<1> QED BY <1>1, <1>3, <1>4, <1>5

\* A step to another stage that finishes nothing.
LEMMA StageSteps ==
  ASSUME CapTypes, NEW c \in Callers, NEW s \in {"execute", "send", "write"},
         capStage[c] # "done", capResult[c] # "ok", capStage[c] = "resolve" => Places(c) = {},
         capStage' = [capStage EXCEPT ![c] = s], capResult' = capResult, call' = call, text' = text, at' = at,
         seen' = seen \/ seen' = [seen EXCEPT ![c] = image]
  PROVE  LeavesOthers(c) /\ GoesOn(c) /\ KeepsTypes(c)
<1>1. capStage'[c] = s /\ s # "resolve"
  BY DEF CapTypes
<1>2. LeavesOthers(c)
  BY DEF LeavesOthers, CapTypes
<1>3. GoesOn(c)
  BY <1>1 DEF GoesOn
<1>4. KeepsTypes(c)
  BY DEF KeepsTypes, CapTypes, CapStages
<1> QED BY <1>2, <1>3, <1>4

\* A step leaves the slaves alone the connection of its call does not name.
OtherSlavesKept(c) == \A u \in Units : u # call[c].unit => regs'[u] = regs[u]
\* What a step may do to the device and to the bus.
DeviceSteps(c) ==
  LET k == call[c]
      t == text[c]
      words == EncodeModbusWords(t, k.type, k.order)
  IN  /\ regs' # regs => k.impl = "modbus" /\ capStage'[c] = "done" /\ OtherSlavesKept(c)
      /\ capResult'[c] = "ok" /\ k.impl = "modbus" => words # Bad /\ regs' = Written(words, k)
      /\ frame' # frame => k.impl = "can" /\ capStage'[c] = "done"
      /\ capResult'[c] = "ok" /\ k.impl = "can" => EncodeCanFrameData(t, k) # Bad /\ frame' = EncodeCanFrameData(t, k)
ImageSteps(c) ==
  /\ image' = image \/ (capStage[c] = "write" /\ call[c].impl = "pdo" /\ capResult'[c] = "ok")
  /\ capResult'[c] = "ok" /\ call[c].impl = "pdo" =>
       /\ capStage[c] = "write" /\ ~(call[c].offset + call[c].length > Len(seen[c]))
       /\ image' = [i \in 1..ImageSize |-> IF i - call[c].offset \in 1..Len(PdoBytes(c)) THEN PdoBytes(c)[i - call[c].offset] ELSE seen[c][i]]
  /\ capStage'[c] = "write" =>
       call[c].impl = "pdo" /\ busHolder = NoCaller /\ busHolder' = c /\ seen'[c] = image /\ image' = image
  /\ busHolder' = busHolder \/ busHolder = c \/ busHolder = NoCaller

AnyStep(c) == LeavesOthers(c) /\ GoesOn(c) /\ KeepsTypes(c) /\ DeviceSteps(c) /\ ImageSteps(c)

LEMMA FailedSteps ==
  ASSUME CapTypes, NEW c \in Callers, capStage[c] # "done", NEW mark, capStage[c] = "resolve" => Places(c) = {},
         Finish(c, "failed", mark), image' = image,
         regs' = regs \/ (call[c].impl = "modbus" /\ OtherSlavesKept(c)),
         frame' = frame \/ call[c].impl = "can"
  PROVE  AnyStep(c)
<1>1. LeavesOthers(c) /\ GoesOn(c) /\ KeepsTypes(c)
  BY FinishSteps
<1>2. /\ capStage'[c] = "done" /\ capResult'[c] = "failed"
      /\ busHolder' = IF busHolder = c THEN NoCaller ELSE busHolder
  BY DEF Finish, CapTypes
<1>3. DeviceSteps(c)
  BY <1>2, Zenon DEF DeviceSteps
<1>4. ImageSteps(c)
  BY <1>2, Zenon DEF ImageSteps
<1> QED BY <1>1, <1>3, <1>4 DEF AnyStep

\* A success on a device whose state the model keeps no more of.
LEMMA PlainSuccess ==
  ASSUME CapTypes, NEW c \in Callers, capStage[c] # "done", NEW mark, capStage[c] = "resolve" => Places(c) = {},
         Finish(c, "ok", mark), image' = image, regs' = regs, frame' = frame, call[c].impl \notin {"modbus", "can", "pdo"}
  PROVE  AnyStep(c)
<1>1. LeavesOthers(c) /\ GoesOn(c) /\ KeepsTypes(c)
  BY FinishSteps
<1>2. /\ capStage'[c] = "done" /\ capResult'[c] = "ok"
      /\ busHolder' = IF busHolder = c THEN NoCaller ELSE busHolder
  BY DEF Finish, CapTypes
<1>3. call[c].impl # "modbus" /\ call[c].impl # "can" /\ call[c].impl # "pdo"
  OBVIOUS
<1>4. DeviceSteps(c)
  BY <1>2, <1>3, Zenon DEF DeviceSteps
<1>5. ImageSteps(c)
  BY <1>2, <1>3, Zenon DEF ImageSteps
<1> QED BY <1>1, <1>4, <1>5 DEF AnyStep

LEMMA StagedSteps ==
  ASSUME CapTypes, NEW c \in Callers, NEW s \in {"execute", "send"},
         capStage[c] # "done", capResult[c] # "ok", capStage[c] = "resolve" => Places(c) = {},
         capStage' = [capStage EXCEPT ![c] = s], capResult' = capResult, call' = call, text' = text, at' = at,
         seen' = seen, image' = image, regs' = regs, frame' = frame, busHolder' = busHolder
  PROVE  AnyStep(c)
<1>1. LeavesOthers(c) /\ GoesOn(c) /\ KeepsTypes(c)
  BY StageSteps
<1>2. capStage'[c] = s /\ s # "done" /\ s # "write" /\ capResult'[c] # "ok"
  BY DEF CapTypes
<1>3. DeviceSteps(c)
  BY <1>2, Zenon DEF DeviceSteps
<1>4. ImageSteps(c)
  BY <1>2, Zenon DEF ImageSteps
<1> QED BY <1>1, <1>3, <1>4 DEF AnyStep

-----------------------------------------------------------------------------
(* Every action of a call is such a step. *)
LEMMA ResolveSteps ==
  ASSUME CapTypes, NEW c \in Callers, capResult[c] # "ok", Resolve(c)
  PROVE  AnyStep(c)
<1>1. /\ capStage[c] = "resolve" /\ capStage' = capStage /\ capResult' = capResult /\ call' = call /\ seen' = seen
      /\ image' = image /\ regs' = regs /\ frame' = frame /\ busHolder' = busHolder
  BY DEF Resolve, Device
<1>2. \A d \in Callers : d # c => text'[d] = text[d] /\ at'[d] = at[d]
  BY DEF Resolve, ReplaceNext, CapTypes
<1>3. LeavesOthers(c)
  BY <1>1, <1>2 DEF LeavesOthers
<1>4. GoesOn(c)
  BY <1>1 DEF GoesOn
<1>5. KeepsTypes(c)
  BY <1>1 DEF KeepsTypes, CapTypes
<1>6. capStage'[c] # "done" /\ capStage'[c] # "write" /\ capResult'[c] # "ok"
  BY <1>1
<1>7. DeviceSteps(c)
  BY <1>1, <1>6, Zenon DEF DeviceSteps
<1>8. ImageSteps(c)
  BY <1>1, <1>6, Zenon DEF ImageSteps
<1> QED BY <1>3, <1>4, <1>5, <1>7, <1>8 DEF AnyStep

LEMMA ExecuteSteps ==
  ASSUME CapTypes, NEW c \in Callers, capResult[c] # "ok", Execute(c) PROVE AnyStep(c)
<1>1. capStage[c] # "done" /\ Places(c) = {}
  BY DEF Execute
<1>2. CASE call[c].impl = "script"
  <2>1. Finish(c, "failed", "none") /\ regs' = regs /\ frame' = frame /\ image' = image
    BY <1>2 DEF Execute, Device
  <2> QED BY <1>1, <2>1, FailedSteps
<1>3. CASE call[c].impl # "script"
  <2>1. /\ capStage' = [capStage EXCEPT ![c] = "execute"] /\ capResult' = capResult /\ call' = call
        /\ text' = text /\ at' = at /\ seen' = seen /\ image' = image /\ regs' = regs /\ frame' = frame
        /\ busHolder' = busHolder
    BY <1>3 DEF Execute, Device
  <2> QED BY <1>1, <2>1, StagedSteps
<1> QED BY <1>2, <1>3

LEMMA AcquireSteps ==
  ASSUME CapTypes, NEW c \in Callers, capResult[c] # "ok", AcquireForProtocol(c) PROVE AnyStep(c)
<1>1. capStage[c] # "done" /\ capStage[c] # "resolve" /\ regs' = regs /\ frame' = frame /\ image' = image
  BY DEF AcquireForProtocol, Device
<1>2. CASE \E m \in {"none", "failure"} : Finish(c, "failed", m)
  BY <1>1, <1>2, FailedSteps
<1>3. CASE /\ capStage' = [capStage EXCEPT ![c] = "send"]
           /\ UNCHANGED <<call, text, at, busHolder, seen, capMark, capResult>>
  <2>1. /\ capStage' = [capStage EXCEPT ![c] = "send"] /\ capResult' = capResult /\ call' = call
        /\ text' = text /\ at' = at /\ seen' = seen /\ busHolder' = busHolder
    BY <1>3
  <2> QED BY <1>1, <2>1, StagedSteps
<1> QED BY <1>2, <1>3 DEF AcquireForProtocol

LEMMA PublishSteps ==
  ASSUME CapTypes, NEW c \in Callers, PublishText(c) \/ SendCommand(c) PROVE AnyStep(c)
<1>1. /\ capStage[c] # "done" /\ capStage[c] # "resolve" /\ regs' = regs /\ frame' = frame /\ image' = image
      /\ call[c].impl \notin {"modbus", "can", "pdo"}
      /\ Finish(c, "failed", "failure") \/ Finish(c, "ok", "success")
  BY DEF PublishText, SendCommand
<1>2. CASE Finish(c, "failed", "failure")
  BY <1>1, <1>2, FailedSteps
<1>3. CASE Finish(c, "ok", "success")
  BY <1>1, <1>3, PlainSuccess
<1> QED BY <1>1, <1>2, <1>3

LEMMA ModbusSteps ==
  ASSUME CapTypes, NEW c \in Callers, ModbusWrite(c) PROVE AnyStep(c)
<1> DEFINE words == EncodeModbusWords(text[c], call[c].type, call[c].order)
<1>1. capStage[c] # "done" /\ capStage[c] # "resolve" /\ call[c].impl = "modbus" /\ frame' = frame /\ image' = image
  BY DEF ModbusWrite
<1>0. Written(words, call[c]) = regs' => OtherSlavesKept(c)
  BY DEF Written, OtherSlavesKept
<1>2. \/ (\E m \in {"none", "failure"} : Finish(c, "failed", m)) /\ (regs' = regs \/ regs' = Written(words, call[c]))
      \/ words # Bad /\ Finish(c, "ok", "success") /\ regs' = Written(words, call[c])
  <2> HIDE DEF words
  <2> QED BY Zenon DEF ModbusWrite, words
<1>3. CASE (\E m \in {"none", "failure"} : Finish(c, "failed", m)) /\ (regs' = regs \/ regs' = Written(words, call[c]))
  <2>1. regs' = regs \/ OtherSlavesKept(c)
    BY <1>0, <1>3, Zenon
  <2> QED BY <1>1, <1>3, <2>1, FailedSteps
<1>4. CASE words # Bad /\ Finish(c, "ok", "success") /\ regs' = Written(words, call[c])
  <2>1. LeavesOthers(c) /\ GoesOn(c) /\ KeepsTypes(c)
    BY <1>1, <1>4, FinishSteps
  <2>2. /\ capStage'[c] = "done" /\ capResult'[c] = "ok"
        /\ busHolder' = IF busHolder = c THEN NoCaller ELSE busHolder
    BY <1>4 DEF Finish, CapTypes
  <2>3. call[c].impl # "can" /\ call[c].impl # "pdo"
    BY <1>1
  <2>4. DeviceSteps(c)
    BY <1>0, <1>1, <1>4, <2>2, <2>3, Zenon DEF DeviceSteps
  <2>5. ImageSteps(c)
    BY <1>1, <2>2, <2>3, Zenon DEF ImageSteps
  <2> QED BY <2>1, <2>4, <2>5 DEF AnyStep
<1> QED BY <1>2, <1>3, <1>4

LEMMA CanSteps ==
  ASSUME CapTypes, NEW c \in Callers, CanWrite(c) PROVE AnyStep(c)
<1> DEFINE data == EncodeCanFrameData(text[c], call[c])
<1>1. capStage[c] # "done" /\ capStage[c] # "resolve" /\ call[c].impl = "can" /\ regs' = regs /\ image' = image
  BY DEF CanWrite
<1>2. \/ \E m \in {"none", "failure"} : Finish(c, "failed", m)
      \/ data # Bad /\ Finish(c, "ok", "none") /\ frame' = data
  <2> HIDE DEF data
  <2> QED BY Zenon DEF CanWrite, data
<1>3. CASE \E m \in {"none", "failure"} : Finish(c, "failed", m)
  BY <1>1, <1>3, FailedSteps
<1>4. CASE data # Bad /\ Finish(c, "ok", "none") /\ frame' = data
  <2>1. LeavesOthers(c) /\ GoesOn(c) /\ KeepsTypes(c)
    BY <1>1, <1>4, FinishSteps
  <2>2. /\ capStage'[c] = "done" /\ capResult'[c] = "ok"
        /\ busHolder' = IF busHolder = c THEN NoCaller ELSE busHolder
    BY <1>4 DEF Finish, CapTypes
  <2>3. call[c].impl # "modbus" /\ call[c].impl # "pdo"
    BY <1>1
  <2>4. DeviceSteps(c)
    BY <1>1, <1>4, <2>2, <2>3, Zenon DEF DeviceSteps
  <2>5. ImageSteps(c)
    BY <1>1, <2>2, <2>3, Zenon DEF ImageSteps
  <2> QED BY <2>1, <2>4, <2>5 DEF AnyStep
<1> QED BY <1>2, <1>3, <1>4

LEMMA PdoReadSteps ==
  ASSUME CapTypes, NEW c \in Callers, capResult[c] # "ok", PdoRead(c) PROVE AnyStep(c)
<1>1. capStage[c] # "done" /\ capStage[c] # "resolve" /\ call[c].impl = "pdo" /\ regs' = regs /\ frame' = frame /\ image' = image
  BY DEF PdoRead, Device
<1>2. CASE Finish(c, "failed", "none")
  BY <1>1, <1>2, FailedSteps
<1>3. CASE /\ busHolder = NoCaller /\ busHolder' = c /\ seen' = [seen EXCEPT ![c] = image]
           /\ capStage' = [capStage EXCEPT ![c] = "write"]
           /\ UNCHANGED <<call, text, at, lentTo, capMark, capResult>>
  <2>1. LeavesOthers(c) /\ GoesOn(c) /\ KeepsTypes(c)
    BY <1>1, <1>3, StageSteps
  <2>2. capStage'[c] = "write" /\ capResult'[c] # "ok" /\ seen'[c] = image
    BY <1>3 DEF CapTypes
  <2>3. DeviceSteps(c)
    BY <1>1, <2>2, Zenon DEF DeviceSteps
  <2>4. ImageSteps(c)
    BY <1>1, <1>3, <2>2, Zenon DEF ImageSteps
  <2> QED BY <2>1, <2>3, <2>4 DEF AnyStep
<1> QED BY <1>2, <1>3, Zenon DEF PdoRead

LEMMA PdoWriteSteps ==
  ASSUME CapTypes, NEW c \in Callers, call[c].impl = "pdo", PdoWrite(c) PROVE AnyStep(c)
<1>1. capStage[c] # "done" /\ capStage[c] # "resolve" /\ capStage[c] = "write" /\ regs' = regs /\ frame' = frame
  BY DEF PdoWrite
<1>2. \/ Finish(c, "failed", "none") /\ image' = image
      \/ /\ ~(call[c].offset + call[c].length > Len(seen[c])) /\ Finish(c, "ok", "none")
         /\ image' = [i \in 1..ImageSize |-> IF i - call[c].offset \in 1..Len(PdoBytes(c)) THEN PdoBytes(c)[i - call[c].offset] ELSE seen[c][i]]
  BY Zenon DEF PdoWrite
<1>3. CASE Finish(c, "failed", "none") /\ image' = image
  BY <1>1, <1>3, FailedSteps
<1>4. CASE /\ ~(call[c].offset + call[c].length > Len(seen[c])) /\ Finish(c, "ok", "none")
           /\ image' = [i \in 1..ImageSize |-> IF i - call[c].offset \in 1..Len(PdoBytes(c)) THEN PdoBytes(c)[i - call[c].offset] ELSE seen[c][i]]
  <2>1. LeavesOthers(c) /\ GoesOn(c) /\ KeepsTypes(c)
    BY <1>1, <1>4, FinishSteps
  <2>2. /\ capStage'[c] = "done" /\ capResult'[c] = "ok"
        /\ busHolder' = IF busHolder = c THEN NoCaller ELSE busHolder
    BY <1>4 DEF Finish, CapTypes
  <2>3. call[c].impl # "modbus" /\ call[c].impl # "can" /\ capStage'[c] # "write"
    BY <2>2
  <2>4. DeviceSteps(c)
    BY <1>1, <2>2, <2>3, Zenon DEF DeviceSteps
  <2>5. ImageSteps(c)
    BY <1>1, <1>4, <2>2, <2>3, Zenon DEF ImageSteps
  <2> QED BY <2>1, <2>4, <2>5 DEF AnyStep
<1> QED BY <1>2, <1>3, <1>4

LEMMA EveryStep ==
  ASSUME CapTypes, NEW c \in Callers, CapStep(c),
         capStage[c] # "done" => capResult[c] # "ok", capStage[c] = "write" => call[c].impl = "pdo"
  PROVE  AnyStep(c)
<1>1. capResult[c] # "ok"
  BY DEF CapStep, Resolve, Execute, AcquireForProtocol, ModbusWrite, PublishText, SendCommand, CanWrite, PdoRead, PdoWrite
<1>2. PdoWrite(c) => call[c].impl = "pdo"
  BY DEF PdoWrite
<1> QED BY <1>1, <1>2, ResolveSteps, ExecuteSteps, AcquireSteps, ModbusSteps, PublishSteps, CanSteps, PdoReadSteps,
           PdoWriteSteps, Zenon DEF CapStep

-----------------------------------------------------------------------------
(* The invariant of the calls. *)
\* What the calls need of each other and of the device.
TextRight(c) ==
  IF capStage[c] = "resolve" THEN Resolving(call[c], text[c], at[c]) ELSE text[c] = Resolved(call[c])
Alone(c, impl) == \A d \in Callers \ {c} : call[d].impl = impl => capStage[d] # "done"
HighFirst(k) == Width(k.type) = 2 \/ ~LittleEndian(k.order)
RegistersHold(c) ==
  LET words == EncodeModbusWords(text[c], call[c].type, call[c].order)
  IN  Sent(c, "modbus") /\ HighFirst(call[c]) /\ Alone(c, "modbus") =>
        words # Bad /\ \A i \in 1..Len(words) : regs[call[c].unit][call[c].offset + i - 1] = words[i]
\* The slaves nobody has written hold what they held.
SlavesApart(c) ==
  Alone(c, "modbus") => \A u \in Units : u # call[c].unit => \A r \in Registers : regs[u][r] = 0
FrameHolds(c) ==
  Sent(c, "can") /\ Alone(c, "can") =>
    EncodeCanFrameData(text[c], call[c]) # Bad /\ frame = EncodeCanFrameData(text[c], call[c])
HoldsBus(c) == capStage[c] = "write" => call[c].impl = "pdo" /\ busHolder = c /\ seen[c] = image
InImage(c) == Sent(c, "pdo") => call[c].offset + call[c].length <= ImageSize

CapInv ==
  /\ CapTypes
  /\ \A c \in Callers :
       /\ capStage[c] # "done" => capResult[c] # "ok"
       /\ TextRight(c) /\ RegistersHold(c) /\ SlavesApart(c) /\ FrameHolds(c) /\ HoldsBus(c) /\ InImage(c)
  /\ WindowsSurvive

LEMMA PlaceValueIs ==
  ASSUME NEW c, NEW x PROVE PlaceValue(c, x) = ValueOf(call[c], x)
  BY DEF PlaceValue, ValueOf
LEMMA PlacesAre == ASSUME NEW c PROVE Places(c) = PlacesIn(text[c], at[c])
  BY DEF Places, PlacesIn

\* The text of a call, and that it stays when it is resolved.
LEMMA TextKept ==
  ASSUME CapInv, NEW c \in Callers, AnyStep(c)
  PROVE  /\ text' \in [Callers -> Seq(Symbols)] /\ at' \in [Callers -> Nat]
         /\ \A d \in Callers : TextRight(d)'
         /\ \A d \in Callers : capStage[d] # "resolve" => text'[d] = text[d]
<1>1. /\ call' = call /\ LeavesOthers(c) /\ GoesOn(c) /\ CapTypes
      /\ \A d \in Callers : TextRight(d)
  BY DEF AnyStep, KeepsTypes, CapInv
<1>2. ASSUME NEW d \in Callers, d # c PROVE TextRight(d)'
  <2>1. capStage'[d] = capStage[d] /\ text'[d] = text[d] /\ at'[d] = at[d]
    BY <1>1, <1>2 DEF LeavesOthers
  <2>2. Resolving(call[d], text[d], at[d])' = Resolving(call[d], text[d], at[d]) /\ Resolved(call[d])' = Resolved(call[d])
    BY <1>1, <2>1
  <2> QED BY <1>1, <2>1, <2>2 DEF TextRight
<1>3. CASE Resolve(c)
  <2> DEFINE k == call[c]
             t == text[c]
             a == at[c]
             i == Sets!Min(PlacesIn(t, a))
             v == ValueOf(k, t[i])
             new == SubSeq(t, 1, i - 1) \o v \o SubSeq(t, i + 1, Len(t))
  <2>1. k \in CapCalls /\ t \in Seq(Symbols) /\ a \in Nat
    BY <1>1 DEF CapTypes
  <2>2. capStage[c] = "resolve" /\ PlacesIn(t, a) # {} /\ capStage' = capStage
    BY <1>3, PlacesAre, Zenon DEF Resolve
  <2>3. text' = [text EXCEPT ![c] = new] /\ at' = [at EXCEPT ![c] = i - 1 + Len(v)]
    <3>1. ReplaceNext(c)
      BY <1>3 DEF Resolve
    <3> QED BY <3>1, PlacesAre, PlaceValueIs, Zenon DEF ReplaceNext
  <2>4. Resolving(k, t, a)
    BY <1>1, <2>2 DEF TextRight
  <2> HIDE DEF k, t, a, i, v
  <2>5. new \in Seq(Symbols) /\ Resolving(k, new, i - 1 + Len(v))
    BY <2>1, <2>2, <2>4, PlaceFilled DEF i, v
  <2>6. i - 1 + Len(v) \in Nat
    BY <2>1, <2>5, TextLength DEF Resolving
  <2> HIDE DEF new
  <2>7. text' \in [Callers -> Seq(Symbols)] /\ at' \in [Callers -> Nat] /\ text'[c] = new /\ at'[c] = i - 1 + Len(v)
    BY <1>1, <2>3, <2>5, <2>6 DEF CapTypes
  <2>8. TextRight(c)'
    <3>1. Resolving(call'[c], text'[c], at'[c])
      BY <1>1, <2>5, <2>7, Zenon DEF k
    <3>2. capStage'[c] = "resolve"
      BY <2>2
    <3> QED BY <3>1, <3>2, Zenon DEF TextRight, Resolving, Upto, FilledUp, FillsUp, Rest, Resolved, Fillings, Filling, ValueOf
  <2> QED BY <1>1, <1>2, <2>2, <2>7, <2>8 DEF LeavesOthers
<1>4. CASE ~Resolve(c)
  <2>1. text' = text /\ at' = at /\ capStage'[c] # "resolve" /\ (capStage[c] = "resolve" => Places(c) = {})
    BY <1>1, <1>4 DEF GoesOn
  <2>2. text[c] = Resolved(call[c])
    <3>1. CASE capStage[c] = "resolve"
      <4>1. Resolving(call[c], text[c], at[c]) /\ PlacesIn(text[c], at[c]) = {}
        BY <1>1, <2>1, <3>1, PlacesAre DEF TextRight
      <4>2. call[c] \in CapCalls /\ text[c] \in Seq(Symbols) /\ at[c] \in Nat
        BY <1>1 DEF CapTypes
      <4> QED BY <4>1, <4>2, NoPlaceLeft
    <3>2. CASE capStage[c] # "resolve"
      BY <1>1, <3>2 DEF TextRight
    <3> QED BY <3>1, <3>2
  <2>3. TextRight(c)'
    <3>1. Resolved(call[c])' = Resolved(call[c])
      BY <1>1
    <3> QED BY <1>1, <2>1, <2>2, <3>1 DEF TextRight
  <2> QED BY <1>1, <1>2, <2>1, <2>3 DEF CapTypes
<1> QED BY <1>3, <1>4

-----------------------------------------------------------------------------
(* Registers and frame after a step. *)
LEMMA StaysDone ==
  ASSUME CapInv, NEW c \in Callers, AnyStep(c), NEW d \in Callers
  PROVE  /\ call' = call
         /\ capStage[d] = "done" => capStage'[d] = "done" /\ text'[d] = text[d] /\ capResult'[d] = capResult[d]
         /\ d # c => capResult'[d] = capResult[d] /\ capStage'[d] = capStage[d]
         /\ capResult'[d] = "ok" => capStage'[d] = "done"
<1>1. call' = call /\ LeavesOthers(c) /\ capStage[c] # "done" /\ (capResult'[c] = "ok" => capStage'[c] = "done")
  BY DEF AnyStep, KeepsTypes, GoesOn
<1>2. capStage[d] # "done" => capResult[d] # "ok"
  BY DEF CapInv
<1>3. CASE d = c
  BY <1>1, <1>3
<1>4. CASE d # c
  BY <1>1, <1>2, <1>4 DEF LeavesOthers
<1> QED BY <1>3, <1>4

LEMMA RegistersStep ==
  ASSUME CapInv, NEW c \in Callers, AnyStep(c), NEW d \in Callers
  PROVE  RegistersHold(d)'
<1> DEFINE k == call[d]
           t == text[d]
           words == EncodeModbusWords(t, k.type, k.order)
<1> SUFFICES ASSUME Sent(d, "modbus")', HighFirst(call[d])', Alone(d, "modbus")'
             PROVE  text'[d] = t /\ words # Bad /\ \A i \in 1..Len(words) : regs'[k.unit][k.offset + i - 1] = words[i]
  <2>1. call' = call
    BY StaysDone
  <2>2. EncodeModbusWords(text[d], call[d].type, call[d].order)' = EncodeModbusWords(text'[d], call'[d].type, call'[d].order)
    BY Zenon DEF EncodeModbusWords, Parses, Bytes, Unsigned
  <2> QED BY <2>1, <2>2, Zenon DEF RegistersHold
<1>1. call' = call /\ capResult'[d] = "ok" /\ k.impl = "modbus" /\ HighFirst(k)
  BY StaysDone DEF Sent, HighFirst
<1>2. \A e \in Callers \ {d} : call[e].impl = "modbus" => capStage'[e] # "done"
  BY <1>1 DEF Alone
<1>3. CapTypes /\ k \in CapCalls /\ t \in Seq(Symbols)
  BY DEF CapInv, CapTypes
<1>4. CASE d = c
  <2>1. words # Bad /\ regs' = Written(words, k)
    BY <1>1, <1>4 DEF AnyStep, DeviceSteps
  <2>2. text'[d] = t
    <3>1. ~Resolve(c)
      <4>1. capStage'[c] = "done"
        BY <1>1, <1>4, StaysDone
      <4>2. Resolve(c) => capStage'[c] = "resolve"
        BY DEF Resolve
      <4> QED BY <4>1, <4>2
    <3> QED BY <1>4, <3>1 DEF AnyStep, GoesOn
  <2>3. Len(words) = Width(k.type) \div 2
    BY <1>1, <1>3, <2>1, CallIs, WordsDecode DEF HighFirst
  <2>4. ASSUME NEW i \in 1..Len(words) PROVE regs'[k.unit][k.offset + i - 1] = words[i]
    <3> DEFINE r == k.offset + i - 1
               n == Len(words)
    <3>1. r \in Registers
      BY <1>1, <1>3, <2>3, CallIs
    <3>2. k.offset \in Nat /\ i \in Int
      BY <1>3, CallIs
    <3>3. r - k.offset + 1 = i
      BY <3>2
    <3>4. i \in 1..n
      OBVIOUS
    <3> HIDE DEF r, n, words
    <3>0. k.unit \in Units
      BY <1>3, CallIs
    <3> HIDE DEF k
    <3>5. regs'[k.unit][r] = IF r - k.offset + 1 \in 1..Len(words) THEN words[r - k.offset + 1] ELSE regs[k.unit][r]
      BY <2>1, <3>0, <3>1, Zenon DEF Written
    <3> QED BY <3>3, <3>4, <3>5, Zenon DEF r, n
  <2> QED BY <2>1, <2>2, <2>4
<1>5. CASE d # c
  <2>1. capStage[d] = "done" /\ capResult[d] = "ok" /\ text'[d] = t
    <3>1. capResult[d] = "ok"
      BY <1>1, <1>5, StaysDone
    <3>2. capStage[d] = "done"
      BY <3>1 DEF CapInv
    <3> QED BY <3>1, <3>2, StaysDone
  <2>2. Alone(d, "modbus")
    <3>1. ASSUME NEW e \in Callers \ {d}, call[e].impl = "modbus" PROVE capStage[e] # "done"
      <4>1. capStage[e] = "done" => capStage'[e] = "done"
        BY StaysDone
      <4> QED BY <1>2, <3>1, <4>1
    <3> QED BY <3>1 DEF Alone
  <2>3. regs' = regs
    <3>1. call[c].impl = "modbus" => capStage'[c] # "done"
      BY <1>2, <1>5
    <3> QED BY <3>1 DEF AnyStep, DeviceSteps
  <2>4. RegistersHold(d)
    BY DEF CapInv
  <2>5. words # Bad /\ \A i \in 1..Len(words) : regs[k.unit][k.offset + i - 1] = words[i]
    BY <1>1, <2>1, <2>2, <2>4, Zenon DEF RegistersHold, Sent
  <2> HIDE DEF words, k
  <2> QED BY <2>1, <2>3, <2>5, Zenon
<1> QED BY <1>4, <1>5

LEMMA SlavesStep ==
  ASSUME CapInv, NEW c \in Callers, AnyStep(c), NEW d \in Callers
  PROVE  SlavesApart(d)'
<1> SUFFICES ASSUME Alone(d, "modbus")', NEW u \in Units, u # call[d].unit
             PROVE  regs'[u] = regs[u] /\ Alone(d, "modbus")
  <2>1. call' = call
    BY StaysDone
  <2>2. SlavesApart(d)
    BY DEF CapInv
  <2> QED BY <2>1, <2>2, Zenon DEF SlavesApart
<1>1. \A e \in Callers \ {d} : call[e].impl = "modbus" => capStage'[e] # "done"
  <2>1. call' = call
    BY StaysDone
  <2> QED BY <2>1 DEF Alone
<1>2. Alone(d, "modbus")
  <2>1. ASSUME NEW e \in Callers \ {d}, call[e].impl = "modbus" PROVE capStage[e] # "done"
    <3>1. capStage[e] = "done" => capStage'[e] = "done"
      BY StaysDone
    <3> QED BY <1>1, <2>1, <3>1
  <2> QED BY <2>1 DEF Alone
<1>3. regs'[u] = regs[u]
  <2>1. CASE c = d
    BY <2>1, Zenon DEF AnyStep, DeviceSteps, OtherSlavesKept
  <2>2. CASE c # d
    <3>1. call[c].impl = "modbus" => capStage'[c] # "done"
      BY <1>1, <2>2
    <3> QED BY <3>1 DEF AnyStep, DeviceSteps
  <2> QED BY <2>1, <2>2
<1> QED BY <1>2, <1>3

LEMMA FrameStep ==
  ASSUME CapInv, NEW c \in Callers, AnyStep(c), NEW d \in Callers
  PROVE  FrameHolds(d)'
<1> DEFINE k == call[d]
           t == text[d]
           data == EncodeCanFrameData(t, k)
<1> SUFFICES ASSUME Sent(d, "can")', Alone(d, "can")' PROVE text'[d] = t /\ data # Bad /\ frame' = data
  <2>1. call' = call
    BY StaysDone
  <2> QED BY <2>1, ZenonT(90) DEF FrameHolds, EncodeCanFrameData, EncodeValueToBytes, Parses, Bytes
<1>1. call' = call /\ capResult'[d] = "ok" /\ k.impl = "can"
  BY StaysDone DEF Sent
<1>2. \A e \in Callers \ {d} : call[e].impl = "can" => capStage'[e] # "done"
  BY <1>1 DEF Alone
<1>4. CASE d = c
  <2>1. data # Bad /\ frame' = data
    BY <1>1, <1>4 DEF AnyStep, DeviceSteps
  <2>2. text'[d] = t
    <3>1. ~Resolve(c)
      <4>1. capStage'[c] = "done"
        BY <1>1, <1>4, StaysDone
      <4>2. Resolve(c) => capStage'[c] = "resolve"
        BY DEF Resolve
      <4> QED BY <4>1, <4>2
    <3> QED BY <1>4, <3>1 DEF AnyStep, GoesOn
  <2> QED BY <2>1, <2>2
<1>5. CASE d # c
  <2>1. capStage[d] = "done" /\ capResult[d] = "ok" /\ text'[d] = t
    <3>1. capResult[d] = "ok"
      BY <1>1, <1>5, StaysDone
    <3>2. capStage[d] = "done"
      BY <3>1 DEF CapInv
    <3> QED BY <3>1, <3>2, StaysDone
  <2>2. Alone(d, "can")
    <3>1. ASSUME NEW e \in Callers \ {d}, call[e].impl = "can" PROVE capStage[e] # "done"
      <4>1. capStage[e] = "done" => capStage'[e] = "done"
        BY StaysDone
      <4> QED BY <1>2, <3>1, <4>1
    <3> QED BY <3>1 DEF Alone
  <2>3. frame' = frame
    <3>1. call[c].impl = "can" => capStage'[c] # "done"
      BY <1>2, <1>5
    <3> QED BY <3>1 DEF AnyStep, DeviceSteps
  <2>4. FrameHolds(d)
    BY DEF CapInv
  <2>5. data # Bad /\ frame = data
    BY <1>1, <2>1, <2>2, <2>4, Zenon DEF FrameHolds, Sent
  <2> HIDE DEF data, k
  <2> QED BY <2>1, <2>3, <2>5, Zenon
<1> QED BY <1>4, <1>5

-----------------------------------------------------------------------------
(* The lock of the bus and the output image. *)
LEMMA BusStep ==
  ASSUME CapInv, NEW c \in Callers, AnyStep(c), NEW d \in Callers PROVE HoldsBus(d)' /\ InImage(d)'
<1>1. ImageSteps(c) /\ LeavesOthers(c) /\ call' = call /\ HoldsBus(c) /\ HoldsBus(d) /\ InImage(d) /\ image \in Images
  BY StaysDone DEF AnyStep, CapInv, CapTypes
<1>2. NoCaller # d
  BY CapAssumption
<1>3. CASE d = c
  <2>1. HoldsBus(d)'
    BY <1>1, <1>3 DEF HoldsBus, ImageSteps
  <2>2. ASSUME Sent(c, "pdo")' PROVE call[c].offset + call[c].length <= ImageSize
    <3> DEFINE o == call[c].offset
               l == call[c].length
    <3>1. capResult'[c] = "ok" /\ call[c].impl = "pdo"
      BY <1>1, <2>2 DEF Sent
    <3>2. capStage[c] = "write" /\ ~(o + l > Len(seen[c]))
      BY <1>1, <3>1 DEF ImageSteps
    <3>3. seen[c] = image
      BY <1>1, <3>2 DEF HoldsBus
    <3>4. ImageSize \in Nat
      BY CapAssumption
    <3>5. Len(image) = ImageSize
      BY <1>1, <3>4 DEF Images
    <3>6. o \in Nat /\ l \in Nat
      <4>1. call[c] \in CapCalls
        BY DEF CapInv, CapTypes
      <4> QED BY <4>1, CallIs
    <3> HIDE DEF o, l
    <3>7. ~(o + l > ImageSize)
      BY <3>2, <3>3, <3>5
    <3>8. o + l <= ImageSize
      BY <3>4, <3>6, <3>7
    <3> QED BY <3>8 DEF o, l
  <2>3. InImage(d)'
    BY <1>1, <1>3, <2>2 DEF InImage
  <2> QED BY <2>1, <2>3
<1>4. CASE d # c
  <2>1. capStage'[d] = capStage[d] /\ seen'[d] = seen[d] /\ capResult'[d] = capResult[d]
    BY <1>1, <1>4 DEF LeavesOthers
  <2>2. InImage(d)'
    BY <1>1, <2>1 DEF InImage, Sent
  <2>3. ASSUME capStage[d] = "write" PROVE busHolder' = d /\ image' = image
    <3>1. busHolder = d
      BY <1>1, <2>3 DEF HoldsBus
    <3>2. capStage[c] # "write"
      BY <1>1, <1>4, <3>1 DEF HoldsBus
    <3> QED BY <1>1, <1>2, <1>4, <3>1, <3>2 DEF ImageSteps
  <2>4. HoldsBus(d)'
    BY <1>1, <2>1, <2>3 DEF HoldsBus
  <2> QED BY <2>2, <2>4
<1> QED BY <1>3, <1>4

\* The bytes a call puts in, by its text.
PdoOf(k, t) ==
  LET encoded == EncodeValueToBytes(t, k.type, k.order)
  IN  SubSeq(encoded, 1, Sets!Min({k.length, Len(encoded)}))

LEMMA PdoBytesAre == ASSUME NEW c PROVE PdoBytes(c) = PdoOf(call[c], text[c])
  BY Zenon DEF PdoBytes, PdoOf

LEMMA PdoFits ==
  ASSUME NEW k \in CapCalls, NEW t \in Seq(Symbols)
  PROVE  PdoOf(k, t) \in Seq(Nat) /\ Len(PdoOf(k, t)) \in Nat /\ Len(PdoOf(k, t)) <= k.length
<1> DEFINE e == EncodeValueToBytes(t, k.type, k.order)
           m == Sets!Min({k.length, Len(e)})
<1>1. k.type \in Types /\ k.length \in Nat
  BY CallIs
<1>2. e \in Seq(Nat)
  BY <1>1, EncodingIs
<1>3. PdoOf(k, t) = SubSeq(e, 1, m)
  BY Zenon DEF PdoOf
<1> HIDE DEF e
<1>4. Len(e) \in Nat
  BY <1>2
<1>5. m \in Nat /\ m <= k.length /\ m <= Len(e)
  BY <1>1, <1>4, SmallerIs
<1> HIDE DEF m
<1>6. \A i \in 1..m : i \in 1..Len(e)
  BY <1>4, <1>5
<1>7. \A i \in 1..m : e[i] \in Nat
  BY <1>2, <1>6, ElementOfSeq, Zenon
<1>8. SubSeq(e, 1, m) \in Seq(Nat) /\ Len(SubSeq(e, 1, m)) = IF 1 <= m THEN m - 1 + 1 ELSE 0
  BY <1>2, <1>5, <1>6, <1>7, SubSeqProperties
<1>9. Len(SubSeq(e, 1, m)) = m
  BY <1>5, <1>8
<1> QED BY <1>3, <1>5, <1>8, <1>9, Zenon

-----------------------------------------------------------------------------
(* Windows of the image. *)
\* What a call has put in stays its own: its bytes and its window.
LEMMA SentStays ==
  ASSUME CapInv, NEW c \in Callers, AnyStep(c), NEW d \in Callers
  PROVE  /\ Sent(d, "pdo")' => text'[d] = text[d] /\ PdoBytes(d)' = PdoBytes(d) /\ PdoWindow(d)' = PdoWindow(d)
         /\ Sent(d, "pdo") => Sent(d, "pdo")'
         /\ d # c \/ ~Sent(c, "pdo")' => (Sent(d, "pdo")' => Sent(d, "pdo"))
<1>1. call' = call
  BY StaysDone
<1>2. Sent(d, "pdo") => Sent(d, "pdo")'
  <2>1. Sent(d, "pdo") => capStage[d] = "done"
    BY DEF CapInv, Sent
  <2> QED BY <1>1, <2>1, StaysDone DEF Sent
<1>3. ASSUME Sent(d, "pdo")' PROVE text'[d] = text[d]
  <2>1. capResult'[d] = "ok" /\ capStage'[d] = "done"
    BY <1>3, StaysDone DEF Sent
  <2>2. CASE d = c
    <3>1. Resolve(c) => capStage'[c] = "resolve"
      BY DEF Resolve
    <3> QED BY <2>1, <2>2, <3>1 DEF AnyStep, GoesOn
  <2>3. CASE d # c
    BY <2>3 DEF AnyStep, LeavesOthers
  <2> QED BY <2>2, <2>3
<1>4. ASSUME Sent(d, "pdo")' PROVE PdoBytes(d)' = PdoBytes(d) /\ PdoWindow(d)' = PdoWindow(d)
  <2>1. text'[d] = text[d] /\ call'[d] = call[d]
    BY <1>1, <1>3, <1>4
  <2>2. PdoBytes(d)' = LET encoded == EncodeValueToBytes(text'[d], call'[d].type, call'[d].order)
                       IN  SubSeq(encoded, 1, Sets!Min({call'[d].length, Len(encoded)}))
    BY Zenon DEF PdoBytes, EncodeValueToBytes, Parses, Bytes, Sets!Min
  <2>3. PdoBytes(d)' = PdoBytes(d)
    BY <2>1, <2>2, Zenon DEF PdoBytes
  <2>4. PdoWindow(d)' = PdoWindow(d)
    BY <2>1, <2>3 DEF PdoWindow
  <2> QED BY <2>3, <2>4
<1>5. d # c \/ ~Sent(c, "pdo")' => (Sent(d, "pdo")' => Sent(d, "pdo"))
  BY <1>1 DEF AnyStep, LeavesOthers, Sent
<1> QED BY <1>2, <1>3, <1>4, <1>5

\* The image after a step: as it was, or the window of the caller put into it.
Overlaid(c) ==
  image' = [i \in 1..ImageSize |-> IF i - call[c].offset \in 1..Len(PdoBytes(c)) THEN PdoBytes(c)[i - call[c].offset] ELSE image[i]]
LEMMA ImageIs ==
  ASSUME CapInv, NEW c \in Callers, AnyStep(c)
  PROVE  /\ Sent(c, "pdo")' => Overlaid(c)
         /\ ~Sent(c, "pdo")' => image' = image
<1>1. ImageSteps(c) /\ call' = call /\ HoldsBus(c)
  BY StaysDone DEF AnyStep, CapInv
<1>2. ASSUME Sent(c, "pdo")' PROVE Overlaid(c)
  <2>1. capResult'[c] = "ok" /\ call[c].impl = "pdo"
    BY <1>1, <1>2 DEF Sent
  <2>2. capStage[c] = "write" 
    BY <1>1, <2>1 DEF ImageSteps
  <2>3. seen[c] = image
    BY <1>1, <2>2 DEF HoldsBus
  <2>4. image' = [i \in 1..ImageSize |-> IF i - call[c].offset \in 1..Len(PdoBytes(c)) THEN PdoBytes(c)[i - call[c].offset] ELSE seen[c][i]]
    BY <1>1, <2>1, Zenon DEF ImageSteps
  <2> QED BY <2>3, <2>4, Zenon DEF Overlaid
<1>3. ~Sent(c, "pdo")' => image' = image
  BY <1>1 DEF ImageSteps, Sent
<1> QED BY <1>2, <1>3

LEMMA TypesStep ==
  ASSUME CapInv, NEW c \in Callers, AnyStep(c) PROVE CapTypes'
<1>1. /\ call' = call /\ capStage' \in [Callers -> CapStages] /\ capResult' \in [Callers -> {"none", "ok", "failed"}]
      /\ seen' = [d \in Callers |-> seen'[d]]
  BY DEF AnyStep, KeepsTypes
<1>2. text' \in [Callers -> Seq(Symbols)] /\ at' \in [Callers -> Nat]
  BY TextKept
<1>3. CapTypes
  BY DEF CapInv
<1>4. image' \in Images
  <2> DEFINE B == PdoBytes(c)
             o == call[c].offset
  <2>1. CASE Overlaid(c)
    <3>1. call[c] \in CapCalls /\ text[c] \in Seq(Symbols) /\ image \in [1..ImageSize -> Nat]
      BY <1>3 DEF CapTypes, Images
    <3>2. B \in Seq(Nat)
      BY <3>1, PdoFits, PdoBytesAre
    <3>3. image' = [i \in 1..ImageSize |-> IF i - o \in 1..Len(B) THEN B[i - o] ELSE image[i]]
      BY <2>1, Zenon DEF Overlaid
    <3> HIDE DEF B, o
    <3>4. \A i \in 1..Len(B) : B[i] \in Nat
      BY <3>2, ElementOfSeq
    <3>5. \A i \in 1..ImageSize : (IF i - o \in 1..Len(B) THEN B[i - o] ELSE image[i]) \in Nat
      BY <3>1, <3>4
    <3> QED BY <3>3, <3>5, Zenon DEF Images
  <2>2. CASE image' = image
    BY <1>3, <2>2 DEF CapTypes
  <2> QED BY <2>1, <2>2, ImageIs
<1> QED BY <1>1, <1>2, <1>3, <1>4 DEF CapTypes

\* The two halves of WindowsSurvive, for one call and for one byte.
Survives(c) ==
  (Sent(c, "pdo") /\ \A d \in Callers \ {c} : Sent(d, "pdo") => PdoWindow(c) \cap PdoWindow(d) = {})
  => \A i \in 1..Len(PdoBytes(c)) : image[call[c].offset + i] = PdoBytes(c)[i]
Owned(i) == image[i] # 0 => \E c \in Callers : Sent(c, "pdo") /\ i \in PdoWindow(c)
LEMMA Windows ==
  WindowsSurvive <=> (\A c \in Callers : Survives(c)) /\ \A i \in 1..ImageSize : Owned(i)
BY Zenon DEF WindowsSurvive, Survives, Owned

LEMMA InWindow ==
  ASSUME CapInv, NEW d \in Callers, Sent(d, "pdo") \/ call[d].offset + call[d].length <= ImageSize,
         NEW i \in 1..Len(PdoBytes(d))
  PROVE  /\ call[d].offset + i \in 1..ImageSize /\ call[d].offset + i \in PdoWindow(d)
         /\ (call[d].offset + i) - call[d].offset = i
<1> DEFINE o == call[d].offset
           l == call[d].length
           B == PdoBytes(d)
<1>1. call[d] \in CapCalls /\ text[d] \in Seq(Symbols) /\ o + l <= ImageSize
  BY DEF CapInv, CapTypes, InImage
<1>2. o \in Nat /\ l \in Nat
  BY <1>1, CallIs
<1>3. Len(B) \in Nat /\ Len(B) <= l
  BY <1>1, PdoFits, PdoBytesAre
<1>4. ImageSize \in Nat
  BY CapAssumption
<1>5. o + i \in PdoWindow(d)
  BY Zenon DEF PdoWindow
<1> DEFINE n == Len(B)
<1>6. i \in 1..n
  OBVIOUS
<1> HIDE DEF o, l, B, n
<1>7. n \in Nat /\ n <= l
  BY <1>3 DEF n
<1>8. o + i \in 1..ImageSize /\ (o + i) - o = i
  BY <1>1, <1>2, <1>4, <1>6, <1>7
<1> QED BY <1>5, <1>8 DEF o

-----------------------------------------------------------------------------
(* Every step keeps the invariant. *)
LEMMA SurvivesStep ==
  ASSUME CapInv, NEW c \in Callers, AnyStep(c), NEW d \in Callers PROVE Survives(d)'
<1>1. call' = call
  BY StaysDone
<1>2. SUFFICES ASSUME Sent(d, "pdo")',
                      \A e \in Callers \ {d} : Sent(e, "pdo")' => PdoWindow(d)' \cap PdoWindow(e)' = {},
                      NEW i \in 1..Len(PdoBytes(d))
               PROVE  image'[call[d].offset + i] = PdoBytes(d)[i]
  <2>1. Sent(d, "pdo")' => PdoBytes(d)' = PdoBytes(d)
    BY SentStays
  <2> QED BY <1>1, <2>1, Zenon DEF Survives
<1>3. \A e \in Callers \ {d} : Sent(e, "pdo")' => PdoWindow(d) \cap PdoWindow(e) = {}
  BY <1>2, SentStays
<1> DEFINE x == call[d].offset + i
<1>4. CASE d = c
  <2> DEFINE o == call[c].offset
             B == PdoBytes(c)
  <2>1. Overlaid(c) /\ InImage(d)'
    BY <1>2, <1>4, ImageIs, BusStep
  <2>2. call[d].offset + call[d].length <= ImageSize
    BY <1>1, <1>2, <2>1 DEF InImage
  <2>3. x \in 1..ImageSize /\ x - call[d].offset = i
    BY <2>2, InWindow
  <2>4. image' = [j \in 1..ImageSize |-> IF j - o \in 1..Len(B) THEN B[j - o] ELSE image[j]]
    BY <2>1, Zenon DEF Overlaid
  <2>5. x - o = i /\ i \in 1..Len(B)
    BY <1>4, <2>3
  <2> HIDE DEF x, o, B
  <2>6. image'[x] = IF x - o \in 1..Len(B) THEN B[x - o] ELSE image[x]
    BY <2>3, <2>4, Zenon
  <2>7. image'[x] = B[i]
    BY <2>5, <2>6, Zenon
  <2> QED BY <1>4, <2>7, Zenon DEF x, B
<1>5. CASE d # c
  <2>1. Sent(d, "pdo") /\ Survives(d)
    BY <1>2, <1>5, SentStays, Windows DEF CapInv
  <2>2. \A e \in Callers \ {d} : Sent(e, "pdo") => PdoWindow(d) \cap PdoWindow(e) = {}
    <3>1. ASSUME NEW e \in Callers \ {d}, Sent(e, "pdo") PROVE PdoWindow(d) \cap PdoWindow(e) = {}
      <4>1. Sent(e, "pdo")'
        BY <3>1, SentStays
      <4> QED BY <1>3, <4>1
    <3> QED BY <3>1
  <2>3. image[x] = PdoBytes(d)[i]
    BY <2>1, <2>2, Zenon DEF Survives
  <2>4. x \in 1..ImageSize /\ x \in PdoWindow(d)
    BY <2>1, InWindow
  <2>5. CASE ~Sent(c, "pdo")'
    BY <2>3, <2>5, ImageIs, Zenon
  <2>6. CASE Sent(c, "pdo")'
    <3> DEFINE o == call[c].offset
               B == PdoBytes(c)
    <3>1. image' = [j \in 1..ImageSize |-> IF j - o \in 1..Len(B) THEN B[j - o] ELSE image[j]]
      BY <2>6, ImageIs, Zenon DEF Overlaid
    <3>2. x \notin PdoWindow(c)
      BY <1>3, <1>5, <2>4, <2>6
    <3>3. ~(x - o \in 1..Len(B))
      <4>1. o \in Nat /\ x \in Int
        <5>1. call[c] \in CapCalls
          BY DEF CapInv, CapTypes
        <5> QED BY <5>1, <2>4, CallIs
      <4> HIDE DEF x
      <4>2. ASSUME x - o \in 1..Len(B) PROVE x \in PdoWindow(c)
        <5>1. o + (x - o) = x
          BY <4>1
        <5> QED BY <4>2, <5>1, Zenon DEF PdoWindow
      <4> QED BY <3>2, <4>2
    <3> HIDE DEF x, o, B
    <3>4. image'[x] = image[x]
      BY <2>4, <3>1, <3>3, Zenon
    <3> QED BY <2>3, <3>4, Zenon DEF x
  <2> QED BY <2>5, <2>6
<1> QED BY <1>4, <1>5

LEMMA OwnedStep ==
  ASSUME CapInv, NEW c \in Callers, AnyStep(c), NEW i \in 1..ImageSize PROVE Owned(i)'
<1>1. ASSUME image[i] # 0 PROVE \E d \in Callers : Sent(d, "pdo")' /\ i \in PdoWindow(d)'
  <2>1. PICK d \in Callers : Sent(d, "pdo") /\ i \in PdoWindow(d)
    BY <1>1, Windows DEF CapInv, Owned
  <2> QED BY <2>1, SentStays
<1>2. CASE ~Sent(c, "pdo")'
  <2>1. image' = image
    BY <1>2, ImageIs
  <2> QED BY <1>1, <2>1 DEF Owned
<1>3. CASE Sent(c, "pdo")'
  <2> DEFINE o == call[c].offset
             B == PdoBytes(c)
  <2>1. image' = [j \in 1..ImageSize |-> IF j - o \in 1..Len(B) THEN B[j - o] ELSE image[j]]
    BY <1>3, ImageIs, Zenon DEF Overlaid
  <2>2. CASE i - o \in 1..Len(B)
    <3>1. o \in Nat /\ i \in Int
      <4>1. call[c] \in CapCalls
        BY DEF CapInv, CapTypes
      <4> QED BY <4>1, CallIs
    <3>2. o + (i - o) = i
      BY <3>1
    <3>3. i \in PdoWindow(c)
      BY <2>2, <3>2, Zenon DEF PdoWindow
    <3>4. i \in PdoWindow(c)'
      BY <1>3, <3>3, SentStays
    <3> QED BY <1>3, <3>4 DEF Owned
  <2>3. CASE ~(i - o \in 1..Len(B))
    <3> HIDE DEF o, B
    <3>1. image'[i] = image[i]
      BY <2>1, <2>3, Zenon
    <3> QED BY <1>1, <3>1 DEF Owned
  <2> QED BY <2>2, <2>3
<1> QED BY <1>2, <1>3

LEMMA CapInvSteps ==
  ASSUME CapInv, CapNext PROVE CapInv'
<1>1. PICK c \in Callers : CapStep(c)
  BY DEF CapNext
<1>2. CapTypes /\ (capStage[c] # "done" => capResult[c] # "ok") /\ (capStage[c] = "write" => call[c].impl = "pdo")
  BY DEF CapInv, HoldsBus
<1>3. AnyStep(c)
  BY <1>1, <1>2, EveryStep
<1>4. CapTypes'
  BY <1>3, TypesStep
<1>5. ASSUME NEW d \in Callers
      PROVE  /\ capStage'[d] # "done" => capResult'[d] # "ok"
             /\ TextRight(d)' /\ RegistersHold(d)' /\ SlavesApart(d)' /\ FrameHolds(d)' /\ HoldsBus(d)' /\ InImage(d)'
  BY <1>3, StaysDone, TextKept, RegistersStep, SlavesStep, FrameStep, BusStep
<1>6. WindowsSurvive'
  <2>1. (\A d \in Callers : Survives(d)') /\ \A i \in 1..ImageSize : Owned(i)'
    BY <1>3, SurvivesStep, OwnedStep
  <2> QED BY <2>1, Zenon DEF WindowsSurvive, Survives, Owned
<1> QED BY <1>4, <1>5, <1>6 DEF CapInv

LEMMA CapInvStutters == CapInv /\ UNCHANGED capVars => CapInv'
<1> SUFFICES ASSUME CapInv, UNCHANGED capVars PROVE CapInv'
  OBVIOUS
<1>1. /\ call' = call /\ capStage' = capStage /\ text' = text /\ at' = at /\ busHolder' = busHolder
      /\ seen' = seen /\ regs' = regs /\ frame' = frame /\ image' = image /\ capResult' = capResult
  BY DEF capVars
<1>2. CapTypes'
  BY <1>1 DEF CapInv, CapTypes
<1>3. WindowsSurvive'
  <2>1. \A c \in Callers : PdoBytes(c)' = PdoBytes(c) /\ PdoWindow(c)' = PdoWindow(c)
    BY <1>1 DEF PdoBytes, PdoWindow
  <2>2. WindowsSurvive
    BY DEF CapInv
  <2> QED BY <1>1, <2>1, <2>2, Zenon DEF WindowsSurvive, Sent
<1>4. ASSUME NEW d \in Callers
      PROVE  /\ capStage'[d] # "done" => capResult'[d] # "ok"
             /\ TextRight(d)' /\ RegistersHold(d)' /\ SlavesApart(d)' /\ FrameHolds(d)' /\ HoldsBus(d)' /\ InImage(d)'
  <2>1. /\ capStage[d] # "done" => capResult[d] # "ok"
        /\ TextRight(d) /\ RegistersHold(d) /\ SlavesApart(d) /\ FrameHolds(d) /\ HoldsBus(d) /\ InImage(d)
    BY DEF CapInv
  <2>2. Resolving(call[d], text[d], at[d])' = Resolving(call[d], text[d], at[d]) /\ Resolved(call[d])' = Resolved(call[d])
    BY <1>1
  <2>3. TextRight(d)'
    BY <1>1, <2>1, <2>2 DEF TextRight
  <2>4. EncodeModbusWords(text[d], call[d].type, call[d].order)' = EncodeModbusWords(text[d], call[d].type, call[d].order)
    BY <1>1
  <2>5. RegistersHold(d)'
    BY <1>1, <2>1, <2>4, Zenon DEF RegistersHold, Sent, HighFirst, Alone
  <2>9. SlavesApart(d)'
    BY <1>1, <2>1, Zenon DEF SlavesApart, Alone
  <2>6. EncodeCanFrameData(text[d], call[d])' = EncodeCanFrameData(text[d], call[d])
    BY <1>1
  <2>7. FrameHolds(d)'
    BY <1>1, <2>1, <2>6, Zenon DEF FrameHolds, Sent, Alone
  <2>8. HoldsBus(d)' /\ InImage(d)'
    BY <1>1, <2>1 DEF HoldsBus, InImage, Sent
  <2> QED BY <1>1, <2>1, <2>3, <2>5, <2>7, <2>8, <2>9
<1> QED BY <1>2, <1>3, <1>4 DEF CapInv

-----------------------------------------------------------------------------
(* The calls are sound. *)
LEMMA CapInvAtFirst == CapInit => CapInv
<1> SUFFICES ASSUME CapInit PROVE CapInv
  OBVIOUS
<1>1. /\ call \in [Callers -> CapCalls] /\ capStage = [c \in Callers |-> "resolve"]
      /\ text = [c \in Callers |-> call[c].template] /\ at = [c \in Callers |-> 0]
      /\ seen = [c \in Callers |-> Bad] /\ image = [i \in 1..ImageSize |-> 0]
      /\ capResult = [c \in Callers |-> "none"]
  BY DEF CapInit
<1>2. ASSUME NEW c \in Callers
      PROVE  /\ text[c] \in Seq(Symbols) /\ Resolving(call[c], text[c], at[c])
             /\ capStage[c] = "resolve" /\ capResult[c] = "none"
  <2>1. call[c] \in CapCalls /\ text[c] = call[c].template /\ at[c] = 0
    BY <1>1
  <2> QED BY <1>1, <2>1, NothingFilled
<1>3. CapTypes
  <2>1. text \in [Callers -> Seq(Symbols)]
    BY <1>1, <1>2
  <2>2. /\ capStage \in [Callers -> CapStages] /\ capResult \in [Callers -> {"none", "ok", "failed"}]
        /\ at \in [Callers -> Nat] /\ image \in Images /\ seen = [c \in Callers |-> seen[c]]
    BY <1>1 DEF CapStages, Images
  <2> QED BY <1>1, <2>1, <2>2 DEF CapTypes
<1>4. ASSUME NEW c \in Callers
      PROVE  /\ capStage[c] # "done" => capResult[c] # "ok"
             /\ TextRight(c) /\ RegistersHold(c) /\ SlavesApart(c) /\ FrameHolds(c) /\ HoldsBus(c) /\ InImage(c)
  <2>1. \A u \in Units : \A r \in Registers : regs[u][r] = 0
    BY DEF CapInit
  <2> QED BY <1>2, <2>1 DEF TextRight, RegistersHold, SlavesApart, FrameHolds, HoldsBus, InImage, Sent
<1>5. WindowsSurvive
  <2>1. \A c \in Callers : Survives(c)
    BY <1>2 DEF Survives, Sent
  <2>2. \A i \in 1..ImageSize : Owned(i)
    BY <1>1 DEF Owned
  <2> QED BY <2>1, <2>2, Windows
<1> QED BY <1>3, <1>4, <1>5 DEF CapInv

LEMMA TextsReplaced == CapInv => PlacesReplacedOnce
<1> SUFFICES ASSUME CapInv, NEW c \in Callers, capStage[c] # "resolve"
             PROVE  text[c] = Seqs!FlattenSeq([i \in 1..Len(call[c].template) |->
                      IF call[c].template[i] \in Names THEN PlaceValue(c, call[c].template[i]) ELSE <<call[c].template[i]>>])
  BY DEF PlacesReplacedOnce
<1>1. text[c] = Resolved(call[c])
  BY DEF CapInv, TextRight
<1>2. Fillings(call[c]) = [i \in 1..Len(call[c].template) |->
        IF call[c].template[i] \in Names THEN PlaceValue(c, call[c].template[i]) ELSE <<call[c].template[i]>>]
  BY PlaceValueIs, Zenon DEF Fillings, Filling
<1> QED BY <1>1, <1>2, Zenon DEF Resolved

LEMMA RegistersReadBack == CapInv => ReadsBackWritten
<1> SUFFICES ASSUME CapInv, NEW c \in Callers, Sent(c, "modbus"), HighFirst(call[c]), Alone(c, "modbus")
             PROVE  /\ call[c].reader # call[c].unit => \A r \in Registers : regs[call[c].reader][r] = 0
                    /\ ReadBack(call[c].unit, call[c].offset, call[c].type, -1) = text[c]
  BY Zenon DEF ReadsBackWritten, HighFirst, Alone
<1> DEFINE k == call[c]
           m == Width(k.type) \div 2
           words == EncodeModbusWords(text[c], k.type, k.order)
<1>1. k \in CapCalls /\ text[c] \in Seq(Symbols) /\ RegistersHold(c) /\ SlavesApart(c)
  BY DEF CapInv, CapTypes
<1>0. k.reader # k.unit => \A r \in Registers : regs[k.reader][r] = 0
  <2>1. k.reader \in Units
    BY <1>1, CallIs
  <2> QED BY <1>1, <2>1 DEF SlavesApart
<1>2. words # Bad /\ \A i \in 1..Len(words) : regs[k.unit][k.offset + i - 1] = words[i]
  BY <1>1, Zenon DEF RegistersHold
<1>3. k.type \in Types
  BY <1>1, CallIs
<1>4. Len(words) = m /\ CapabilityDecode(Seqs!FlattenSeq([i \in 1..m |-> Bytes(words[i], 2)]), k.type, "big", -1) = text[c]
  BY <1>1, <1>2, <1>3, WordsDecode, Zenon DEF HighFirst
<1> HIDE DEF words, m, k
<1>5. [i \in 1..m |-> Bytes(words[i], 2)] = [i \in 1..m |-> Bytes(regs[k.unit][k.offset + i - 1], 2)]
  BY <1>2, <1>4, Zenon
<1>6. ReadBack(k.unit, k.offset, k.type, -1)
        = CapabilityDecode(Seqs!FlattenSeq([i \in 1..m |-> Bytes(regs[k.unit][k.offset + i - 1], 2)]), k.type, "big", -1)
  BY Zenon DEF ReadBack, m
<1> QED BY <1>0, <1>4, <1>5, <1>6, Zenon DEF k

LEMMA FrameReadBack == CapInv => FrameCarriesValue
<1> SUFFICES ASSUME CapInv, NEW c \in Callers, Sent(c, "can"), call[c].length = Width(call[c].type), Alone(c, "can")
             PROVE  /\ ReadCanFrame(frame, call[c]) = text[c]
                    /\ \A i \in 1..8 : i - call[c].offset \in 1..call[c].length \/ frame[i] = 0
  BY Zenon DEF FrameCarriesValue, Alone
<1>1. call[c] \in CapCalls /\ text[c] \in Seq(Symbols) /\ FrameHolds(c)
  BY DEF CapInv, CapTypes
<1>2. EncodeCanFrameData(text[c], call[c]) # Bad /\ frame = EncodeCanFrameData(text[c], call[c])
  BY <1>1, Zenon DEF FrameHolds
<1> DEFINE k == call[c]
           t == text[c]
           data == EncodeCanFrameData(t, k)
<1>3. k.type \in Types /\ k.offset \in Nat /\ k.length = Width(k.type)
  BY <1>1, CallIs
<1>4. ReadCanFrame(data, k) = t /\ \A i \in 1..8 : i - k.offset \in 1..k.length \/ data[i] = 0
  <2> HIDE DEF k, t
  <2>1. t \in Seq(Symbols) /\ EncodeCanFrameData(t, k) # Bad
    BY <1>1, <1>2 DEF k, t
  <2> QED BY <1>3, <2>1, FrameDecodes DEF data
<1>5. frame = data
  BY <1>2
<1> HIDE DEF data
<1> QED BY <1>4, <1>5

\* The texts, the registers, the frame and the output image are what the calls
\* that finished asked for; a reader of the slave a call has written decodes its
\* value, and one that is told another slave what that slave held before
\* (nodes-io/src/capability_call, device_signal_read).
THEOREM CallsAreSound == CapSpec => []CallsSound
<1>1. CapInit => CapInv
  BY CapInvAtFirst
<1>2. CapInv /\ [CapNext]_capVars => CapInv'
  BY CapInvSteps, CapInvStutters
<1>3. CapInv => CallsSound
  <2>1. CapInv => WindowsSurvive
    BY DEF CapInv
  <2> QED BY <2>1, TextsReplaced, RegistersReadBack, FrameReadBack DEF CallsSound
<1> QED BY <1>1, <1>2, <1>3, PTL DEF CapSpec
==============================================================================
