--------------------------- MODULE DataPlaneProofs ---------------------------
(***************************************************************************)
(* Theorems about DataPlane, for every graph, pool and buffer size.        *)
(***************************************************************************)
EXTENDS DataPlane, FiniteSetTheorems, TLAPS

USE DEF Proc, Chan, Ref

(***************************************************************************)
(* Lemmas about the topology and the helpers.                              *)
(***************************************************************************)

\* A process only sends over edges of the graph.
LEMMA TargetsAreEdges == \A p \in Proc : Targets(p) \subseteq Edge
  BY DEF Targets, OutEdges, ResultEdge

\* A node sends to its downstream nodes and to the result stream.
LEMMA NodeTargets ==
  ASSUME NEW n \in Node
  PROVE  Targets(n) = OutEdges(n) \cup ResultEdge(n)
  BY DataPlaneAssumption DEF Targets

\* What a node fans out to is part of its targets.
LEMMA SelectionsAreTargets ==
  ASSUME NEW n \in Node, NEW T \in Selections(n)
  PROVE  /\ T \subseteq Targets(n)
         /\ ResultEdge(n) \subseteq Targets(n)
  BY NodeTargets DEF Selections

\* An edge leads to a channel.
LEMMA DstIsChan == \A e \in Edge : Dst[e] \in Chan
  BY DataPlaneAssumption

\* The next target is one of the pending ones.
LEMMA NextIsPending == \A p : NextTarget(p) \subseteq pend[p]
  BY DEF NextTarget

\* Releasing and writing keep the counts natural.
LEMMA ReleaseType ==
  ASSUME NEW d, NEW k \in Nat, store \in [Data -> Nat], Release(d, k)
  PROVE  store' \in [Data -> Nat]
<1>1. CASE d \in Data
  BY <1>1 DEF Release
<1>2. CASE d \notin Data
  BY <1>2 DEF Release
<1> QED BY <1>1, <1>2

\* Writing a payload sets a natural count.
LEMMA WriteType ==
  ASSUME NEW d \in Data, NEW T, IsFiniteSet(T), store \in [Data -> Nat], Write(d, T)
  PROVE  store' \in [Data -> Nat]
  BY FS_CardinalityType DEF Write

\* Finiteness of the edge list carries over to every set of targets.
LEMMA FiniteTargets ==
  ASSUME NEW T \in SUBSET Edge
  PROVE  IsFiniteSet(T) /\ Cardinality(T) \in Nat
  BY DataPlaneAssumption, FS_Subset, FS_CardinalityType

(***************************************************************************)
(* Type correctness, one step per action.                                  *)
(***************************************************************************)

\* While a node dispatches the outputs of a transform, one of them is still
\* to be counted: without this todo could leave the naturals.  Only nodes
\* drop references.
DispatchInv ==
  /\ \A n \in Node : pc[n] \in {"emit", "send", "check"} => todo[n] > 0
  /\ \A p \in Proc \ Node : pc[p] # "check"

TypeInv == TypeOK /\ DispatchInv

\* The initial state is typed.
LEMMA TypeInit == Init => TypeInv
  BY DataPlaneAssumption DEF Init, TypeOK, DispatchInv, TypeInv

\* Publishing for targets of the process.
LEMMA PublishType ==
  ASSUME TypeInv, NEW p \in Proc, NEW T \in SUBSET Targets(p), T # {},
         p \in Node => pc[p] = "emit",
         Publish(p, T), UNCHANGED todo
  PROVE  TypeInv'
<1>1. PICK d \in Data : /\ Write(d, T)
                       /\ cur'  = [cur EXCEPT ![p] = d]
                       /\ pend' = [pend EXCEPT ![p] = T]
                       /\ pc'   = [pc EXCEPT ![p] = "send"]
                       /\ UNCHANGED <<queue, open, leaked>>
  BY DEF Publish, Fresh
<1>2. T \in SUBSET Edge /\ IsFiniteSet(T)
  BY TargetsAreEdges, FiniteTargets
<1>3. store' \in [Data -> Nat]
  BY <1>1, <1>2, WriteType DEF TypeOK, TypeInv
<1>4. d # 0
  BY DataPlaneAssumption
<1>5. TypeOK'
  BY <1>1, <1>2, <1>3, <1>4 DEF TypeOK, TypeInv
<1>6. DispatchInv'
  BY <1>1 DEF TypeOK, TypeInv, DispatchInv
<1> QED BY <1>5, <1>6 DEF TypeInv

\* Serving a target keeps the variables of the process typed.
LEMMA ServedType ==
  ASSUME TypeInv, NEW p \in Proc, NEW e, pc[p] \in {"send", "check"},
         Served(p, e)
  PROVE  /\ pc' \in [Proc -> {"idle", "transform", "emit", "send", "check", "stopped"}]
         /\ cur' \in [Proc -> Data \cup {0}]
         /\ pend' \in [Proc -> SUBSET Edge]
         /\ \A q \in Proc :
              pend'[q] \subseteq Targets(q) /\ (pend'[q] # {} => cur'[q] # 0)
         /\ todo' \in [Node -> Nat]
         /\ DispatchInv'
<1>1. pend' = [pend EXCEPT ![p] = @ \ {e}]
  BY DEF Served
<1>2. cur' = [cur EXCEPT ![p] = IF pend[p] = {e} THEN 0 ELSE @]
  BY DEF Served
<1>3. cur' \in [Proc -> Data \cup {0}] /\ pend' \in [Proc -> SUBSET Edge]
  BY <1>1, <1>2 DEF TypeOK, TypeInv
<1>4. \A q \in Proc :
         pend'[q] \subseteq Targets(q) /\ (pend'[q] # {} => cur'[q] # 0)
  BY <1>1, <1>2 DEF TypeOK, TypeInv
<1>5. CASE pend[p] # {e}
  <2>1. pc' = [pc EXCEPT ![p] = "send"] /\ todo' = todo
    BY <1>5 DEF Served
  <2> QED BY <2>1, <1>3, <1>4 DEF TypeOK, TypeInv, DispatchInv
<1>6. CASE pend[p] = {e} /\ p \in Node
  <2>1. /\ todo' = [todo EXCEPT ![p] = @ - 1]
        /\ pc' = [pc EXCEPT ![p] = IF todo[p] > 1 THEN "emit" ELSE "idle"]
    BY <1>6 DEF Served, OutputDone
  <2>2. todo[p] \in Nat /\ todo[p] > 0
    BY <1>6 DEF TypeOK, TypeInv, DispatchInv
  <2>3. todo[p] - 1 \in Nat /\ (todo[p] > 1 => todo[p] - 1 > 0)
    BY <2>2
  <2>4. todo' \in [Node -> Nat]
    BY <2>1, <2>3 DEF TypeOK, TypeInv
  <2>5. pc' \in [Proc -> {"idle", "transform", "emit", "send", "check", "stopped"}]
    BY <2>1 DEF TypeOK, TypeInv
  <2>6. DispatchInv'
    BY <1>6, <2>1, <2>3 DEF TypeOK, TypeInv, DispatchInv
  <2> QED BY <2>4, <2>5, <2>6, <1>3, <1>4
<1>7. CASE pend[p] = {e} /\ p \notin Node
  <2>1. pc' = [pc EXCEPT ![p] = "idle"] /\ todo' = todo
    BY <1>7 DEF Served
  <2> QED BY <1>7, <2>1, <1>3, <1>4 DEF TypeOK, TypeInv, DispatchInv
<1> QED BY <1>5, <1>6, <1>7

\* The end of a task.
LEMMA StopType ==
  ASSUME TypeInv, NEW n \in Node, store' \in [Data -> Nat], Stop(n)
  PROVE  TypeInv'
<1>1. Elems(queue[n]) \subseteq Ref
  BY DEF Elems, TypeOK, TypeInv
<1>2. queue' \in [Chan -> Seq(Ref)] /\ leaked' \subseteq Ref
  BY <1>1 DEF Stop, TypeOK, TypeInv
<1>3. TypeOK'
  BY <1>2 DEF Stop, TypeOK, TypeInv
<1> QED BY <1>3 DEF Stop, TypeOK, TypeInv, DispatchInv

\* The references of a process in a fan-out are natural in number.
LEMMA PendCount ==
  ASSUME TypeInv, NEW p \in Proc
  PROVE  Cardinality(pend[p]) \in Nat
  BY FiniteTargets DEF TypeOK, TypeInv

\* Every step keeps the variables typed.
LEMMA TypeNext == TypeInv /\ [Next]_vars => TypeInv'
<1> SUFFICES ASSUME TypeInv, [Next]_vars PROVE TypeInv'
  OBVIOUS
<1> USE DEF TypeInv
<1>1. ASSUME NEW n \in Node, Receive(n) PROVE TypeInv'
  <2>1. Head(queue[n]) \in Ref /\ Tail(queue[n]) \in Seq(Ref)
    BY <1>1 DEF Receive, TypeOK
  <2>2. store' \in [Data -> Nat]
    BY <1>1, <2>1, ReleaseType DEF Receive, TypeOK
  <2>3. queue' \in [Chan -> Seq(Ref)]
    BY <1>1, <2>1 DEF Receive, TypeOK
  <2>4. TypeOK'
    BY <1>1, <2>2, <2>3 DEF Receive, TypeOK
  <2>5. DispatchInv'
    BY <1>1 DEF Receive, TypeOK, DispatchInv
  <2> QED BY <2>4, <2>5
<1>2. ASSUME NEW n \in Node, TransformFails(n) PROVE TypeInv'
  BY <1>2 DEF TransformFails, TypeOK, DispatchInv
<1>3. ASSUME NEW n \in Node, TransformReturns(n) PROVE TypeInv'
  <2>1. PICK k \in 0..MaxOutputs :
          /\ todo' = [todo EXCEPT ![n] = k]
          /\ pc'   = [pc EXCEPT ![n] = IF k > 0 THEN "emit" ELSE "idle"]
    BY <1>3 DEF TransformReturns
  <2>2. k \in Nat
    BY DataPlaneAssumption
  <2>3. TypeOK'
    BY <1>3, <2>1, <2>2 DEF TransformReturns, TypeOK
  <2>4. DispatchInv'
    BY <1>3, <2>1, <2>2 DEF TypeOK, DispatchInv
  <2> QED BY <2>3, <2>4
<1>4. ASSUME NEW n \in Node, CacheOnly(n) PROVE TypeInv'
  <2>1. /\ todo' = [todo EXCEPT ![n] = @ - 1]
        /\ pc' = [pc EXCEPT ![n] = IF todo[n] > 1 THEN "emit" ELSE "idle"]
        /\ UNCHANGED <<store, queue, open, cur, pend, leaked>>
    BY <1>4 DEF CacheOnly, OutputDone
  <2>2. todo[n] \in Nat /\ todo[n] > 0
    BY <1>4 DEF CacheOnly, TypeOK, DispatchInv
  <2>3. todo[n] - 1 \in Nat /\ (todo[n] > 1 => todo[n] - 1 > 0)
    BY <2>2
  <2>4. TypeOK'
    BY <2>1, <2>3 DEF TypeOK
  <2>5. DispatchInv'
    BY <2>1, <2>3 DEF TypeOK, DispatchInv
  <2> QED BY <2>4, <2>5
<1>5. ASSUME NEW n \in Node, WriteOutput(n) PROVE TypeInv'
  <2>1. PICK S \in Selections(n) :
          Publish(n, IF S = {} THEN ResultEdge(n) ELSE S)
    BY <1>5 DEF WriteOutput
  <2>2. ResultEdge(n) # {}
    BY DataPlaneAssumption
  <2>3. PICK T \in SUBSET Targets(n) : T # {} /\ Publish(n, T)
    BY <2>1, <2>2, SelectionsAreTargets
  <2> QED BY <1>5, <2>3, PublishType DEF WriteOutput
<1>6. ASSUME NEW p \in Proc, SendOk(p) PROVE TypeInv'
  <2>1. PICK e \in NextTarget(p) :
          /\ queue' = [queue EXCEPT ![Dst[e]] = Append(@, <<cur[p], e>>)]
          /\ Served(p, e)
    BY <1>6 DEF SendOk
  <2>2. e \in pend[p] /\ e \in Edge
    BY <2>1, NextIsPending DEF TypeOK
  <2>3. <<cur[p], e>> \in Ref
    BY <2>2 DEF TypeOK
  <2>4. queue' \in [Chan -> Seq(Ref)]
    <3>1. Dst[e] \in Chan
      BY <2>2, DstIsChan
    <3>2. Append(queue[Dst[e]], <<cur[p], e>>) \in Seq(Ref)
      BY <3>1, <2>3 DEF TypeOK
    <3> QED BY <2>1, <3>1, <3>2 DEF TypeOK
  <2>5. pc[p] \in {"send", "check"} /\ UNCHANGED <<store, open, leaked>>
    BY <1>6 DEF SendOk
  <2> QED BY <2>1, <2>4, <2>5, ServedType, SMTT(60) DEF TypeOK
<1>7. ASSUME NEW n \in Node, TrySendFull(n) PROVE TypeInv'
  <2>1. store' \in [Data -> Nat]
    BY <1>7, ReleaseType DEF TrySendFull, TypeOK
  <2> QED BY <1>7, <2>1 DEF TrySendFull, TypeOK, DispatchInv
<1>8. ASSUME NEW n \in Node, DropChecked(n) PROVE TypeInv'
  <2>1. PICK e : Served(n, e)
    BY <1>8 DEF DropChecked
  <2>2. pc[n] \in {"send", "check"} /\ UNCHANGED <<store, queue, open, leaked>>
    BY <1>8 DEF DropChecked
  <2> QED BY <2>1, <2>2, ServedType, SMTT(60) DEF TypeOK
<1>9. ASSUME NEW n \in Node, NodeSendClosed(n) PROVE TypeInv'
  <2>1. store' \in [Data -> Nat]
    BY <1>9, ReleaseType, PendCount DEF NodeSendClosed, TypeOK
  <2> QED BY <1>9, <2>1, StopType DEF NodeSendClosed
<1>10. ASSUME NEW n \in Node, InputsClosed(n) PROVE TypeInv'
  BY <1>10, StopType DEF InputsClosed, TypeOK
<1>11. ASSUME NEW t \in Trigger, Emit(t) PROVE TypeInv'
  BY <1>11, PublishType, DataPlaneAssumption DEF Emit
<1>12. ASSUME NEW t \in Trigger, TriggerSendClosed(t) PROVE TypeInv'
  <2>1. PICK e : Served(t, e)
    BY <1>12 DEF TriggerSendClosed
  <2>2. store' \in [Data -> Nat]
    BY <1>12, ReleaseType DEF TriggerSendClosed, TypeOK
  <2>3. pc[t] \in {"send", "check"} /\ UNCHANGED <<queue, open, leaked>>
    BY <1>12 DEF TriggerSendClosed
  <2> QED BY <2>1, <2>2, <2>3, ServedType DEF TypeOK
<1>13. ASSUME NEW c \in Client, Submit(c) PROVE TypeInv'
  <2>1. PICK T \in SUBSET Targets(c) : T # {} /\ Publish(c, T)
    BY <1>13 DEF Submit
  <2> QED BY <1>13, <2>1, PublishType, DataPlaneAssumption DEF Submit
<1>14. ASSUME NEW c \in Client, ClientSendClosed(c) PROVE TypeInv'
  <2>1. store' \in [Data -> Nat]
    BY <1>14, ReleaseType, PendCount DEF ClientSendClosed, TypeOK
  <2>2. c \notin Node
    BY DataPlaneAssumption
  <2> QED BY <1>14, <2>1, <2>2 DEF ClientSendClosed, TypeOK, DispatchInv
<1>15. CASE Consume
  <2>1. Head(queue[Sink]) \in Ref /\ Tail(queue[Sink]) \in Seq(Ref)
    BY <1>15 DEF Consume, TypeOK
  <2>2. store' \in [Data -> Nat]
    BY <1>15, <2>1, ReleaseType DEF Consume, TypeOK
  <2>3. queue' \in [Chan -> Seq(Ref)]
    BY <1>15, <2>1 DEF Consume, TypeOK
  <2> QED BY <1>15, <2>2, <2>3 DEF Consume, TypeOK, DispatchInv
<1>16. ASSUME NEW c \in Client, StopClient(c) PROVE TypeInv'
  <2>1. {<<cur[c], e>> : e \in pend[c]} \subseteq Ref
    BY DEF TypeOK
  <2>2. c \notin Node
    BY DataPlaneAssumption
  <2> QED BY <1>16, <2>1, <2>2 DEF StopClient, TypeOK, DispatchInv
<1>17. ASSUME NEW t \in Trigger, StopTrigger(t) PROVE TypeInv'
  <2>1. t \notin Node
    BY DataPlaneAssumption
  <2> QED BY <1>17, <2>1 DEF StopTrigger, TypeOK, DispatchInv
<1>18. CASE CloseSink
  <2>1. Elems(queue[Sink]) \subseteq Ref
    BY DEF Elems, TypeOK
  <2> QED BY <1>18, <2>1 DEF CloseSink, TypeOK, DispatchInv
<1>19. CASE UNCHANGED vars
  BY <1>19 DEF vars, TypeOK, DispatchInv
<1> QED
  BY <1>1, <1>2, <1>3, <1>4, <1>5, <1>6, <1>7, <1>8, <1>9, <1>10, <1>11, <1>12,
     <1>13, <1>14, <1>15, <1>16, <1>17, <1>18, <1>19
  DEF Next, Running, Undeploy, NodeStep, TriggerStep, ClientStep

\* Type correctness: the data plane never leaves its types; in particular a
\* count never becomes negative and a process serves only its own targets.
THEOREM TypeCorrect == Spec => []TypeOK
<1>1. TypeInv => TypeOK
  BY DEF TypeInv
<1> QED BY <1>1, TypeInit, TypeNext, PTL DEF Spec

(***************************************************************************)
(* Reference counting.  The references are spread over places: the queues, *)
(* the processes that still have to serve them, and leaked.  The counts    *)
(* are right because a reference is never in two places at once.           *)
(***************************************************************************)

\* The references a process still has to serve.
Pending(p) == {cur[p]} \X Unserved(p)

Distinct(s) == \A i, j \in 1..Len(s) : i # j => s[i] # s[j]

\* Every reference is in one place.
PlaceInv ==
  /\ \A p \in Proc : pend[p] # {} => pc[p] \in {"send", "check"}
  /\ \A p, q \in Proc : p # q /\ pend[p] # {} /\ pend[q] # {} => cur[p] # cur[q]
  /\ \A c \in Chan : Distinct(queue[c])
  /\ \A c \in Chan : \A r \in Elems(queue[c]) : Dst[r[2]] = c
  /\ \A c \in Chan : \A p \in Proc : Elems(queue[c]) \cap Pending(p) = {}
  /\ \A c \in Chan : Elems(queue[c]) \cap leaked = {}
  /\ \A p \in Proc : Pending(p) \cap leaked = {}

\* What a queue holds after a send.
LEMMA ElemsAppend ==
  ASSUME NEW s \in Seq(Ref), NEW x \in Ref
  PROVE  /\ Elems(Append(s, x)) = Elems(s) \cup {x}
         /\ Distinct(s) /\ x \notin Elems(s) => Distinct(Append(s, x))
<1> DEFINE a == Append(s, x)
<1>1. Len(a) = Len(s) + 1 /\ Len(s) \in Nat
  OBVIOUS
<1>2. \A i \in 1..Len(s) : a[i] = s[i]
  OBVIOUS
<1>3. a[Len(s) + 1] = x
  OBVIOUS
<1> HIDE DEF a
<1>4. Elems(a) = Elems(s) \cup {x}
  BY <1>1, <1>2, <1>3, SMTT(60) DEF Elems
<1>5. Distinct(s) /\ x \notin Elems(s) => Distinct(a)
  BY <1>1, <1>2, <1>3 DEF Elems, Distinct
<1> QED BY <1>4, <1>5 DEF a

\* What a queue holds after a receive.
LEMMA ElemsTail ==
  ASSUME NEW s \in Seq(Ref), s # <<>>, Distinct(s)
  PROVE  /\ Head(s) \in Elems(s)
         /\ Elems(Tail(s)) = Elems(s) \ {Head(s)}
         /\ Distinct(Tail(s))
<1> DEFINE u == Tail(s)
<1>1. Len(s) \in Nat /\ Len(s) > 0 /\ Len(u) = Len(s) - 1 /\ Head(s) = s[1]
  OBVIOUS
<1>2. \A i \in 1..Len(u) : u[i] = s[i + 1]
  OBVIOUS
<1> HIDE DEF u
<1>3. Head(s) \in Elems(s)
  BY <1>1 DEF Elems
<1>4. Elems(u) \subseteq Elems(s) \ {Head(s)}
  <2> SUFFICES ASSUME NEW i \in 1..Len(u) PROVE u[i] \in Elems(s) /\ u[i] # Head(s)
    BY DEF Elems
  <2>1. i + 1 \in 1..Len(s) /\ i + 1 # 1 /\ 1 \in 1..Len(s)
    BY <1>1
  <2> QED BY <1>1, <1>2, <2>1 DEF Elems, Distinct
<1>5. Elems(s) \ {Head(s)} \subseteq Elems(u)
  <2> SUFFICES ASSUME NEW i \in 1..Len(s), s[i] # Head(s) PROVE s[i] \in Elems(u)
    BY DEF Elems
  <2>1. i # 1
    BY <1>1
  <2>2. i - 1 \in 1..Len(u) /\ (i - 1) + 1 = i
    BY <1>1, <2>1
  <2> QED BY <1>2, <2>2 DEF Elems
<1>6. Distinct(u)
  <2> SUFFICES ASSUME NEW i \in 1..Len(u), NEW j \in 1..Len(u), i # j PROVE u[i] # u[j]
    BY DEF Distinct
  <2>1. i + 1 \in 1..Len(s) /\ j + 1 \in 1..Len(s) /\ i + 1 # j + 1
    BY <1>1
  <2> QED BY <1>2, <2>1 DEF Distinct
<1> QED BY <1>3, <1>4, <1>5, <1>6 DEF u

\* An empty queue holds nothing.
LEMMA ElemsEmpty == Elems(<<>>) = {} /\ Distinct(<<>>)
  BY DEF Elems, Distinct

\* A reference is outstanding if it is in one of the places, now ...
LEMMA OutstandingNow ==
  \A r : r \in Outstanding <=>
    \/ \E c \in Chan : r \in Elems(queue[c])
    \/ \E p \in Proc : r \in Pending(p)
    \/ r \in leaked
  BY DEF Outstanding, Pending

\* ... and after a step.
LEMMA OutstandingNext ==
  \A r : r \in Outstanding' <=>
    \/ \E c \in Chan : r \in Elems(queue[c])'
    \/ \E p \in Proc : r \in Pending(p)'
    \/ r \in leaked'
  BY DEF Outstanding, Pending

\* The places hold references.
LEMMA OutstandingType == TypeInv => Outstanding \subseteq Ref
<1> SUFFICES ASSUME TypeInv PROVE Outstanding \subseteq Ref
  OBVIOUS
<1>1. \A c \in Chan : Elems(queue[c]) \subseteq Ref
  BY DEF Elems, TypeInv, TypeOK
<1>2. \A p \in Proc : Unserved(p) \subseteq pend[p]
  BY DEF Unserved
<1>3. \A p \in Proc : Pending(p) \subseteq Ref
  <2> SUFFICES ASSUME NEW p \in Proc, NEW e \in Unserved(p)
               PROVE  <<cur[p], e>> \in Ref
    BY DEF Pending
  <2>1. e \in pend[p] /\ e \in Edge
    BY <1>2 DEF TypeInv, TypeOK
  <2> QED BY <2>1 DEF TypeInv, TypeOK
<1> QED BY <1>1, <1>3, OutstandingNow DEF TypeInv, TypeOK

\* The references to one payload are finite in number.
LEMMA RefsFinite ==
  ASSUME TypeInv, NEW d
  PROVE  IsFiniteSet(RefsTo(d))
<1>1. IsFiniteSet({d} \X Edge)
  BY DataPlaneAssumption, FS_Singleton, FS_Product
<1>2. RefsTo(d) \subseteq {d} \X Edge
  BY OutstandingType DEF RefsTo
<1> QED BY <1>1, <1>2, FS_Subset

\* One reference per target.
LEMMA RefsPerTarget ==
  ASSUME NEW d, NEW T \in SUBSET Edge
  PROVE  /\ IsFiniteSet({d} \X T)
         /\ Cardinality({d} \X T) = Cardinality(T)
<1>1. IsFiniteSet({d}) /\ Cardinality({d}) = 1
  BY FS_Singleton
<1>2. IsFiniteSet(T) /\ Cardinality(T) \in Nat
  BY FiniteTargets
<1>3. /\ IsFiniteSet({d} \X T)
      /\ Cardinality({d} \X T) = Cardinality({d}) * Cardinality(T)
  BY <1>1, <1>2, FS_Product, Zenon
<1> QED BY <1>1, <1>2, <1>3

\* What a step may do to the references: nothing, publish a payload nobody
\* refers to for some targets, or settle some references of one payload.
LedgerMove ==
  \/ Outstanding' = Outstanding
  \/ \E d \in Data, T \in SUBSET Edge :
       /\ T # {}
       /\ \/ RefsTo(d) = {} /\ Outstanding' = Outstanding \cup ({d} \X T)
          \/ {d} \X T \subseteq Outstanding /\ Outstanding' = Outstanding \ ({d} \X T)

\* The counts are right after a step that does no more than that.
AccountsKept == RefsAccounted' /\ LedgerMove

\* Accounting for a new payload.
LEMMA AccountWrite ==
  ASSUME TypeInv, RefsAccounted, NEW d \in Data, NEW T \in SUBSET Edge,
         d \notin {r[1] : r \in Outstanding},
         Outstanding' = Outstanding \cup ({d} \X T), Write(d, T)
  PROVE  AccountsKept
<1>1. RefsTo(d)' = {d} \X T
  BY DEF RefsTo
<1>2. store'[d] = Cardinality(RefsTo(d)')
  <2>1. Cardinality({d} \X T) = Cardinality(T)
    BY RefsPerTarget
  <2>2. store'[d] = Cardinality(T)
    BY DEF Write, TypeInv, TypeOK
  <2> QED BY <1>1, <2>1, <2>2, Zenon
<1>3. \A x \in Data \ {d} : RefsTo(x)' = RefsTo(x) /\ store'[x] = store[x]
  BY DEF RefsTo, Write, TypeInv, TypeOK
<1>4. LedgerMove
  <2>1. CASE T = {}
    BY <2>1 DEF LedgerMove
  <2>2. RefsTo(d) = {}
    BY DEF RefsTo
  <2> QED BY <2>1, <2>2 DEF LedgerMove
<1> QED BY <1>2, <1>3, <1>4 DEF RefsAccounted, AccountsKept

\* Accounting for references that are released.
LEMMA AccountRelease ==
  ASSUME TypeInv, RefsAccounted, NEW d \in Data, NEW T \in SUBSET Edge,
         {d} \X T \subseteq Outstanding,
         Outstanding' = Outstanding \ ({d} \X T), Release(d, Cardinality(T))
  PROVE  AccountsKept
<1>1. /\ {d} \X T \subseteq RefsTo(d)
      /\ RefsTo(d)' = RefsTo(d) \ ({d} \X T)
  BY DEF RefsTo
<1>2. IsFiniteSet(RefsTo(d)) /\ Cardinality(RefsTo(d)) \in Nat
  BY RefsFinite, FS_CardinalityType
<1>3. /\ Cardinality(RefsTo(d)') = Cardinality(RefsTo(d)) - Cardinality(T)
      /\ Cardinality(T) <= Cardinality(RefsTo(d))
      /\ Cardinality(T) \in Nat
  <2>1. RefsTo(d) \cap ({d} \X T) = {d} \X T
    BY <1>1
  <2>2. Cardinality(RefsTo(d) \ ({d} \X T))
          = Cardinality(RefsTo(d)) - Cardinality({d} \X T)
    <3> DEFINE A == RefsTo(d)  B == {d} \X T
    <3>1. IsFiniteSet(A) /\ A \cap B = B
      BY <1>2, <2>1
    <3> HIDE DEF A, B
    <3>2. Cardinality(A \ B) = Cardinality(A) - Cardinality(B)
      BY <3>1, FS_Difference, ZenonT(90)
    <3> QED BY <3>2 DEF A, B
  <2>3. Cardinality({d} \X T) <= Cardinality(RefsTo(d))
    BY <1>1, <1>2, FS_Subset
  <2> QED BY <1>1, <2>2, <2>3, RefsPerTarget, FiniteTargets
<1>4. store'[d] = Cardinality(RefsTo(d)')
  BY <1>2, <1>3 DEF Release, RefsAccounted, TypeInv, TypeOK
<1>5. \A x \in Data \ {d} : RefsTo(x)' = RefsTo(x) /\ store'[x] = store[x]
  BY DEF RefsTo, Release, TypeInv, TypeOK
<1>6. LedgerMove
  <2>1. CASE T = {}
    BY <2>1 DEF LedgerMove
  <2> QED BY <2>1 DEF LedgerMove
<1> QED BY <1>4, <1>5, <1>6 DEF RefsAccounted, AccountsKept

\* Accounting for references that only change place.
LEMMA AccountSame ==
  ASSUME RefsAccounted, Outstanding' = Outstanding, store' = store
  PROVE  AccountsKept
  BY DEF RefsAccounted, RefsTo, AccountsKept, LedgerMove

\* What a queue holds and what a process has to serve are references.
LEMMA PlaceTypes ==
  ASSUME TypeInv
  PROVE  /\ \A c \in Chan : queue[c] \in Seq(Ref) /\ Elems(queue[c]) \subseteq Ref
         /\ \A p \in Proc : Unserved(p) \subseteq pend[p] /\ pend[p] \subseteq Edge
         /\ \A p \in Proc : Unserved(p) # {} => cur[p] \in Data
<1>1. \A c \in Chan : queue[c] \in Seq(Ref) /\ Elems(queue[c]) \subseteq Ref
  BY DEF Elems, TypeInv, TypeOK
<1>2. \A p \in Proc : Unserved(p) \subseteq pend[p] /\ pend[p] \subseteq Edge
  BY DEF Unserved, TypeInv, TypeOK
<1>3. \A p \in Proc : Unserved(p) # {} => cur[p] \in Data
  BY <1>2 DEF TypeInv, TypeOK
<1> QED BY <1>1, <1>2, <1>3

\* Two processes never have the same reference to serve.
LEMMA PendingApart ==
  ASSUME TypeInv, PlaceInv
  PROVE  \A p, q \in Proc : p # q => Pending(p) \cap Pending(q) = {}
  BY PlaceTypes DEF PlaceInv, Pending

CountInv == TypeInv /\ PlaceInv /\ RefsAccounted

\* Initially there are no references.
LEMMA CountInit == Init => PlaceInv /\ RefsAccounted
<1> SUFFICES ASSUME Init PROVE PlaceInv /\ RefsAccounted
  OBVIOUS
<1>1. \A p \in Proc : Unserved(p) = {} /\ Pending(p) = {} /\ pend[p] = {}
  BY DEF Init, Unserved, Pending
<1>2. \A c \in Chan : queue[c] = <<>> /\ Elems(queue[c]) = {}
  BY ElemsEmpty DEF Init
<1>3. PlaceInv
  BY <1>1, <1>2, ElemsEmpty DEF Init, PlaceInv
<1>4. Outstanding = {}
  BY <1>1, <1>2, OutstandingNow DEF Init
<1>5. RefsAccounted
  BY <1>4, FS_EmptySet DEF RefsAccounted, RefsTo, Init
<1> QED BY <1>3, <1>5

\* A step that touches no reference.
LEMMA IdleStep ==
  ASSUME CountInv, UNCHANGED <<store, queue, cur, pend, leaked>>,
         \A p \in Proc : pc'[p] = "check" <=> pc[p] = "check",
         \A p \in Proc : pend[p] # {} => pc'[p] \in {"send", "check"}
  PROVE  PlaceInv' /\ AccountsKept
<1>1. \A p \in Proc : Unserved(p)' = Unserved(p) /\ Pending(p)' = Pending(p)
  BY DEF Unserved, NextTarget, Pending
<1>2. \A c \in Chan : Elems(queue[c])' = Elems(queue[c])
  BY DEF Elems
<1>3. PlaceInv'
  BY <1>1, <1>2 DEF CountInv, PlaceInv
<1>4. Outstanding' = Outstanding
  BY <1>1, <1>2, OutstandingNow, OutstandingNext
<1> QED BY <1>3, <1>4, AccountSame DEF CountInv

\* A payload is published.
LEMMA PublishCounts ==
  ASSUME CountInv, NEW p \in Proc, NEW T \in SUBSET Targets(p), T # {},
         pc[p] \notin {"send", "check"}, Publish(p, T)
  PROVE  PlaceInv' /\ AccountsKept
<1> USE DEF CountInv
<1>1. PICK d \in Fresh : /\ Write(d, T)
                        /\ cur'  = [cur EXCEPT ![p] = d]
                        /\ pend' = [pend EXCEPT ![p] = T]
                        /\ pc'   = [pc EXCEPT ![p] = "send"]
                        /\ UNCHANGED <<queue, open, leaked>>
  BY DEF Publish
<1>2. /\ d \in Data
      /\ d \notin {r[1] : r \in Outstanding}
      /\ \A q \in Proc : cur[q] # d
  BY DEF Fresh
<1>3. pend[p] = {} /\ Pending(p) = {}
  BY PlaceTypes DEF PlaceInv, Pending
<1>4. T \in SUBSET Edge
  BY TargetsAreEdges
<1>5. Pending(p)' = {d} \X T
  BY <1>1 DEF Pending, Unserved, TypeInv, TypeOK
<1>6. \A q \in Proc \ {p} : Pending(q)' = Pending(q)
  BY <1>1 DEF Pending, Unserved, NextTarget, TypeInv, TypeOK
<1>7. \A c \in Chan : Elems(queue[c])' = Elems(queue[c])
  BY <1>1 DEF Elems
<1>8. Outstanding' = Outstanding \cup ({d} \X T)
  BY <1>1, <1>3, <1>5, <1>6, <1>7, OutstandingNow, OutstandingNext
<1>9. \A r \in {d} \X T : r \notin Outstanding
  BY <1>2
<1>10. PlaceInv'
  <2>1. \A q \in Proc : pend'[q] # {} => pc'[q] \in {"send", "check"}
    BY <1>1 DEF PlaceInv, TypeInv, TypeOK
  <2>2. \A q, s \in Proc :
           q # s /\ pend'[q] # {} /\ pend'[s] # {} => cur'[q] # cur'[s]
    BY <1>1, <1>2 DEF PlaceInv, TypeInv, TypeOK
  <2>3. \A c \in Chan : \A q \in Proc : (Elems(queue[c]) \cap Pending(q))' = {}
    BY <1>5, <1>6, <1>7, <1>9, OutstandingNow DEF PlaceInv
  <2>4. \A q \in Proc : (Pending(q) \cap leaked)' = {}
    BY <1>1, <1>5, <1>6, <1>9, OutstandingNow DEF PlaceInv
  <2> QED BY <1>1, <1>7, <2>1, <2>2, <2>3, <2>4 DEF PlaceInv
<1>11. AccountsKept
  BY <1>1, <1>2, <1>4, <1>8, AccountWrite
<1> QED BY <1>10, <1>11

\* Nodes and triggers serve one target at a time.
LEMMA NextIsUnique ==
  ASSUME TypeInv, NEW p \in Proc \ Client, NEW e \in NextTarget(p)
  PROVE  NextTarget(p) = {e}
<1>1. pend[p] \subseteq Nat
  BY DataPlaneAssumption, PlaceTypes
<1>2. NextTarget(p) = {x \in pend[p] : \A f \in pend[p] : x <= f}
  BY DEF NextTarget
<1> QED BY <1>1, <1>2

\* What is left to serve once target e is served.
LEMMA ServedPending ==
  ASSUME CountInv, NEW p \in Proc, NEW e \in pend[p],
         pc[p] \in {"send", "check"}, Served(p, e)
  PROVE  /\ Pending(p)' = {cur[p]} \X (pend[p] \ {e})
         /\ \A q \in Proc \ {p} : Pending(q)' = Pending(q)
         /\ \A q \in Proc : pend'[q] # {} => pc'[q] \in {"send", "check"}
         /\ \A q, s \in Proc :
              q # s /\ pend'[q] # {} /\ pend'[s] # {} => cur'[q] # cur'[s]
<1> USE DEF CountInv
<1>1. /\ pend' = [pend EXCEPT ![p] = @ \ {e}]
      /\ cur' = [cur EXCEPT ![p] = IF pend[p] = {e} THEN 0 ELSE @]
  BY DEF Served
<1>2. PICK x \in {"send", "emit", "idle"} :
        /\ pc' = [pc EXCEPT ![p] = x]
        /\ pend[p] # {e} => x = "send"
  BY DEF Served, OutputDone
<1>3. pend'[p] = pend[p] \ {e} /\ pc'[p] = x
  BY <1>1, <1>2 DEF TypeInv, TypeOK
<1>4. \A q \in Proc \ {p} : pend'[q] = pend[q] /\ cur'[q] = cur[q] /\ pc'[q] = pc[q]
  BY <1>1, <1>2 DEF TypeInv, TypeOK
<1>5. Pending(p)' = {cur[p]} \X (pend[p] \ {e})
  <2>1. Unserved(p)' = pend[p] \ {e}
    BY <1>2, <1>3 DEF Unserved
  <2>2. CASE pend[p] = {e}
    BY <2>1, <2>2 DEF Pending
  <2>3. CASE pend[p] # {e}
    BY <2>1, <2>3, <1>1 DEF Pending, TypeInv, TypeOK
  <2> QED BY <2>2, <2>3
<1>6. \A q \in Proc \ {p} : Pending(q)' = Pending(q)
  BY <1>4 DEF Pending, Unserved, NextTarget
<1>7. \A q \in Proc : pend'[q] # {} => pc'[q] \in {"send", "check"}
  BY <1>2, <1>3, <1>4 DEF PlaceInv
<1>8. pend'[p] # {} => cur'[p] = cur[p] /\ pend[p] # {}
  BY <1>1 DEF TypeInv, TypeOK
<1>9. \A q, s \in Proc :
         q # s /\ pend'[q] # {} /\ pend'[s] # {} => cur'[q] # cur'[s]
  BY <1>4, <1>8 DEF PlaceInv
<1> QED BY <1>5, <1>6, <1>7, <1>9

\* A reference moves from its sender to the queue.
LEMMA SendCounts ==
  ASSUME CountInv, NEW p \in Proc, SendOk(p)
  PROVE  PlaceInv' /\ AccountsKept
<1> USE DEF CountInv
<1>1. PICK e \in NextTarget(p) :
        /\ queue' = [queue EXCEPT ![Dst[e]] = Append(@, <<cur[p], e>>)]
        /\ Served(p, e)
  BY DEF SendOk
<1>2. pc[p] = "send" /\ UNCHANGED <<store, open, leaked>>
  BY DEF SendOk
<1>3. e \in pend[p] /\ e \in Edge /\ Dst[e] \in Chan
  BY <1>1, NextIsPending, PlaceTypes, DstIsChan
<1> DEFINE r == <<cur[p], e>>
<1>4. Pending(p) = {cur[p]} \X pend[p] /\ r \in Pending(p) /\ r \in Ref
  BY <1>2, <1>3 DEF Pending, Unserved, TypeInv, TypeOK
<1>5. /\ Pending(p)' = Pending(p) \ {r}
      /\ \A q \in Proc \ {p} : Pending(q)' = Pending(q)
      /\ \A q \in Proc : pend'[q] # {} => pc'[q] \in {"send", "check"}
      /\ \A q, s \in Proc :
           q # s /\ pend'[q] # {} /\ pend'[s] # {} => cur'[q] # cur'[s]
  BY <1>1, <1>2, <1>3, <1>4, ServedPending
<1>6. /\ queue[Dst[e]] \in Seq(Ref) /\ Distinct(queue[Dst[e]])
      /\ r \notin Elems(queue[Dst[e]])
  BY <1>3, <1>4, PlaceTypes DEF PlaceInv
<1>7. /\ Elems(queue[Dst[e]])' = Elems(queue[Dst[e]]) \cup {r}
      /\ Distinct(queue[Dst[e]])'
  <2>1. queue'[Dst[e]] = Append(queue[Dst[e]], r)
    BY <1>1, <1>3 DEF TypeInv, TypeOK
  <2>2. /\ Elems(Append(queue[Dst[e]], r)) = Elems(queue[Dst[e]]) \cup {r}
        /\ Distinct(Append(queue[Dst[e]], r))
    BY <1>4, <1>6, ElemsAppend
  <2> QED BY <2>1, <2>2 DEF Elems, Distinct
<1>8. \A c \in Chan \ {Dst[e]} :
         queue'[c] = queue[c] /\ Elems(queue[c])' = Elems(queue[c])
  BY <1>1 DEF Elems, TypeInv, TypeOK
<1>9. \A q \in Proc \ {p} : r \notin Pending(q)
  BY <1>4, PendingApart
<1>10. r[2] = e
  OBVIOUS
<1> HIDE DEF r
<1>11. PlaceInv'
  <2>1. \A c \in Chan : Distinct(queue[c])'
    BY <1>7, <1>8, SMTT(60) DEF PlaceInv, Distinct
  <2>2. \A c \in Chan : \A x \in Elems(queue[c])' : Dst[x[2]] = c
    BY <1>7, <1>8, <1>10 DEF PlaceInv
  <2>3. \A c \in Chan : \A q \in Proc : (Elems(queue[c]) \cap Pending(q))' = {}
    BY <1>5, <1>7, <1>8, <1>9 DEF PlaceInv
  <2>4. \A c \in Chan : (Elems(queue[c]) \cap leaked)' = {}
    BY <1>2, <1>4, <1>7, <1>8 DEF PlaceInv
  <2>5. \A q \in Proc : (Pending(q) \cap leaked)' = {}
    BY <1>2, <1>5 DEF PlaceInv
  <2> QED BY <1>5, <2>1, <2>2, <2>3, <2>4, <2>5 DEF PlaceInv
<1>12. Outstanding' = Outstanding
  <2>1. p \in Proc /\ Dst[e] \in Chan
    BY <1>3
  <2>2. ASSUME NEW x \in Outstanding PROVE x \in Outstanding'
    <3>1. CASE \E c \in Chan : x \in Elems(queue[c])
      BY <3>1, <1>7, <1>8, OutstandingNext
    <3>2. CASE \E q \in Proc : x \in Pending(q)
      BY <2>1, <3>2, <1>5, <1>7, OutstandingNext
    <3>3. CASE x \in leaked
      BY <3>3, <1>2, OutstandingNext
    <3> QED BY <2>2, <3>1, <3>2, <3>3, OutstandingNow
  <2>3. ASSUME NEW x \in Outstanding' PROVE x \in Outstanding
    <3>1. CASE \E c \in Chan : x \in Elems(queue[c])'
      BY <2>1, <3>1, <1>4, <1>7, <1>8, OutstandingNow
    <3>2. CASE \E q \in Proc : x \in Pending(q)'
      BY <3>2, <1>5, OutstandingNow
    <3>3. CASE x \in leaked'
      BY <3>3, <1>2, OutstandingNow
    <3> QED BY <2>3, <3>1, <3>2, <3>3, OutstandingNext
  <2> QED BY <2>2, <2>3
<1> QED BY <1>2, <1>11, <1>12, AccountSame

\* A set of references a process has to serve is settled, and nothing else.
LEMMA SettlePending ==
  ASSUME CountInv, NEW p \in Proc, NEW T \in SUBSET Unserved(p), T # {},
         Release(cur[p], Cardinality(T)),
         Pending(p)' = Pending(p) \ ({cur[p]} \X T),
         \A q \in Proc \ {p} : Pending(q)' = Pending(q),
         \A c \in Chan : Elems(queue[c])' \subseteq Elems(queue[c]),
         leaked' = leaked \cup UNION {Elems(queue[c]) \ Elems(queue[c])' : c \in Chan}
  PROVE  AccountsKept
<1> USE DEF CountInv
<1> DEFINE S == {cur[p]} \X T
<1>1. S \subseteq Pending(p) /\ S \subseteq Outstanding
  BY OutstandingNow DEF Pending
<1>2. \A r \in S : /\ \A c \in Chan : r \notin Elems(queue[c])
                   /\ \A q \in Proc \ {p} : r \notin Pending(q)
                   /\ r \notin leaked
  BY <1>1, PendingApart DEF PlaceInv
<1>3. T \in SUBSET Edge /\ cur[p] \in Data
  BY PlaceTypes
<1> HIDE DEF S
<1>4. \A r : r \in Outstanding' <=> r \in Outstanding /\ r \notin S
  <2> SUFFICES ASSUME NEW r PROVE r \in Outstanding' <=> r \in Outstanding /\ r \notin S
    OBVIOUS
  <2>1. r \in leaked' <=> r \in leaked \/ \E c \in Chan : r \in Elems(queue[c]) /\ r \notin Elems(queue[c])'
    OBVIOUS
  <2>2. (\E q \in Proc : r \in Pending(q)')
           <=> (\E q \in Proc : r \in Pending(q)) /\ r \notin S
    BY <1>1, <1>2 DEF S
  <2> QED BY <1>1, <1>2, <2>1, <2>2, OutstandingNow, OutstandingNext
<1>5. Outstanding' = Outstanding \ S
  BY <1>4
<1> QED BY <1>1, <1>3, <1>5, AccountRelease DEF S

\* The invariant of places when references are only moved to leaked or gone.
LEMMA PlacesShrink ==
  ASSUME CountInv,
         \A p \in Proc : Pending(p)' \subseteq Pending(p),
         \A c \in Chan : Elems(queue[c])' \subseteq Elems(queue[c]),
         \A c \in Chan : Distinct(queue[c])',
         \A r \in leaked' \ leaked :
           /\ \A c \in Chan : r \notin Elems(queue[c])'
           /\ \A p \in Proc : r \notin Pending(p)',
         \A q \in Proc : pend'[q] # {} => pc'[q] \in {"send", "check"},
         \A q, s \in Proc :
           q # s /\ pend'[q] # {} /\ pend'[s] # {} => cur'[q] # cur'[s]
  PROVE  PlaceInv'
<1> USE DEF CountInv
<1>1. \A c \in Chan : \A r \in Elems(queue[c])' : Dst[r[2]] = c
  BY DEF PlaceInv
<1>2. \A c \in Chan : \A p \in Proc : (Elems(queue[c]) \cap Pending(p))' = {}
  BY DEF PlaceInv
<1>3. \A c \in Chan : (Elems(queue[c]) \cap leaked)' = {}
  BY DEF PlaceInv
<1>4. \A p \in Proc : (Pending(p) \cap leaked)' = {}
  BY DEF PlaceInv
<1> QED BY <1>1, <1>2, <1>3, <1>4 DEF PlaceInv

\* One edge is one edge.
LEMMA OneEdge == \A e : Cardinality({e}) = 1
  BY FS_Singleton

\* DropNewest releases the reference that finds no room.
LEMMA DropCounts ==
  ASSUME CountInv, NEW n \in Node, TrySendFull(n)
  PROVE  PlaceInv' /\ AccountsKept
<1> USE DEF CountInv
<1>1. PICK e \in NextTarget(n) : TRUE
  BY DEF TrySendFull
<1>2. /\ pc[n] = "send" /\ Release(cur[n], 1)
      /\ pc' = [pc EXCEPT ![n] = "check"]
      /\ UNCHANGED <<queue, open, cur, pend, todo, leaked>>
  BY DEF TrySendFull
<1>3. NextTarget(n) = {e} /\ e \in pend[n] /\ n \in Proc
  BY <1>1, NextIsUnique, NextIsPending, DataPlaneAssumption
<1>4. Unserved(n) = pend[n] /\ Unserved(n)' = pend[n] \ {e}
  BY <1>2, <1>3 DEF Unserved, NextTarget, TypeInv, TypeOK
<1>5. Pending(n)' = Pending(n) \ ({cur[n]} \X {e})
  BY <1>2, <1>4 DEF Pending
<1>6. \A q \in Proc \ {n} : Pending(q)' = Pending(q)
  BY <1>2 DEF Pending, Unserved, NextTarget, TypeInv, TypeOK
<1>7. \A c \in Chan : queue'[c] = queue[c] /\ Elems(queue[c])' = Elems(queue[c])
  BY <1>2 DEF Elems
<1>8. AccountsKept
  <2>1. leaked' = leaked \cup UNION {Elems(queue[c]) \ Elems(queue[c])' : c \in Chan}
    BY <1>2, <1>7
  <2>2. {e} \in SUBSET Unserved(n) /\ {e} # {} /\ Release(cur[n], Cardinality({e}))
    BY <1>2, <1>3, <1>4, OneEdge
  <2>3. \A c \in Chan : Elems(queue[c])' \subseteq Elems(queue[c])
    BY <1>7
  <2> QED BY <1>3, <1>5, <1>6, <2>1, <2>2, <2>3, SettlePending
<1>9. \A q \in Proc : pend'[q] # {} => pc'[q] \in {"send", "check"}
  BY <1>2 DEF PlaceInv, TypeInv, TypeOK
<1>10. \A p \in Proc : Pending(p)' \subseteq Pending(p)
  BY <1>5, <1>6
<1>11. \A c \in Chan : Distinct(queue[c])'
  BY <1>7 DEF PlaceInv, Distinct
<1>12. PlaceInv'
  BY <1>2, <1>7, <1>9, <1>10, <1>11, PlacesShrink DEF PlaceInv
<1> QED BY <1>8, <1>12

\* Going on after a drop touches no reference.
LEMMA DropCheckedCounts ==
  ASSUME CountInv, NEW n \in Node, pc[n] = "check", DropChecked(n)
  PROVE  PlaceInv' /\ AccountsKept
<1> USE DEF CountInv
<1>1. PICK e \in NextTarget(n) : Served(n, e)
  BY DEF DropChecked
<1>2. UNCHANGED <<store, queue, open, leaked>>
  BY DEF DropChecked
<1>3. NextTarget(n) = {e} /\ e \in pend[n] /\ n \in Proc
  BY <1>1, NextIsUnique, NextIsPending, DataPlaneAssumption
<1>4. Pending(n) = {cur[n]} \X (pend[n] \ {e})
  BY <1>3 DEF Pending, Unserved
<1>5. /\ \A q \in Proc : Pending(q)' = Pending(q)
      /\ \A q \in Proc : pend'[q] # {} => pc'[q] \in {"send", "check"}
      /\ \A q, s \in Proc :
           q # s /\ pend'[q] # {} /\ pend'[s] # {} => cur'[q] # cur'[s]
  BY <1>1, <1>3, <1>4, ServedPending
<1>6. \A c \in Chan : queue'[c] = queue[c] /\ Elems(queue[c])' = Elems(queue[c])
  BY <1>2 DEF Elems
<1>7. \A c \in Chan : Distinct(queue[c])'
  BY <1>6 DEF PlaceInv, Distinct
<1>8. PlaceInv'
  BY <1>2, <1>5, <1>6, <1>7, PlacesShrink
<1>9. Outstanding' = Outstanding
  BY <1>2, <1>5, <1>6, OutstandingNow, OutstandingNext
<1> QED BY <1>2, <1>8, <1>9, AccountSame

\* A trigger skips a closed target.
LEMMA TriggerClosedCounts ==
  ASSUME CountInv, NEW t \in Trigger, TriggerSendClosed(t)
  PROVE  PlaceInv' /\ AccountsKept
<1> USE DEF CountInv
<1>1. PICK e \in NextTarget(t) : Served(t, e)
  BY DEF TriggerSendClosed
<1>2. pc[t] = "send" /\ Release(cur[t], 1) /\ UNCHANGED <<queue, open, leaked>>
  BY DEF TriggerSendClosed
<1>3. e \in pend[t] /\ t \in Proc
  BY <1>1, NextIsPending
<1>4. Unserved(t) = pend[t] /\ Pending(t) = {cur[t]} \X pend[t]
  BY <1>2 DEF Pending, Unserved
<1>5. /\ Pending(t)' = Pending(t) \ ({cur[t]} \X {e})
      /\ \A q \in Proc \ {t} : Pending(q)' = Pending(q)
      /\ \A q \in Proc : pend'[q] # {} => pc'[q] \in {"send", "check"}
      /\ \A q, s \in Proc :
           q # s /\ pend'[q] # {} /\ pend'[s] # {} => cur'[q] # cur'[s]
  BY <1>1, <1>2, <1>3, <1>4, ServedPending
<1>6. \A c \in Chan : queue'[c] = queue[c] /\ Elems(queue[c])' = Elems(queue[c])
  BY <1>2 DEF Elems
<1>7. AccountsKept
  <2>1. leaked' = leaked \cup UNION {Elems(queue[c]) \ Elems(queue[c])' : c \in Chan}
    BY <1>2, <1>6
  <2>2. {e} \in SUBSET Unserved(t) /\ {e} # {} /\ Release(cur[t], Cardinality({e}))
    BY <1>2, <1>3, <1>4, OneEdge
  <2>3. \A c \in Chan : Elems(queue[c])' \subseteq Elems(queue[c])
    BY <1>6
  <2> QED BY <1>3, <1>5, <2>1, <2>2, <2>3, SettlePending
<1>8. \A p \in Proc : Pending(p)' \subseteq Pending(p)
  BY <1>5
<1>9. \A c \in Chan : Distinct(queue[c])'
  BY <1>6 DEF PlaceInv, Distinct
<1>10. PlaceInv'
  BY <1>2, <1>5, <1>6, <1>8, <1>9, PlacesShrink
<1> QED BY <1>7, <1>10

\* A process gives up its fan-out, or has none.
LEMMA GiveUp ==
  ASSUME CountInv, NEW p \in Proc,
         pend' = [pend EXCEPT ![p] = {}], cur' = [cur EXCEPT ![p] = 0],
         NEW x, pc' = [pc EXCEPT ![p] = x]
  PROVE  /\ Pending(p)' = {}
         /\ \A q \in Proc \ {p} : Pending(q)' = Pending(q)
         /\ \A q \in Proc : pend'[q] # {} => pc'[q] \in {"send", "check"}
         /\ \A q, s \in Proc :
              q # s /\ pend'[q] # {} /\ pend'[s] # {} => cur'[q] # cur'[s]
<1> USE DEF CountInv
<1>1. pend'[p] = {}
  BY DEF TypeInv, TypeOK
<1>2. \A q \in Proc \ {p} : pend'[q] = pend[q] /\ cur'[q] = cur[q] /\ pc'[q] = pc[q]
  BY DEF TypeInv, TypeOK
<1>3. Unserved(p)' = {}
  BY <1>1 DEF Unserved
<1>4. Pending(p)' = {}
  BY <1>3 DEF Pending
<1>5. \A q \in Proc \ {p} : Pending(q)' = Pending(q)
  BY <1>2 DEF Pending, Unserved, NextTarget
<1>6. \A q \in Proc : pend'[q] # {} => pc'[q] \in {"send", "check"}
  BY <1>1, <1>2 DEF PlaceInv
<1>7. \A q, s \in Proc :
         q # s /\ pend'[q] # {} /\ pend'[s] # {} => cur'[q] # cur'[s]
  BY <1>1, <1>2 DEF PlaceInv
<1> QED BY <1>4, <1>5, <1>6, <1>7

\* A closed channel is emptied into leaked.
LEMMA QueueClosed ==
  ASSUME CountInv, NEW c \in Chan, queue' = [queue EXCEPT ![c] = <<>>]
  PROVE  /\ Elems(queue[c])' = {}
         /\ \A x \in Chan \ {c} : Elems(queue[x])' = Elems(queue[x])
         /\ \A x \in Chan : Distinct(queue[x])'
         /\ UNION {Elems(queue[x]) \ Elems(queue[x])' : x \in Chan} = Elems(queue[c])
<1> USE DEF CountInv
<1>1. queue'[c] = <<>> /\ \A x \in Chan \ {c} : queue'[x] = queue[x]
  BY DEF TypeInv, TypeOK
<1>2. Elems(queue[c])' = {} /\ Distinct(queue[c])'
  <2>1. Elems(queue'[c]) = {} /\ Distinct(queue'[c])
    BY <1>1, ElemsEmpty
  <2> QED BY <2>1 DEF Elems, Distinct
<1>3. \A x \in Chan \ {c} : Elems(queue[x])' = Elems(queue[x])
  BY <1>1 DEF Elems
<1>4. \A x \in Chan : Distinct(queue[x])'
  BY <1>1, <1>2 DEF PlaceInv, Distinct
<1>5. UNION {Elems(queue[x]) \ Elems(queue[x])' : x \in Chan} = Elems(queue[c])
  BY <1>2, <1>3
<1> QED BY <1>2, <1>3, <1>4, <1>5

\* Elements of a closed queue are nowhere else.
LEMMA ClosedPlaces ==
  ASSUME CountInv, NEW c \in Chan, queue' = [queue EXCEPT ![c] = <<>>],
         \A p \in Proc : Pending(p)' \subseteq Pending(p),
         leaked' = leaked \cup Elems(queue[c]),
         \A q \in Proc : pend'[q] # {} => pc'[q] \in {"send", "check"},
         \A q, s \in Proc :
           q # s /\ pend'[q] # {} /\ pend'[s] # {} => cur'[q] # cur'[s]
  PROVE  PlaceInv'
<1> USE DEF CountInv
<1>1. /\ Elems(queue[c])' = {}
      /\ \A x \in Chan \ {c} : Elems(queue[x])' = Elems(queue[x])
      /\ \A x \in Chan : Distinct(queue[x])'
  BY QueueClosed
<1>2. \A r \in leaked' \ leaked : r \in Elems(queue[c]) /\ Dst[r[2]] = c
  BY DEF PlaceInv
<1>3. \A r \in leaked' \ leaked :
         /\ \A x \in Chan : r \notin Elems(queue[x])'
         /\ \A p \in Proc : r \notin Pending(p)'
  BY <1>1, <1>2 DEF PlaceInv
<1> QED BY <1>1, <1>3, PlacesShrink

\* The end of a task that has nothing to serve.
LEMMA StopCounts ==
  ASSUME CountInv, NEW n \in Node, pend[n] = {}, Stop(n), store' = store
  PROVE  PlaceInv' /\ AccountsKept
<1> USE DEF CountInv
<1>1. /\ pend' = [pend EXCEPT ![n] = {}]
      /\ cur' = [cur EXCEPT ![n] = 0]
      /\ pc' = [pc EXCEPT ![n] = "stopped"]
      /\ queue' = [queue EXCEPT ![n] = <<>>]
      /\ leaked' = leaked \cup Elems(queue[n])
  BY DEF Stop
<1>2. Pending(n) = {}
  BY PlaceTypes DEF Pending
<1>3. /\ \A q \in Proc : Pending(q)' = Pending(q)
      /\ \A q \in Proc : pend'[q] # {} => pc'[q] \in {"send", "check"}
      /\ \A q, s \in Proc :
           q # s /\ pend'[q] # {} /\ pend'[s] # {} => cur'[q] # cur'[s]
  BY <1>1, <1>2, GiveUp
<1>4. PlaceInv'
  BY <1>1, <1>3, ClosedPlaces
<1>5. /\ Elems(queue[n])' = {}
      /\ \A x \in Chan \ {n} : Elems(queue[x])' = Elems(queue[x])
  BY <1>1, QueueClosed
<1>6. Outstanding' = Outstanding
  BY <1>1, <1>3, <1>5, OutstandingNow, OutstandingNext, ZenonT(90)
<1> QED BY <1>4, <1>6, AccountSame

\* A node that finds a channel closed in a blocking send releases what it
\* has not served, and stops.
LEMMA NodeClosedCounts ==
  ASSUME CountInv, NEW n \in Node, pc[n] = "send", NodeSendClosed(n)
  PROVE  PlaceInv' /\ AccountsKept
<1> USE DEF CountInv
<1>1. /\ pend' = [pend EXCEPT ![n] = {}]
      /\ cur' = [cur EXCEPT ![n] = 0]
      /\ pc' = [pc EXCEPT ![n] = "stopped"]
      /\ queue' = [queue EXCEPT ![n] = <<>>]
      /\ leaked' = leaked \cup Elems(queue[n])
  BY DEF Stop, NodeSendClosed
<1>2. /\ Unserved(n) = pend[n] /\ pend[n] # {}
      /\ Pending(n) = {cur[n]} \X pend[n]
      /\ Release(cur[n], Cardinality(pend[n]))
  BY NextIsPending DEF NodeSendClosed, Unserved, Pending
<1>3. /\ Pending(n)' = {}
      /\ \A q \in Proc \ {n} : Pending(q)' = Pending(q)
      /\ \A q \in Proc : pend'[q] # {} => pc'[q] \in {"send", "check"}
      /\ \A q, s \in Proc :
           q # s /\ pend'[q] # {} /\ pend'[s] # {} => cur'[q] # cur'[s]
  BY <1>1, GiveUp
<1>4. PlaceInv'
  BY <1>1, <1>3, ClosedPlaces
<1>5. /\ Elems(queue[n])' = {}
      /\ \A x \in Chan \ {n} : Elems(queue[x])' = Elems(queue[x])
      /\ leaked' = leaked \cup UNION {Elems(queue[x]) \ Elems(queue[x])' : x \in Chan}
  BY <1>1, QueueClosed
<1>6. AccountsKept
  <2>1. \A c \in Chan : Elems(queue[c])' \subseteq Elems(queue[c])
    BY <1>5
  <2>2. Pending(n)' = Pending(n) \ ({cur[n]} \X pend[n])
    BY <1>2, <1>3
  <2>3. n \in Proc
    OBVIOUS
  <2> QED BY <1>2, <1>3, <1>5, <2>1, <2>2, <2>3, SettlePending
<1> QED BY <1>4, <1>6

\* A submission that fails releases what it has not served.
LEMMA ClientClosedCounts ==
  ASSUME CountInv, NEW c \in Client, ClientSendClosed(c)
  PROVE  PlaceInv' /\ AccountsKept
<1> USE DEF CountInv
<1>1. /\ pend' = [pend EXCEPT ![c] = {}]
      /\ cur' = [cur EXCEPT ![c] = 0]
      /\ pc' = [pc EXCEPT ![c] = "idle"]
      /\ UNCHANGED <<queue, leaked>>
  BY DEF ClientSendClosed
<1>2. /\ Unserved(c) = pend[c] /\ pend[c] # {}
      /\ Pending(c) = {cur[c]} \X pend[c]
      /\ Release(cur[c], Cardinality(pend[c]))
  BY NextIsPending DEF ClientSendClosed, Unserved, Pending
<1>3. /\ Pending(c)' = {}
      /\ \A q \in Proc \ {c} : Pending(q)' = Pending(q)
      /\ \A q \in Proc : pend'[q] # {} => pc'[q] \in {"send", "check"}
      /\ \A q, s \in Proc :
           q # s /\ pend'[q] # {} /\ pend'[s] # {} => cur'[q] # cur'[s]
  BY <1>1, GiveUp
<1>4. \A x \in Chan : queue'[x] = queue[x] /\ Elems(queue[x])' = Elems(queue[x])
  BY <1>1 DEF Elems
<1>5. \A x \in Chan : Distinct(queue[x])'
  BY <1>4 DEF PlaceInv, Distinct
<1>6. PlaceInv'
  <2>1. \A p \in Proc : Pending(p)' \subseteq Pending(p)
    BY <1>3
  <2> QED BY <1>1, <1>3, <1>4, <1>5, <2>1, PlacesShrink
<1>7. AccountsKept
  <2>1. leaked' = leaked \cup UNION {Elems(queue[x]) \ Elems(queue[x])' : x \in Chan}
    BY <1>1, <1>4
  <2>2. \A x \in Chan : Elems(queue[x])' \subseteq Elems(queue[x])
    BY <1>4
  <2>3. Pending(c)' = Pending(c) \ ({cur[c]} \X pend[c])
    BY <1>2, <1>3
  <2>4. c \in Proc
    OBVIOUS
  <2> QED BY <1>2, <1>3, <2>1, <2>2, <2>3, <2>4, SettlePending
<1> QED BY <1>6, <1>7

\* Taking the first reference of a queue releases it.
LEMMA TakeCounts ==
  ASSUME CountInv, NEW c \in Chan, queue[c] # <<>>,
         Release(Head(queue[c])[1], 1),
         queue' = [queue EXCEPT ![c] = Tail(@)],
         UNCHANGED <<cur, pend, leaked>>,
         \A p \in Proc : pc'[p] = "check" <=> pc[p] = "check",
         \A p \in Proc : pend[p] # {} => pc'[p] \in {"send", "check"}
  PROVE  PlaceInv' /\ AccountsKept
<1> USE DEF CountInv
<1> DEFINE r == Head(queue[c])
<1>1. queue[c] \in Seq(Ref) /\ Distinct(queue[c])
  BY PlaceTypes DEF PlaceInv
<1>2. /\ r \in Elems(queue[c])
      /\ Elems(Tail(queue[c])) = Elems(queue[c]) \ {r}
      /\ Distinct(Tail(queue[c]))
  BY <1>1, ElemsTail
<1>3. queue'[c] = Tail(queue[c]) /\ \A x \in Chan \ {c} : queue'[x] = queue[x]
  BY DEF TypeInv, TypeOK
<1>4. /\ Elems(queue[c])' = Elems(queue[c]) \ {r}
      /\ \A x \in Chan \ {c} : Elems(queue[x])' = Elems(queue[x])
      /\ \A x \in Chan : Distinct(queue[x])'
  <2>1. Elems(queue'[c]) = Elems(queue[c]) \ {r} /\ Distinct(queue'[c])
    BY <1>2, <1>3
  <2>2. \A x \in Chan \ {c} : Elems(queue'[x]) = Elems(queue[x]) /\ Distinct(queue'[x])
    BY <1>3 DEF PlaceInv
  <2>3. \A x \in Chan : Elems(queue[x])' = Elems(queue'[x])
    BY DEF Elems
  <2>4. \A x \in Chan : Distinct(queue[x])' = Distinct(queue'[x])
    BY DEF Distinct
  <2> HIDE DEF r
  <2> QED BY <2>1, <2>2, <2>3, <2>4
<1>5. \A p \in Proc : Unserved(p)' = Unserved(p) /\ Pending(p)' = Pending(p)
  BY DEF Unserved, NextTarget, Pending
<1>6. r \in Ref /\ Release(r[1], 1)
  BY <1>1
<1> HIDE DEF r
<1>7. PlaceInv'
  <2>1. \A x \in Chan : Elems(queue[x])' \subseteq Elems(queue[x])
    BY <1>4
  <2>2. \A q \in Proc : pend'[q] # {} => pc'[q] \in {"send", "check"}
    OBVIOUS
  <2>3. \A q, s \in Proc :
           q # s /\ pend'[q] # {} /\ pend'[s] # {} => cur'[q] # cur'[s]
    BY DEF PlaceInv
  <2> QED BY <1>4, <1>5, <2>1, <2>2, <2>3, PlacesShrink
<1>8. /\ \A x \in Chan \ {c} : r \notin Elems(queue[x])
      /\ \A p \in Proc : r \notin Pending(p)
      /\ r \notin leaked
  BY <1>2 DEF PlaceInv
<1>9. Outstanding' = Outstanding \ {r}
  BY <1>2, <1>4, <1>5, <1>8, OutstandingNow, OutstandingNext
<1>10. r \in Outstanding
  BY <1>2, OutstandingNow
<1>11. AccountsKept
  <2>1. PICK d \in Data, e \in Edge : r = <<d, e>>
    BY <1>6
  <2>2. {d} \X {e} = {r}
    BY <2>1
  <2>3. Release(d, Cardinality({e}))
    BY <1>6, <2>1, OneEdge
  <2>4. {d} \X {e} \subseteq Outstanding /\ Outstanding' = Outstanding \ ({d} \X {e})
    BY <1>9, <1>10, <2>2
  <2> QED BY <2>3, <2>4, AccountRelease
<1> QED BY <1>7, <1>11

\* A client that is aborted loses the references it has not served.
LEMMA StopClientCounts ==
  ASSUME CountInv, NEW c \in Client, StopClient(c)
  PROVE  PlaceInv' /\ AccountsKept
<1> USE DEF CountInv
<1>1. /\ pend' = [pend EXCEPT ![c] = {}]
      /\ cur' = [cur EXCEPT ![c] = 0]
      /\ pc' = [pc EXCEPT ![c] = "stopped"]
      /\ UNCHANGED <<store, queue>>
  BY DEF StopClient
<1>2. Unserved(c) = pend[c]
  <2>1. NextTarget(c) = pend[c]
    BY DEF NextTarget
  <2>2. pc[c] # "check"
    BY DataPlaneAssumption DEF TypeInv, DispatchInv
  <2> QED BY <2>2 DEF Unserved
<1>3. leaked' = leaked \cup Pending(c)
  BY <1>2 DEF StopClient, Pending
<1>4. /\ Pending(c)' = {}
      /\ \A q \in Proc \ {c} : Pending(q)' = Pending(q)
      /\ \A q \in Proc : pend'[q] # {} => pc'[q] \in {"send", "check"}
      /\ \A q, s \in Proc :
           q # s /\ pend'[q] # {} /\ pend'[s] # {} => cur'[q] # cur'[s]
  BY <1>1, GiveUp
<1>5. \A x \in Chan : queue'[x] = queue[x] /\ Elems(queue[x])' = Elems(queue[x])
  BY <1>1 DEF Elems
<1>6. Outstanding' = Outstanding
  BY <1>3, <1>4, <1>5, OutstandingNow, OutstandingNext
<1>7. PlaceInv'
  BY <1>3, <1>4, <1>5, PendingApart DEF PlaceInv, Distinct
<1> QED BY <1>1, <1>6, <1>7, AccountSame

\* No node that has just dropped a reference finds the channel closed.
DropsInTime ==
  \A n \in Node : pc[n] = "check" => \A e \in NextTarget(n) : open[Dst[e]]

\* The counts stay right in every step, except for a node that releases a
\* reference twice: dropped by policy, and again because the channel closed.
LEMMA CountNext == CountInv /\ DropsInTime /\ [Next]_vars => CountInv' /\ LedgerMove
<1> SUFFICES ASSUME CountInv, DropsInTime, [Next]_vars
             PROVE  PlaceInv' /\ AccountsKept
  BY TypeNext DEF CountInv, AccountsKept
<1> USE DEF CountInv
<1>1. ASSUME NEW n \in Node, Receive(n) PROVE PlaceInv' /\ AccountsKept
  <2>1. /\ \A p \in Proc : pc'[p] = "check" <=> pc[p] = "check"
        /\ \A p \in Proc : pend[p] # {} => pc'[p] \in {"send", "check"}
    BY <1>1 DEF Receive, PlaceInv, TypeInv, TypeOK
  <2> QED BY <1>1, <2>1, TakeCounts DEF Receive
<1>2. ASSUME NEW n \in Node, TransformFails(n) PROVE PlaceInv' /\ AccountsKept
  BY <1>2, IdleStep DEF TransformFails, PlaceInv, TypeInv, TypeOK
<1>3. ASSUME NEW n \in Node, TransformReturns(n) PROVE PlaceInv' /\ AccountsKept
  BY <1>3, IdleStep DEF TransformReturns, PlaceInv, TypeInv, TypeOK
<1>4. ASSUME NEW n \in Node, CacheOnly(n) PROVE PlaceInv' /\ AccountsKept
  BY <1>4, IdleStep DEF CacheOnly, OutputDone, PlaceInv, TypeInv, TypeOK
<1>5. ASSUME NEW n \in Node, WriteOutput(n) PROVE PlaceInv' /\ AccountsKept
  <2>1. PICK S \in Selections(n) :
          Publish(n, IF S = {} THEN ResultEdge(n) ELSE S)
    BY <1>5 DEF WriteOutput
  <2>2. ResultEdge(n) # {}
    BY DataPlaneAssumption
  <2>3. PICK T \in SUBSET Targets(n) : T # {} /\ Publish(n, T)
    BY <2>1, <2>2, SelectionsAreTargets
  <2> QED BY <1>5, <2>3, PublishCounts DEF WriteOutput
<1>6. ASSUME NEW p \in Proc, SendOk(p) PROVE PlaceInv' /\ AccountsKept
  BY <1>6, SendCounts
<1>7. ASSUME NEW n \in Node, TrySendFull(n) PROVE PlaceInv' /\ AccountsKept
  BY <1>7, DropCounts
<1>8. ASSUME NEW n \in Node, DropChecked(n) PROVE PlaceInv' /\ AccountsKept
  BY <1>8, DropCheckedCounts DEF DropChecked
<1>9. ASSUME NEW n \in Node, NodeSendClosed(n) PROVE PlaceInv' /\ AccountsKept
  BY <1>9, NodeClosedCounts DEF NodeSendClosed, DropsInTime
<1>10. ASSUME NEW n \in Node, InputsClosed(n) PROVE PlaceInv' /\ AccountsKept
  <2>1. pend[n] = {}
    BY <1>10 DEF InputsClosed, PlaceInv
  <2> QED BY <1>10, <2>1, StopCounts DEF InputsClosed
<1>11. ASSUME NEW t \in Trigger, Emit(t) PROVE PlaceInv' /\ AccountsKept
  BY <1>11, PublishCounts DEF Emit
<1>12. ASSUME NEW t \in Trigger, TriggerSendClosed(t) PROVE PlaceInv' /\ AccountsKept
  BY <1>12, TriggerClosedCounts
<1>13. ASSUME NEW c \in Client, Submit(c) PROVE PlaceInv' /\ AccountsKept
  <2>1. PICK T \in SUBSET Targets(c) : T # {} /\ Publish(c, T)
    BY <1>13 DEF Submit
  <2> QED BY <1>13, <2>1, PublishCounts DEF Submit
<1>14. ASSUME NEW c \in Client, ClientSendClosed(c) PROVE PlaceInv' /\ AccountsKept
  BY <1>14, ClientClosedCounts
<1>15. CASE Consume
  <2>1. /\ \A p \in Proc : pc'[p] = "check" <=> pc[p] = "check"
        /\ \A p \in Proc : pend[p] # {} => pc'[p] \in {"send", "check"}
    BY <1>15 DEF Consume, PlaceInv
  <2>2. Sink \in Chan
    OBVIOUS
  <2> QED BY <1>15, <2>1, <2>2, TakeCounts DEF Consume
<1>16. ASSUME NEW c \in Client, StopClient(c) PROVE PlaceInv' /\ AccountsKept
  BY <1>16, StopClientCounts
<1>17. ASSUME NEW t \in Trigger, StopTrigger(t) PROVE PlaceInv' /\ AccountsKept
  BY <1>17, IdleStep DEF StopTrigger, PlaceInv, TypeInv, TypeOK
<1>18. CASE CloseSink
  <2>1. /\ queue' = [queue EXCEPT ![Sink] = <<>>]
        /\ leaked' = leaked \cup Elems(queue[Sink])
        /\ UNCHANGED <<store, pc, cur, pend>>
        /\ Sink \in Chan
    BY <1>18 DEF CloseSink
  <2>2. \A p \in Proc : Pending(p)' = Pending(p)
    BY <2>1 DEF Pending, Unserved, NextTarget
  <2>3. /\ \A q \in Proc : pend'[q] # {} => pc'[q] \in {"send", "check"}
        /\ \A q, s \in Proc :
             q # s /\ pend'[q] # {} /\ pend'[s] # {} => cur'[q] # cur'[s]
    BY <2>1 DEF PlaceInv
  <2>4. PlaceInv'
    BY <2>1, <2>2, <2>3, ClosedPlaces
  <2>5. /\ Elems(queue[Sink])' = {}
        /\ \A x \in Chan \ {Sink} : Elems(queue[x])' = Elems(queue[x])
    BY <2>1, QueueClosed
  <2>6. Outstanding' = Outstanding
    BY <2>1, <2>2, <2>5, OutstandingNow, OutstandingNext
  <2> QED BY <2>1, <2>4, <2>6, AccountSame
<1>19. CASE UNCHANGED vars
  BY <1>19, IdleStep DEF vars, PlaceInv
<1> QED
  BY <1>1, <1>2, <1>3, <1>4, <1>5, <1>6, <1>7, <1>8, <1>9, <1>10, <1>11, <1>12,
     <1>13, <1>14, <1>15, <1>16, <1>17, <1>18, <1>19
  DEF Next, Running, Undeploy, NodeStep, TriggerStep, ClientStep

\* A queued reference is counted, hence readable.
LEMMA CountedIsReadable == CountInv => QueuedRefReadable
<1> SUFFICES ASSUME CountInv, NEW c \in Chan, NEW r \in Elems(queue[c])
             PROVE  store[r[1]] > 0
  BY DEF QueuedRefReadable
<1> USE DEF CountInv
<1>1. r \in Ref /\ r \in RefsTo(r[1])
  BY PlaceTypes, OutstandingNow DEF RefsTo
<1>2. IsFiniteSet(RefsTo(r[1])) /\ Cardinality(RefsTo(r[1])) \in Nat
  BY RefsFinite, FS_CardinalityType
<1>3. Cardinality(RefsTo(r[1])) # 0
  BY <1>1, <1>2, FS_EmptySet
<1> QED BY <1>1, <1>2, <1>3 DEF RefsAccounted

(***************************************************************************)
(* With blocking edges only, the counts are right for ever, undeploying    *)
(* included.                                                               *)
(***************************************************************************)

NeverDrops == \A p \in Proc : pc[p] # "check"

\* Only try_send on a DropNewest edge leads to the check.
LEMMA BlockNeverDrops ==
  ASSUME DropEdge = {}, TypeInv, NeverDrops, [Next]_vars
  PROVE  NeverDrops'
<1> USE DEF TypeInv, TypeOK, NeverDrops
<1>1. ASSUME NEW n \in Node, NodeStep(n) PROVE NeverDrops'
  BY <1>1 DEF NodeStep, Receive, TransformFails, TransformReturns, CacheOnly,
     WriteOutput, SendOk, TrySendFull, DropChecked, NodeSendClosed, InputsClosed,
     OutputDone, Publish, Served, Stop
<1>2. ASSUME NEW t \in Trigger, TriggerStep(t) PROVE NeverDrops'
  BY <1>2 DEF TriggerStep, Emit, SendOk, TriggerSendClosed, Publish, Served, OutputDone
<1>3. ASSUME NEW c \in Client, ClientStep(c) PROVE NeverDrops'
  BY <1>3 DEF ClientStep, Submit, SendOk, ClientSendClosed, Publish, Served, OutputDone
<1>4. CASE Consume \/ Undeploy \/ UNCHANGED vars
  BY <1>4 DEF Consume, Undeploy, StopClient, StopTrigger, CloseSink, vars
<1> QED BY <1>1, <1>2, <1>3, <1>4 DEF Next, Running

\* Without DropNewest edges the store counts exactly the references that are
\* outstanding, whatever is interleaved with undeploying (data.rs).
THEOREM BlockCounts ==
  ASSUME DropEdge = {}
  PROVE  Spec => []RefsAccounted
<1> DEFINE I == CountInv /\ NeverDrops
<1>1. Init => I
  <2>1. Init => NeverDrops
    BY DEF Init, NeverDrops
  <2> QED BY <2>1, TypeInit, CountInit DEF CountInv
<1>2. I /\ [Next]_vars => I'
  <2>1. NeverDrops => DropsInTime
    BY DEF NeverDrops, DropsInTime
  <2> QED BY <2>1, CountNext, BlockNeverDrops DEF CountInv
<1>3. I => RefsAccounted
  BY DEF CountInv
<1> QED BY <1>1, <1>2, <1>3, PTL DEF Spec

\* Without DropNewest edges no queued reference loses its payload (data.rs).
THEOREM BlockReadable ==
  ASSUME DropEdge = {}
  PROVE  Spec => []QueuedRefReadable
<1> DEFINE I == CountInv /\ NeverDrops
<1>1. Init => I
  <2>1. Init => NeverDrops
    BY DEF Init, NeverDrops
  <2> QED BY <2>1, TypeInit, CountInit DEF CountInv
<1>2. I /\ [Next]_vars => I'
  <2>1. NeverDrops => DropsInTime
    BY DEF NeverDrops, DropsInTime
  <2> QED BY <2>1, CountNext, BlockNeverDrops DEF CountInv
<1>3. I => QueuedRefReadable
  BY CountedIsReadable
<1> QED BY <1>1, <1>2, <1>3, PTL DEF Spec

(***************************************************************************)
(* Without pushes into pure-form nodes, no node of a workflow dies while   *)
(* its results are consumed, and then the counts are right for every mix   *)
(* of policies.                                                            *)
(***************************************************************************)

ClosedIsStopped == \A n \in Node : ~open[n] => pc[n] = "stopped"
AliveInv == ClosedIsStopped /\ RunnersAlive

\* A process that has stopped stays stopped.
LEMMA StoppedForEver ==
  ASSUME TypeInv, [Next]_vars
  PROVE  \A p \in Proc : pc[p] = "stopped" => pc'[p] = "stopped"
<1> SUFFICES ASSUME NEW p \in Proc, pc[p] = "stopped" PROVE pc'[p] = "stopped"
  OBVIOUS
<1> USE DEF TypeInv, TypeOK
<1>1. ASSUME NEW n \in Node, NodeStep(n) PROVE pc'[p] = "stopped"
  BY <1>1 DEF NodeStep, Receive, TransformFails, TransformReturns, CacheOnly,
     WriteOutput, SendOk, TrySendFull, DropChecked, NodeSendClosed, InputsClosed,
     OutputDone, Publish, Served, Stop
<1>2. ASSUME NEW t \in Trigger, TriggerStep(t) PROVE pc'[p] = "stopped"
  BY <1>2 DEF TriggerStep, Emit, SendOk, TriggerSendClosed, Publish, Served, OutputDone
<1>3. ASSUME NEW c \in Client, ClientStep(c) PROVE pc'[p] = "stopped"
  BY <1>3 DEF ClientStep, Submit, SendOk, ClientSendClosed, Publish, Served, OutputDone
<1>4. CASE Consume \/ Undeploy \/ UNCHANGED vars
  BY <1>4 DEF Consume, Undeploy, StopClient, StopTrigger, CloseSink, vars
<1> QED BY <1>1, <1>2, <1>3, <1>4 DEF Next, Running

\* While the results are consumed, the channel of a target of a process that
\* is not stopped is open.
LEMMA TargetsOpen ==
  ASSUME Pure = {}, TypeInv, AliveInv, open[Sink],
         NEW p \in Proc, pc[p] # "stopped", NEW e \in Targets(p)
  PROVE  open[Dst[e]]
<1>1. Dst[e] \in Node \cup {Sink}
  BY TargetsAreEdges, DstIsChan
<1>2. ASSUME Dst[e] \in Node PROVE p \in Feeders(Dst[e])
  BY TargetsAreEdges DEF Feeders
<1> QED BY <1>1, <1>2 DEF AliveInv, ClosedIsStopped, RunnersAlive

\* A node stops, and nobody else and no other channel is concerned.
LEMMA AliveStop ==
  ASSUME Pure = {}, TypeInv, AliveInv, [Next]_vars, NEW n \in Node, Stop(n),
         open[Sink] => \A p \in Feeders(n) : pc[p] = "stopped"
  PROVE  AliveInv'
<1> USE DEF TypeInv, TypeOK
<1>1. pc' = [pc EXCEPT ![n] = "stopped"] /\ open' = [open EXCEPT ![n] = FALSE]
  BY DEF Stop
<1>2. ClosedIsStopped'
  BY <1>1 DEF AliveInv, ClosedIsStopped
<1>3. open'[Sink] => open[Sink]
  BY <1>1
<1>4. \A m \in Node : Feeders(m) \subseteq Proc
  BY DEF Feeders
<1>5. RunnersAlive'
  <2> SUFFICES ASSUME open'[Sink], NEW m \in Node, pc'[m] = "stopped",
                      NEW p \in Feeders(m)
               PROVE  pc'[p] = "stopped"
    BY DEF RunnersAlive, Feeders
  <2>1. pc[p] = "stopped"
    BY <1>1, <1>3 DEF AliveInv, RunnersAlive
  <2> QED BY <1>4, <2>1, StoppedForEver
<1> QED BY <1>2, <1>5 DEF AliveInv

\* A step in which no node stops.
LEMMA AliveStutter ==
  ASSUME Pure = {}, TypeInv, AliveInv, [Next]_vars,
         \A n \in Node : open'[n] = open[n] /\ (pc'[n] = "stopped" => pc[n] = "stopped"),
         open'[Sink] => open[Sink]
  PROVE  AliveInv'
<1>1. ClosedIsStopped'
  BY StoppedForEver DEF AliveInv, ClosedIsStopped
<1>2. RunnersAlive'
  <2> SUFFICES ASSUME open'[Sink], NEW m \in Node, pc'[m] = "stopped",
                      NEW p \in Feeders(m)
               PROVE  pc'[p] = "stopped"
    BY DEF RunnersAlive, Feeders
  <2>1. pc[p] = "stopped"
    BY DEF AliveInv, RunnersAlive
  <2> QED BY <2>1, StoppedForEver DEF Feeders
<1> QED BY <1>1, <1>2 DEF AliveInv

\* Every step keeps the tasks alive.
LEMMA AliveNext ==
  ASSUME Pure = {}, TypeInv, AliveInv, [Next]_vars
  PROVE  AliveInv' /\ (open'[Sink] => open[Sink])
<1>1. ASSUME NEW n \in Node, NodeSendClosed(n)
      PROVE  AliveInv' /\ (open'[Sink] => open[Sink])
  <2>1. PICK e \in NextTarget(n) : ~open[Dst[e]]
    BY <1>1 DEF NodeSendClosed
  <2>2. e \in Targets(n)
    BY <2>1, NextIsPending DEF TypeInv, TypeOK
  <2>3. pc[n] # "stopped"
    BY <1>1 DEF NodeSendClosed
  <2>4. ~open[Sink]
    BY <2>1, <2>2, <2>3, TargetsOpen
  <2>5. AliveInv'
    BY <1>1, <2>4, AliveStop DEF NodeSendClosed
  <2>6. open'[Sink] => open[Sink]
    BY <1>1, DataPlaneAssumption DEF NodeSendClosed, Stop, TypeInv, TypeOK
  <2> QED BY <2>5, <2>6
<1>2. ASSUME NEW n \in Node, InputsClosed(n)
      PROVE  AliveInv' /\ (open'[Sink] => open[Sink])
  <2>1. AliveInv'
    BY <1>2, AliveStop DEF InputsClosed
  <2>2. open'[Sink] => open[Sink]
    BY <1>2, DataPlaneAssumption DEF InputsClosed, Stop, TypeInv, TypeOK
  <2> QED BY <2>1, <2>2
<1>3. ASSUME UNCHANGED open,
             \A n \in Node : pc'[n] = "stopped" => pc[n] = "stopped"
      PROVE  AliveInv' /\ (open'[Sink] => open[Sink])
  BY <1>3, AliveStutter
<1>4. ASSUME NEW n \in Node, NodeStep(n), ~NodeSendClosed(n), ~InputsClosed(n)
      PROVE  AliveInv' /\ (open'[Sink] => open[Sink])
  <2>1. UNCHANGED open
    BY <1>4 DEF NodeStep, Receive, TransformFails, TransformReturns, CacheOnly,
       WriteOutput, SendOk, TrySendFull, DropChecked, Publish
  <2>2. \A m \in Node : pc'[m] = "stopped" => pc[m] = "stopped"
    BY <1>4 DEF NodeStep, Receive, TransformFails, TransformReturns, CacheOnly,
       WriteOutput, SendOk, TrySendFull, DropChecked, Publish, Served, OutputDone,
       TypeInv, TypeOK
  <2> QED BY <2>1, <2>2, <1>3
<1>5. ASSUME NEW t \in Trigger, TriggerStep(t)
      PROVE  AliveInv' /\ (open'[Sink] => open[Sink])
  <2>1. UNCHANGED open
    BY <1>5 DEF TriggerStep, Emit, SendOk, TriggerSendClosed, Publish
  <2>2. \A m \in Node : pc'[m] = "stopped" => pc[m] = "stopped"
    BY <1>5 DEF TriggerStep, Emit, SendOk, TriggerSendClosed, Publish, Served,
       OutputDone, TypeInv, TypeOK
  <2> QED BY <2>1, <2>2, <1>3
<1>6. ASSUME NEW c \in Client, ClientStep(c)
      PROVE  AliveInv' /\ (open'[Sink] => open[Sink])
  <2>1. UNCHANGED open
    BY <1>6 DEF ClientStep, Submit, SendOk, ClientSendClosed, Publish
  <2>2. \A m \in Node : pc'[m] = "stopped" => pc[m] = "stopped"
    BY <1>6 DEF ClientStep, Submit, SendOk, ClientSendClosed, Publish, Served,
       OutputDone, TypeInv, TypeOK
  <2> QED BY <2>1, <2>2, <1>3
<1>7. ASSUME NEW p \in Trigger \cup Client, p \notin Node,
             pc' = [pc EXCEPT ![p] = "stopped"], UNCHANGED open
      PROVE  AliveInv' /\ (open'[Sink] => open[Sink])
  BY <1>3, <1>7 DEF TypeInv, TypeOK
<1>8. CASE CloseSink
  <2>1. /\ \A n \in Node : open'[n] = open[n] /\ pc'[n] = pc[n]
        /\ open'[Sink] => open[Sink]
    BY <1>8, DataPlaneAssumption DEF CloseSink, TypeInv, TypeOK
  <2> QED BY <2>1, AliveStutter
<1>9. CASE Consume \/ UNCHANGED vars
  BY <1>3, <1>9 DEF Consume, vars
<1> QED
  BY <1>1, <1>2, <1>4, <1>5, <1>6, <1>7, <1>8, <1>9, DataPlaneAssumption
  DEF Next, Running, Undeploy, NodeStep, StopClient, StopTrigger

\* Initially every task is alive.
LEMMA AliveInit == ASSUME Pure = {} PROVE Init => AliveInv
  BY ZenonT(90) DEF Init, AliveInv, ClosedIsStopped, RunnersAlive

\* While results are consumed a node stops only after everything that feeds
\* it, for every graph, policy and interleaving (runner.rs, deploy.rs).
THEOREM NodesStayAlive ==
  ASSUME Pure = {}
  PROVE  Spec => []RunnersAlive
<1> DEFINE I == TypeInv /\ AliveInv
<1>1. Init => I
  BY TypeInit, AliveInit
<1>2. I /\ [Next]_vars => I'
  BY TypeNext, AliveNext
<1>3. I => RunnersAlive
  BY DEF AliveInv
<1> QED BY <1>1, <1>2, <1>3, PTL DEF Spec

\* While results are consumed the counts are right whatever the policies of
\* the edges are: only undeploying can make DropNewest release twice.
THEOREM RunningCounts ==
  ASSUME Pure = {}
  PROVE  Spec => [](open[Sink] => RefsAccounted /\ QueuedRefReadable)
<1> DEFINE I == TypeInv /\ AliveInv /\ (open[Sink] => PlaceInv /\ RefsAccounted)
<1>1. Init => I
  BY TypeInit, AliveInit, CountInit
<1>2. I /\ [Next]_vars => I'
  <2> SUFFICES ASSUME I, [Next]_vars PROVE I'
    OBVIOUS
  <2>1. TypeInv' /\ AliveInv' /\ (open'[Sink] => open[Sink])
    BY TypeNext, AliveNext
  <2>2. open[Sink] => DropsInTime
    <3> SUFFICES ASSUME open[Sink], NEW n \in Node, pc[n] = "check",
                        NEW e \in NextTarget(n)
                 PROVE  open[Dst[e]]
      BY DEF DropsInTime
    <3>1. e \in Targets(n)
      BY NextIsPending DEF TypeInv, TypeOK
    <3> QED BY <3>1, TargetsOpen
  <2>3. open'[Sink] => CountInv'
    BY <2>1, <2>2, CountNext DEF CountInv
  <2> QED BY <2>1, <2>3 DEF CountInv
<1>3. I => (open[Sink] => RefsAccounted /\ QueuedRefReadable)
  BY CountedIsReadable DEF CountInv
<1> QED BY <1>1, <1>2, <1>3, PTL DEF Spec

(***************************************************************************)
(* The data plane implements the fan-out ledger (FanOut) as long as its    *)
(* counts are right: what is readable is what is referred to, and a step   *)
(* publishes one payload, settles claims on one payload, or stutters.      *)
(***************************************************************************)

\* A payload is held exactly as long as somebody refers to it.
LEMMA HeldIsReferred ==
  TypeInv /\ RefsAccounted => \A d \in Data : store[d] > 0 <=> RefsTo(d) # {}
<1> SUFFICES ASSUME TypeInv, RefsAccounted, NEW d \in Data
             PROVE  store[d] > 0 <=> RefsTo(d) # {}
  OBVIOUS
<1>1. IsFiniteSet(RefsTo(d)) /\ Cardinality(RefsTo(d)) \in Nat
  BY RefsFinite, FS_CardinalityType
<1>2. Cardinality(RefsTo(d)) = 0 <=> RefsTo(d) = {}
  BY <1>1, FS_EmptySet
<1> QED BY <1>1, <1>2 DEF RefsAccounted

\* The claims of the ledger on a payload are the references to it.
LEMMA ClaimsAreRefs ==
  /\ \A d : Ledger!ClaimsOn(Outstanding, d) = RefsTo(d)
  /\ \A d : Ledger!ClaimsOn(Outstanding', d) = RefsTo(d)'
  BY DEF Ledger!ClaimsOn, RefsTo

\* A step that keeps the counts right is a step of the ledger.
LEMMA LedgerStep ==
  ASSUME CountInv, CountInv', LedgerMove
  PROVE  [Ledger!FanOutNext]_Ledger!fvars
<1> DEFINE Held == {d \in Data : store[d] > 0}
<1> USE DEF CountInv
<1>1. \A d \in Data : d \in Held <=> RefsTo(d) # {}
  BY HeldIsReferred
<1>2. \A d \in Data : d \in Held' <=> RefsTo(d)' # {}
  <2>1. (\A d \in Data : store[d] > 0 <=> RefsTo(d) # {})'
    BY HeldIsReferred, PTL
  <2> QED BY <2>1
<1>3. Outstanding' \subseteq Data \X Edge
  <2>1. (Outstanding \subseteq Ref)'
    BY OutstandingType, PTL
  <2> QED BY <2>1 DEF Ref
<1> HIDE DEF CountInv
<1>4. CASE Outstanding' = Outstanding
  <2>1. \A d : RefsTo(d)' = RefsTo(d)
    BY <1>4 DEF RefsTo
  <2>2. Held' = Held
    BY <1>1, <1>2, <2>1
  <2> QED BY <1>4, <2>2 DEF Ledger!fvars
<1>5. ASSUME NEW d \in Data, NEW T \in SUBSET Edge, T # {},
             RefsTo(d) = {}, Outstanding' = Outstanding \cup ({d} \X T)
      PROVE  Ledger!FanOutNext
  <2>1. RefsTo(d)' = {d} \X T
    BY <1>5 DEF RefsTo
  <2>2. RefsTo(d)' # {}
    <3>1. PICK e \in T : TRUE
      BY <1>5
    <3>2. <<d, e>> \in {d} \X T
      BY <3>1
    <3> QED BY <2>1, <3>2
  <2>3. \A x \in Data \ {d} : RefsTo(x)' = RefsTo(x)
    BY <1>5 DEF RefsTo
  <2>4. d \notin Held /\ Held' = Held \cup {d}
    BY <1>1, <1>2, <1>5, <2>2, <2>3
  <2>5. Ledger!Publish(d)
    BY <1>5, <2>2, <2>4, ClaimsAreRefs DEF Ledger!Publish
  <2>6. Outstanding' \ RefsTo(d)' = Outstanding \ RefsTo(d)
    BY <1>5, <2>1 DEF RefsTo
  <2> QED BY <1>3, <2>5, <2>6, ClaimsAreRefs DEF Ledger!FanOutNext
<1>6. ASSUME NEW d \in Data, NEW T \in SUBSET Edge, T # {},
             {d} \X T \subseteq Outstanding, Outstanding' = Outstanding \ ({d} \X T)
      PROVE  Ledger!FanOutNext
  <2>1. {d} \X T # {}
    <3>1. PICK e \in T : TRUE
      BY <1>6
    <3>2. <<d, e>> \in {d} \X T
      BY <3>1
    <3> QED BY <3>2
  <2>2. /\ {d} \X T \subseteq RefsTo(d) /\ {d} \X T # {}
        /\ RefsTo(d)' = RefsTo(d) \ ({d} \X T)
    BY <1>6, <2>1 DEF RefsTo
  <2>3. \A x \in Data \ {d} : RefsTo(x)' = RefsTo(x)
    BY <1>6 DEF RefsTo
  <2>4. d \in Held /\ Held' = IF RefsTo(d)' = {} THEN Held \ {d} ELSE Held
    BY <1>1, <1>2, <2>2, <2>3
  <2>5. Ledger!Settle(d)
    BY <2>2, <2>4, ClaimsAreRefs DEF Ledger!Settle
  <2>6. Outstanding' \ RefsTo(d)' = Outstanding \ RefsTo(d)
    BY <1>6, <2>2 DEF RefsTo
  <2> QED BY <1>3, <2>5, <2>6, ClaimsAreRefs DEF Ledger!FanOutNext
<1> QED BY <1>4, <1>5, <1>6 DEF LedgerMove

\* Initially nothing is claimed and nothing is held.
LEMMA LedgerInit == Init => Ledger!FanOutInit
<1> SUFFICES ASSUME Init PROVE Ledger!FanOutInit
  OBVIOUS
<1>1. TypeInv /\ PlaceInv /\ RefsAccounted
  BY TypeInit, CountInit
<1>2. {d \in Data : store[d] > 0} = {}
  BY DEF Init
<1>3. \A d \in Data : RefsTo(d) = {}
  BY <1>1, <1>2, HeldIsReferred
<1>4. Outstanding = {}
  BY <1>1, <1>3, OutstandingType DEF RefsTo, Ref
<1> QED BY <1>2, <1>4 DEF Ledger!FanOutInit

\* Without DropNewest edges every behaviour, undeploying included, is one of
\* the fan-out ledger: a payload is published once, settled once by every
\* receiver, and held exactly as long as a claim on it is open (data.rs).
THEOREM BlockImplements ==
  ASSUME DropEdge = {}
  PROVE  Spec => ImplementsFanOut
<1> DEFINE I == CountInv /\ NeverDrops
<1>1. Init => I /\ Ledger!FanOutInit
  <2>1. Init => NeverDrops
    BY DEF Init, NeverDrops
  <2> QED BY <2>1, TypeInit, CountInit, LedgerInit DEF CountInv
<1>2. I /\ [Next]_vars => I' /\ [Ledger!FanOutNext]_Ledger!fvars
  <2>1. NeverDrops => DropsInTime
    BY DEF NeverDrops, DropsInTime
  <2>2. CountInv => TypeInv
    BY DEF CountInv
  <2> QED BY <2>1, <2>2, CountNext, BlockNeverDrops, LedgerStep
<1> QED BY <1>1, <1>2, PTL DEF Spec, ImplementsFanOut, Ledger!FanOutSpec

\* A workflow that is not undeployed implements the ledger whatever the
\* policies of its edges are: DropNewest settles what it drops (runner.rs).
THEOREM RunningImplements ==
  ASSUME Pure = {}
  PROVE  RunningSpec => ImplementsFanOut
<1> DEFINE I == TypeInv /\ AliveInv /\ open[Sink] /\ PlaceInv /\ RefsAccounted
<1>1. Init => I /\ Ledger!FanOutInit
  <2>1. Init => open[Sink]
    BY DEF Init
  <2> QED BY <2>1, TypeInit, AliveInit, CountInit, LedgerInit
<1>2. I /\ [Running]_vars => I' /\ [Ledger!FanOutNext]_Ledger!fvars
  <2> SUFFICES ASSUME I, [Running]_vars PROVE I' /\ [Ledger!FanOutNext]_Ledger!fvars
    OBVIOUS
  <2>1. [Next]_vars
    BY SMTT(60) DEF Next
  <2>2. open'[Sink] /\ TypeInv' /\ AliveInv'
    <3>1. open'[Sink]
      BY DataPlaneAssumption, ZenonT(90) DEF Running, NodeStep, TriggerStep, ClientStep, Receive,
         TransformFails, TransformReturns, CacheOnly, WriteOutput, SendOk, TrySendFull,
         DropChecked, NodeSendClosed, InputsClosed, Emit, TriggerSendClosed, Submit,
         ClientSendClosed, Consume, Publish, Stop, vars, TypeInv, TypeOK
    <3> QED BY <2>1, <3>1, TypeNext, AliveNext, SMTT(60)
  <2>3. DropsInTime
    <3> SUFFICES ASSUME NEW n \in Node, pc[n] = "check", NEW e \in NextTarget(n)
                 PROVE  open[Dst[e]]
      BY DEF DropsInTime
    <3>1. e \in Targets(n)
      BY NextIsPending DEF TypeInv, TypeOK
    <3> QED BY <3>1, TargetsOpen
  <2>4. CountInv /\ CountInv' /\ LedgerMove
    BY <2>1, <2>3, CountNext DEF CountInv
  <2> QED BY <2>2, <2>4, LedgerStep DEF CountInv
<1> QED BY <1>1, <1>2, PTL DEF RunningSpec, ImplementsFanOut, Ledger!FanOutSpec
=============================================================================
