----------------------------- MODULE DslCompiler -----------------------------
(***************************************************************************)
(* From a workflow specification to a running state machine: the checks    *)
(* and the safety rules of crates/dsl-compiler, the graph they build, and  *)
(* the machine of StateMachine started from it.                            *)
(*                                                                         *)
(* A name is a sequence of tokens, among them the separators that the      *)
(* compiler replaces; numbers are small.  An action calls a capability (or *)
(* a system action) with one argument: a number, or the name of a variable.*)
(***************************************************************************)
EXTENDS StateMachine, Integers, FiniteSets, TLC

CONSTANTS SpecChoices,   \* the specifications compiled
          CapabilitiesOf, \* name -> [device, range: <<low, high>> or << >>, readable, unit, register, dangerous]
          KnownDevices,
          NameOrder      \* the state names in their lexical order

\* Names are sequences of tokens, lists are sequences, and every state has its
\* place in the lexical order.
ASSUME DslAssumption ==
  /\ NameOrder \in Seq(Seqs!ToSet(NameOrder))
  /\ \A s \in SpecChoices :
       /\ IsFiniteSet(s.states) /\ s.states \subseteq Seqs!ToSet(NameOrder) \cap Seq(STRING)
       /\ \A q \in s.states : s.entry[q] \in Seq(Seqs!ToSet(s.entry[q])) /\ s.exit[q] \in Seq(Seqs!ToSet(s.exit[q]))
       /\ s.transitions \in Seq(Seqs!ToSet(s.transitions))
       /\ \A t \in Seqs!ToSet(s.transitions) : t.from \in Seq(STRING) /\ t.to \in Seq(STRING) /\ t.priority \in Int

VARIABLES spec, stage, order, report, graph

dslVars == <<spec, stage, order, report, graph, smVars>>

NoAction == [kind |-> "none", target |-> << >>, arg |-> 0]
NoGraph == [nodes |-> {}, edges |-> {}]

\* All action lists of a specification, with where they stand.
StateActions(s) ==
  UNION {{[where |-> "entry", state |-> q, index |-> i, action |-> s.entry[q][i]] : i \in DOMAIN s.entry[q]}
           \cup {[where |-> "exit", state |-> q, index |-> i, action |-> s.exit[q][i]] : i \in DOMAIN s.exit[q]} : q \in s.states}

RuleActions(s) ==
  {[where |-> "trans", state |-> << >>, index |-> i, action |-> s.transitions[i].action] :
     i \in {k \in DOMAIN s.transitions : s.transitions[k].action # NoAction}}

Actions(s) == StateActions(s) \cup RuleActions(s)

CapabilityRefs(s) == {a.action.target : a \in {b \in Actions(s) : b.action.kind = "capability"}}

-----------------------------------------------------------------------------
(* The checks, in the order of compile.                                     *)

ReferencesResolve(s) ==
  /\ s.devices \subseteq KnownDevices
  /\ \A c \in CapabilityRefs(s) :
       c \in DOMAIN CapabilitiesOf /\ CapabilitiesOf[c].device \in KnownDevices

SpecIsSound(s) ==
  /\ s.states # {}
  /\ \A i \in DOMAIN s.transitions :
       LET t == s.transitions[i] IN
       /\ t.from = <<"*">> \/ t.from \in s.states
       /\ t.to \in s.states
       /\ t.from = <<"*">> => t.priority # -1
       /\ \A k \in 1 .. i - 1 : <<s.transitions[k].from, s.transitions[k].to, s.transitions[k].when>> # <<t.from, t.to, t.when>>
  /\ s.timeout \subseteq s.states

\* Features the runtime does not have: timeouts, system actions, and variables
\* other than the payload in a condition.
RuntimeSupports(s) ==
  /\ s.timeout = {}
  /\ \A a \in Actions(s) : a.action.kind = "capability"
  /\ \A i \in DOMAIN s.transitions : s.transitions[i].when # "bare"

Sanitized(name) == [k \in DOMAIN name |-> IF name[k] \in {".", "-", " "} THEN "_" ELSE name[k]]

PortOf(s, a) ==
  IF a.where = "trans"
  THEN LET t == s.transitions[a.index]
       IN  <<"trans", "_">> \o Sanitized(t.from) \o <<"_">> \o Sanitized(t.to) \o <<"_", ToString(a.index - 1)>>
  ELSE <<a.where, "_">> \o Sanitized(a.state) \o <<"_", ToString(a.index - 1)>>

NodeOf(s, a) == Sanitized(<<"cap", "_">> \o a.action.target \o <<"_">> \o PortOf(s, a))

IdsStayApart(s) ==
  \A a, b \in Actions(s) : a # b => PortOf(s, a) # PortOf(s, b) /\ NodeOf(s, a) # NodeOf(s, b)

InitialState(s) ==
  IF <<"idle">> \in s.states THEN <<"idle">>
  ELSE NameOrder[CHOOSE k \in DOMAIN NameOrder :
         NameOrder[k] \in s.states /\ \A l \in 1 .. k - 1 : NameOrder[l] \notin s.states]

-----------------------------------------------------------------------------
(* The safety rules.                                                        *)

\* A number, or the initial value of a variable, outside the range of its parameter.
ArgumentValue(s, a) ==
  IF a.arg \in DOMAIN s.variables THEN s.variables[a.arg] ELSE a.arg

CheckRangeBoundary(s) ==
  {[level |-> "error", rule |-> "range", subject |-> a.action.target] :
     a \in {b \in Actions(s) :
       LET range == CapabilitiesOf[b.action.target].range
           value == ArgumentValue(s, b.action)
       IN  /\ range # << >> /\ value \in Int
           /\ ~(range[1] <= value /\ value <= range[2])}}

\* Every signal a precondition names must be readable.
CheckPreconditionReachability(s) ==
  {[level |-> "error", rule |-> "precondition", subject |-> c] : c \in {d \in CapabilityRefs(s) : ~CapabilitiesOf[d].readable}}

\* No unit can be checked, so every argument of a parameter with a unit is a warning.
CheckUnitConsistency(s) ==
  {[level |-> "warning", rule |-> "unit", subject |-> a.action.target] :
     a \in {b \in Actions(s) : CapabilitiesOf[b.action.target].unit}}

CheckDangerousActionApproval(s) ==
  {[level |-> "warning", rule |-> "approval", subject |-> a.action.target] :
     a \in {b \in Actions(s) : CapabilitiesOf[b.action.target].dangerous}}

\* Two capabilities that write the same register of a device (zero: none).
Conflict(c, d) ==
  /\ c # d /\ CapabilitiesOf[c].device = CapabilitiesOf[d].device
  /\ CapabilitiesOf[c].register # 0 /\ CapabilitiesOf[c].register = CapabilitiesOf[d].register

CheckMechanicalInterlock(s) ==
  {[level |-> "warning", rule |-> "interlock", subject |-> {p[1], p[2]}] :
     p \in {r \in CapabilityRefs(s) \X CapabilityRefs(s) : Conflict(r[1], r[2])}}

\* A transitive closure from the initial state: a wildcard starts anywhere.
FindReachableStates(s) ==
  LET Wave[reached \in SUBSET s.states] ==
        LET next == reached \cup {s.transitions[i].to : i \in {k \in DOMAIN s.transitions :
                      s.transitions[k].from \in reached \cup {<<"*">>}}}
        IN  IF next = reached THEN reached ELSE Wave[next]
  IN  Wave[{InitialState(s)}]

\* States that say by their name that they are final are left out.
FinalHints == {"done", "complete", "end", "fault", "error", "finish"}

FindDeadEndStates(s) ==
  IF \E i \in DOMAIN s.transitions : s.transitions[i].from = <<"*">> THEN {}
  ELSE {q \in s.states : /\ \A i \in DOMAIN s.transitions : s.transitions[i].from # q
                         /\ q \notin s.timeout
                         /\ Seqs!ToSet(q) \cap FinalHints = {}}

Neighbours(s, q) == {s.transitions[i].to : i \in {k \in DOMAIN s.transitions : s.transitions[k].from = q}}

\* One visit of the depth-first search: a state on the path closes a cycle, which
\* is kept unless a cycle of the same states is known; a visited state is left
\* alone; any other is entered, and what its transitions lead to is visited.
Searches(s) == [visited : SUBSET s.states, path : Seq(s.states), cycles : SUBSET Seq(s.states)]
DfsVisit(s) ==
  LET Visit[c \in Searches(s) \X s.states] ==
        LET search == c[1]
            q == c[2]
            at == {k \in DOMAIN search.path : search.path[k] = q}
            cycle == SubSeq(search.path, CHOOSE k \in at : TRUE, Len(search.path))
            After[i \in 0 .. Len(s.transitions)] ==
              IF i = 0 THEN [search EXCEPT !.visited = @ \cup {q}, !.path = Append(@, q)]
              ELSE IF s.transitions[i].from = q THEN Visit[<<After[i - 1], s.transitions[i].to>>]
              ELSE After[i - 1]
        IN  IF at # {}
            THEN IF \E d \in search.cycles : Seqs!ToSet(d) = Seqs!ToSet(cycle) THEN search
                 ELSE [search EXCEPT !.cycles = @ \cup {cycle}]
            ELSE IF q \in search.visited THEN search
            ELSE [After[Len(s.transitions)] EXCEPT !.path = search.path]
  IN  Visit

\* The states are visited in the order of their hash map, whatever it is.
FindTriggerCycles(s, hashOrder) ==
  LET After[i \in 0 .. Len(hashOrder)] ==
        IF i = 0 THEN [visited |-> {}, path |-> << >>, cycles |-> {}]
        ELSE DfsVisit(s)[<<After[i - 1], hashOrder[i]>>]
  IN  After[Len(hashOrder)].cycles

UnconditionalEdge(s, from, to) ==
  \E i \in DOMAIN s.transitions :
    LET t == s.transitions[i] IN t.from = from /\ t.to = to /\ t.when = "true"

IsUnconditionalCycle(s, cycle) ==
  \A k \in DOMAIN cycle : UnconditionalEdge(s, cycle[k], cycle[(k % Len(cycle)) + 1])

CheckStateMachineCompleteness(s, hashOrder) ==
  {[level |-> "warning", rule |-> "unreachable", subject |-> q] : q \in s.states \ FindReachableStates(s)}
  \cup {[level |-> "warning", rule |-> "dead end", subject |-> q] : q \in FindDeadEndStates(s)}
  \cup {[level |-> IF IsUnconditionalCycle(s, c) THEN "error" ELSE "warning", rule |-> "cycle", subject |-> c] :
          c \in FindTriggerCycles(s, hashOrder)}

RunSafetyChecks(s, hashOrder) ==
  CheckUnitConsistency(s) \cup CheckRangeBoundary(s) \cup CheckPreconditionReachability(s)
    \cup CheckStateMachineCompleteness(s, hashOrder) \cup CheckDangerousActionApproval(s)
    \cup CheckMechanicalInterlock(s)

HasErrors(diagnostics) == \E d \in diagnostics : d.level = "error"

-----------------------------------------------------------------------------
(* The graph.                                                               *)

\* Each action becomes a node, reached by one edge from its port.
BuildCapabilityCallNodes(s) ==
  {[id |-> NodeOf(s, a), calls |-> a.action] : a \in Actions(s)}

BuildEdges(s) ==
  {[port |-> PortOf(s, a), to |-> NodeOf(s, a)] : a \in Actions(s)}

BuildStateMachineNode(s) ==
  LET Ports(where, q, list) ==
        [i \in DOMAIN list |-> PortOf(s, [where |-> where, state |-> q, index |-> i, action |-> list[i]])]
      Rule(i) ==
        LET t == s.transitions[i] IN
        [from |-> t.from, to |-> t.to, when |-> t.when,
         priority |-> IF t.priority = -1 THEN 0 ELSE t.priority,
         port |-> IF t.action = NoAction THEN NoPort
                  ELSE PortOf(s, [where |-> "trans", state |-> << >>, index |-> i, action |-> t.action])]
  IN  [states |-> s.states, initial |-> InitialState(s),
       entry |-> [q \in s.states |-> Ports("entry", q, s.entry[q])],
       exit  |-> [q \in s.states |-> Ports("exit", q, s.exit[q])],
       rules |-> [i \in DOMAIN s.transitions |-> Rule(i)]]

-----------------------------------------------------------------------------
(* compile_with_safety: one check after the other, then the graph.          *)

PassOn(from, to, passes) ==
  /\ stage = from
  /\ stage' = IF passes THEN to ELSE "rejected"
  /\ UNCHANGED <<spec, order, report, graph, smVars>>

ValidateReferences == PassOn("references", "spec", ReferencesResolve(spec))
ValidateWorkflowSpec == PassOn("spec", "features", SpecIsSound(spec))
ValidateSupportedFeatures == PassOn("features", "ids", RuntimeSupports(spec))
ValidateSanitizedIds == PassOn("ids", "safety", IdsStayApart(spec))

CheckSafety ==
  /\ stage = "safety"
  /\ \E hashOrder \in Seqs!SetToSeqs(spec.states) :
       /\ order' = hashOrder
       /\ report' = RunSafetyChecks(spec, hashOrder)
  /\ stage' = IF HasErrors(report') THEN "rejected" ELSE "build"
  /\ UNCHANGED <<spec, graph, smVars>>

BuildGraph ==
  /\ stage = "build"
  /\ stage' = "running"
  /\ graph' = [nodes |-> BuildCapabilityCallNodes(spec), edges |-> BuildEdges(spec)]
  /\ StartMachine(BuildStateMachineNode(spec))
  /\ UNCHANGED <<spec, order, report>>

RunMachine ==
  /\ stage = "running"
  /\ SmStep \/ Meddle
  /\ UNCHANGED <<spec, stage, order, report, graph>>

CompilerInit ==
  /\ spec \in SpecChoices
  /\ stage = "references"
  /\ order = << >> /\ report = {} /\ graph = NoGraph
  /\ SmInit

CompilerNext ==
  \/ ValidateReferences \/ ValidateWorkflowSpec \/ ValidateSupportedFeatures
  \/ ValidateSanitizedIds \/ CheckSafety \/ BuildGraph \/ RunMachine

CompilerSpec == CompilerInit /\ [][CompilerNext]_dslVars
-----------------------------------------------------------------------------
\* What the nodes behind the triggered ports call.
Called ==
  {n.calls : n \in {m \in graph.nodes : \E e \in graph.edges : e.port \in Triggered /\ e.to = m.id}}

\* The actions the specification asks for when a transition is taken.
Asked(from, t) ==
  LET Of(lists, q) == IF q \in spec.states THEN Seqs!ToSet(lists[q]) ELSE {}
  IN  Of(spec.exit, from) \cup ({t.action} \ {NoAction}) \cup Of(spec.entry, t.to)

(* When a transition is taken, the capabilities called are those of the     *)
(* specification: the exit actions of the old state, the action of the      *)
(* transition and the entry actions of the new state, and the transition is *)
(* one of the specification that starts in the old state or anywhere.       *)
CompiledRunsTheSpec ==
  stage = "running" /\ smResult.kind = "route" =>
    LET t == spec.transitions[smMatch] IN
    /\ t.from \in {<<"*">>, smFrom}
    /\ Called = Asked(smFrom, t)
    /\ smMeddled \/ smState = t.to

(* A state the report calls unreachable is never entered, and one it calls  *)
(* a dead end is never left, while nobody writes the state variable by hand.*)
WarningsAreTrue ==
  stage = "running" /\ smResult.kind = "route" =>
    \A d \in report :
      /\ d.rule = "dead end" => smFrom # d.subject
      /\ d.rule = "unreachable" /\ smFrom \in FindReachableStates(spec) =>
           spec.transitions[smMatch].to # d.subject

(* A specification whose explicit transitions contain a cycle is reported   *)
(* with at least one, whatever the order of the hash map.                   *)
CyclesAreNoticed ==
  order # << >> /\ (\E q \in spec.states : \E visits \in SUBSET spec.states :
                      /\ q \in visits
                      /\ \A v \in visits : \E w \in visits : w \in Neighbours(spec, v))
  => \E d \in report : d.rule = "cycle"

(* What passes the safety rules calls nothing with an argument outside its  *)
(* range, as long as the variables keep their initial values.               *)
CallsWithinRange ==
  stage = "running" =>
    \A call \in Called :
      LET range == CapabilitiesOf[call.target].range
          value == ArgumentValue(spec, call)
      IN  range # << >> /\ value \in Int => range[1] <= value /\ value <= range[2]

(* Two capabilities that write one register and are triggered by the same   *)
(* transition, so by two nodes at the same time, have been warned about.    *)
ConflictsAreWarned ==
  stage = "running" =>
    \A a, b \in Called :
      Conflict(a.target, b.target) =>
        \E d \in report : d.rule = "interlock" /\ d.subject = {a.target, b.target}

(* A cycle of transitions that always hold is an error (state_graph.rs):    *)
(* broken, the search keeps one cycle per way back and never sees others.   *)
UnconditionalCyclesAreErrors ==
  order # << >> /\ (\E visits \in SUBSET spec.states :
                      /\ visits # {}
                      /\ \A v \in visits : \E w \in visits : UnconditionalEdge(spec, v, w))
  => HasErrors(report)

\* The machine that runs is the specification, and the reports about it are true.
CompilerSound ==
  /\ HighestPriorityWins
  /\ CompiledRunsTheSpec
  /\ WarningsAreTrue
  /\ CyclesAreNoticed
  /\ CallsWithinRange
  /\ ConflictsAreWarned
=============================================================================
