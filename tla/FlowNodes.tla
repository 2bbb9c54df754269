------------------------------ MODULE FlowNodes ------------------------------
(***************************************************************************)
(* The script nodes of crates/nodes-flow (if, switch, loop, tryCatch, code) *)
(* and the table look-up of crates/nodes-pure, over the script base of      *)
(* crates/scripting: the script runs operation by operation against a       *)
(* budget, reads and writes a workflow variable that other nodes use at the *)
(* same time, and its result decides the outputs and their ports.           *)
(*                                                                         *)
(* A script is a sequence of operations and a result.  Operations:          *)
(*   "get" "set" "cas"  vars.get, vars.set(read + 1), vars.cas(read, read+1)*)
(*   "mark" "spoil"     change payload, make it impossible to serialize     *)
(*   "throw" "spin"     fail, run for ever                                  *)
(***************************************************************************)
EXTENDS Integers, Sequences

CONSTANTS FlowNode,       \* the running instances
          FlowConfigs,    \* [kind, script, result, branches, default, vars]
          MaxOperations,  \* operations a script may take (50 000 by default)
          MaxIterations,  \* MAX_LOOP_ITERATIONS
          Spoilt          \* a value that cannot become JSON

ScriptOperations == {"get", "set", "cas", "mark", "spoil", "throw", "spin"}

\* An if takes a Boolean of the script, a loop an array.
ASSUME FlowAssumption ==
  /\ MaxIterations \in Nat
  /\ \A c \in FlowConfigs :
       /\ c.script \in Seq(ScriptOperations)
       /\ c.result.t = "bool" => c.result.v \in BOOLEAN
       /\ c.result.t = "array" =>
            LET v == c.result.v IN Len(v) \in Nat /\ v = [i \in 1..Len(v) |-> v[i]]

VARIABLES config, pos, spent, read, payload, counter, wins, scriptEnd, outputs, flowResult
flowVars == <<config, pos, spent, read, payload, counter, wins, scriptEnd, outputs, flowResult>>

FlowOut(ports, data, loop) == [ports |-> ports, data |-> data, loop |-> loop]
NoLoop == [phase |-> "none", index |-> -1, count |-> 0, item |-> 0]

FlowInit ==
  /\ config \in [FlowNode -> FlowConfigs]
  /\ pos = [n \in FlowNode |-> 1] /\ spent = [n \in FlowNode |-> 0]
  /\ read = [n \in FlowNode |-> 0] /\ payload = [n \in FlowNode |-> 1]
  /\ counter = 0 /\ wins = 0
  /\ scriptEnd = [n \in FlowNode |-> "running"]
  /\ outputs = [n \in FlowNode |-> << >>] /\ flowResult = [n \in FlowNode |-> "none"]

ScriptOver(n) == pos[n] > Len(config[n].script)
Op(n) == config[n].script[pos[n]]

\* set_max_operations: the engine stops a script that goes on for too long.
WithinBudget(n) == spent[n] < MaxOperations
Spend(n) == spent[n] + 1
\* ScriptVars: without injected variables every method is a script error.
VarsMissing(n) == Op(n) \in {"get", "set", "cas"} /\ ~config[n].vars

\* vars.cas: compare and write in one step.
RhaiCas(n) == IF counter = read[n] THEN counter' = read[n] + 1 /\ wins' = wins + 1 ELSE UNCHANGED <<counter, wins>>
\* One operation of the engine; what it has written stays when a later one fails.
Evaluate(n) ==
  /\ scriptEnd[n] = "running" /\ config[n].kind # "lookup" /\ ~ScriptOver(n)
  /\ WithinBudget(n) /\ ~VarsMissing(n) /\ Op(n) # "throw"
  /\ spent' = [spent EXCEPT ![n] = Spend(n)]
  /\ pos' = [pos EXCEPT ![n] = IF Op(n) = "spin" THEN @ ELSE @ + 1]
  /\ read' = [read EXCEPT ![n] = IF Op(n) = "get" THEN counter ELSE @]
  /\ payload' = [payload EXCEPT ![n] = CASE Op(n) = "spoil" -> Spoilt [] Op(n) = "mark" /\ @ # Spoilt -> @ + 1 [] OTHER -> @]
  /\ CASE Op(n) = "set" -> counter' = read[n] + 1 /\ UNCHANGED wins
       [] Op(n) = "cas" -> RhaiCas(n)
       [] OTHER -> UNCHANGED <<counter, wins>>
  /\ UNCHANGED <<config, scriptEnd, outputs, flowResult>>
EndScript(n) ==
  /\ scriptEnd[n] = "running" /\ config[n].kind # "lookup"
  /\ \/ ScriptOver(n) /\ scriptEnd' = [scriptEnd EXCEPT ![n] = "value"]
     \/ /\ ~ScriptOver(n) /\ (~WithinBudget(n) \/ VarsMissing(n) \/ Op(n) = "throw")
        /\ scriptEnd' = [scriptEnd EXCEPT ![n] = "error"]
  /\ UNCHANGED <<config, pos, spent, read, payload, counter, wins, outputs, flowResult>>

\* ------------------------------------------------- what transform returns
Result(n) == config[n].result
Emit(n, outs) == flowResult' = [flowResult EXCEPT ![n] = "ok"] /\ outputs' = [outputs EXCEPT ![n] = outs]
Refuse(n) == flowResult' = [flowResult EXCEPT ![n] = "error"] /\ UNCHANGED outputs
EmitOne(n, ports, data) == IF data = Spoilt THEN Refuse(n) ELSE Emit(n, <<FlowOut(ports, data, NoLoop)>>)
ReturnedOrPayload(n) == CASE Result(n).t = "unit" -> payload[n] [] Result(n).t = "opaque" -> Spoilt [] OTHER -> Result(n).v

IfPorts(n) == {IF Result(n).v THEN "true" ELSE "false"}
TransformIf(n) == IF Result(n).t # "bool" THEN Refuse(n) ELSE EmitOne(n, IfPorts(n), payload[n])

\* SwitchNode::new: a node without a default branch gets one.
DefaultBranch(c) == IF c.default = "" THEN "default" ELSE c.default
\* The branch a switch takes: what the script names if the node has that branch.
BranchOf(n) ==
  IF Result(n).t = "text" /\ Result(n).v \in config[n].branches THEN Result(n).v ELSE DefaultBranch(config[n])
TransformSwitch(n) == EmitOne(n, {BranchOf(n)}, payload[n])

\* collect_loop_items: how many rounds, or nothing.
ItemsOf(n) ==
  LET r == Result(n)
  IN  IF r.t = "int" /\ r.v \in 0..MaxIterations THEN [ok |-> TRUE, items |-> [i \in 1..r.v |-> 0]]
      ELSE IF r.t = "array" /\ Len(r.v) <= MaxIterations /\ \A i \in 1..Len(r.v) : r.v[i] # Spoilt
           THEN [ok |-> TRUE, items |-> r.v] ELSE [ok |-> FALSE, items |-> << >>]
\* What a round adds to the payload, under "_loop".
WithLoopState(phase, i, count, item) == [phase |-> phase, index |-> i, count |-> count, item |-> item]
LoopOutputs(n) ==
  LET items == ItemsOf(n).items
      Round(phase, i, item) == WithLoopState(phase, i, Len(items), item)
  IN  [i \in 1..Len(items) |-> FlowOut({"body"}, payload[n], Round("body", i - 1, items[i]))]
      \o <<FlowOut({"done"}, payload[n], Round("done", -1, 0))>>
TransformLoop(n) == IF payload[n] = Spoilt \/ ~ItemsOf(n).ok THEN Refuse(n) ELSE Emit(n, LoopOutputs(n))

\* Mutant: the failure of the body leaves on no port but catch, its payload as it came.
TransformCatchStrict(n) == EmitOne(n, {"catch"}, payload[n])

\* After a failed script the payload as far as it had been changed goes to
\* "catch"; if it cannot be serialized, the payload that came in.
TransformCatch(n) == Emit(n, <<FlowOut({"catch"}, IF payload[n] = Spoilt THEN 1 ELSE payload[n], NoLoop)>>)
FlowTransform(n) ==
  /\ flowResult[n] = "none" /\ scriptEnd[n] # "running"
  /\ \/ scriptEnd[n] = "error" /\ config[n].kind # "tryCatch" /\ Refuse(n)
     \/ scriptEnd[n] = "error" /\ config[n].kind = "tryCatch" /\ TransformCatch(n)
     \/ scriptEnd[n] = "value" /\ config[n].kind = "tryCatch" /\ EmitOne(n, {"try"}, ReturnedOrPayload(n))
     \/ scriptEnd[n] = "value" /\ config[n].kind = "if" /\ TransformIf(n)
     \/ scriptEnd[n] = "value" /\ config[n].kind = "switch" /\ TransformSwitch(n)
     \/ scriptEnd[n] = "value" /\ config[n].kind = "loop" /\ TransformLoop(n)
     \/ scriptEnd[n] = "value" /\ config[n].kind = "code" /\ EmitOne(n, {}, ReturnedOrPayload(n))
  /\ UNCHANGED <<config, pos, spent, read, payload, counter, wins, scriptEnd>>

\* LookupNode: the key found, else the default, else an error.
LookupTable(n) ==
  /\ config[n].kind = "lookup" /\ flowResult[n] = "none"
  /\ IF Result(n).t = "text" /\ (Result(n).v \in config[n].branches \/ config[n].default # "")
     THEN Emit(n, <<FlowOut({}, IF Result(n).v \in config[n].branches THEN Result(n).v ELSE config[n].default, NoLoop)>>)
     ELSE Refuse(n)
  /\ UNCHANGED <<config, pos, spent, read, payload, counter, wins, scriptEnd>>

\* output_pins: those of a switch depend on its configuration.
OutputPins(c) ==
  CASE c.kind = "if" -> {"true", "false"} [] c.kind = "switch" -> c.branches \cup {DefaultBranch(c)}
    [] c.kind = "loop" -> {"body", "done"} [] c.kind = "tryCatch" -> {"try", "catch"} [] OTHER -> {}

FlowStep(n) == Evaluate(n) \/ EndScript(n) \/ FlowTransform(n) \/ LookupTable(n)
FlowNext == \E n \in FlowNode : FlowStep(n)

FlowSpec == FlowInit /\ [][FlowNext]_flowVars
-----------------------------------------------------------------------------
\* A port an output is routed to is one of the node's pins, whatever the script
\* returns: a message to another port would match no edge and vanish
\* (switch_node.rs:126-141).
RoutesArePins ==
  \A n \in FlowNode : \A i \in 1..Len(outputs[n]) : outputs[n][i].ports \subseteq OutputPins(config[n])

\* A loop sends one "body" per item, numbered from 0 and each with the count,
\* then "done" once and last, also for no items at all, and never more rounds
\* than the limit (loop_node.rs:174-197).
LoopCoversItems ==
  \A n \in FlowNode : (config[n].kind = "loop" /\ flowResult[n] = "ok") =>
    LET count == Len(outputs[n]) - 1
        expected == IF Result(n).t = "int" THEN Result(n).v ELSE Len(Result(n).v)
    IN  /\ count = expected /\ count <= MaxIterations
        /\ \A i \in 1..(count + 1) :
             /\ outputs[n][i].ports = {IF i <= count THEN "body" ELSE "done"}
             /\ outputs[n][i].loop.count = count /\ (i <= count => outputs[n][i].loop.index = i - 1)

\* A script that fails in a tryCatch node, its budget used up included, always
\* goes to "catch" and never to the caller, whatever it did to the payload
\* before (try_catch.rs:95-104).
CatchCatches ==
  \A n \in FlowNode : (config[n].kind = "tryCatch" /\ scriptEnd[n] = "error" /\ flowResult[n] # "none") =>
    flowResult[n] = "ok" /\ outputs[n][1].ports = {"catch"}

\* As long as no script uses plain set, the variable counts the successful
\* vars.cas calls of all nodes, also of scripts that failed afterwards.
CasCountsOnce ==
  (\A n \in FlowNode : \A i \in 1..Len(config[n].script) : config[n].script[i] # "set") => counter = wins

\* Every evaluation ends, a script that loops for ever included.
ScriptsEnd == \A n \in FlowNode : <>(flowResult[n] # "none")

\* Outputs of the script nodes go where the node says, failures included
\* (crates/nodes-flow).
FlowSound ==
  /\ RoutesArePins
  /\ LoopCoversItems
  /\ CatchCatches
  /\ CasCountsOnce
=============================================================================
