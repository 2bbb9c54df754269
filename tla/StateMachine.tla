---------------------------- MODULE StateMachine ----------------------------
(***************************************************************************)
(* The stateMachine node (crates/nodes-flow/src/state_machine.rs): its     *)
(* state lives in a workflow variable, a message is matched against the    *)
(* transitions by priority, and the actions leave through output pins, one *)
(* per action port.  The user interface may write or remove the variable   *)
(* between any two steps of transform, which has no lock of its own.       *)
(*                                                                         *)
(* A message is what the conditions of the transitions say about its       *)
(* payload: a function from conditions to "true", "false" or "error".      *)
(***************************************************************************)
EXTENDS Naturals, Sequences
Seqs == INSTANCE SequencesExt

CONSTANTS SmMessages, \* functions from conditions to "true", "false" and "error"
          SmForeign   \* what the user interface writes into the state variable

VARIABLES smConfig, smState, smPhase, smMessage, smFrom, smMatch, smResult, smMeddled

smVars == <<smConfig, smState, smPhase, smMessage, smFrom, smMatch, smResult, smMeddled>>

NoMachine == [states |-> {}, entry |-> << >>, exit |-> << >>, rules |-> << >>, initial |-> << >>]
Erased == <<"removed">>   \* the variable does not exist
NoPort == <<"no", "port">>

\* The output pins: every action port once, in the order of their first mention.
ActionPorts(config) ==
  UNION {Seqs!ToSet(config.entry[s]) \cup Seqs!ToSet(config.exit[s]) : s \in config.states}
    \cup ({config.rules[i].port : i \in DOMAIN config.rules} \ {NoPort})

-----------------------------------------------------------------------------
Holds(when, message) == IF when = "true" THEN "true" ELSE message[when]

Applying(config, state) == {i \in DOMAIN config.rules : config.rules[i].from \in {<<"*">>, state}}
Before(config, i, j) ==
  \/ config.rules[i].priority > config.rules[j].priority
  \/ config.rules[i].priority = config.rules[j].priority /\ i < j

\* Mutant: the lowest priority is tried first.
CandidatesUpwards(config, state) ==
  CHOOSE q \in Seqs!SetToSeqs(Applying(config, state)) : \A k, l \in DOMAIN q : k < l => ~Before(config, q[k], q[l])

\* The rules that apply in a state, highest priority first, in the order of the
\* configuration among equals.
Candidates(config, state) ==
  CHOOSE q \in Seqs!SetToSeqs(Applying(config, state)) : \A k, l \in DOMAIN q : k < l => Before(config, q[k], q[l])

\* The first candidate that is not false: zero when there is none.
FirstMatch(config, state, message) ==
  LET order == Candidates(config, state)
      open  == {k \in DOMAIN order : Holds(config.rules[order[k]].when, message) # "false"}
  IN  IF open = {} THEN 0 ELSE order[CHOOSE k \in open : \A l \in open : k <= l]

\* The actions of a transition in their order.
PortsOf(config, from, rule) ==
  LET Of(actions, state) == IF state \in config.states THEN actions[state] ELSE << >>
  IN  Of(config.exit, from)
        \o (IF rule.port = NoPort THEN << >> ELSE <<rule.port>>)
        \o Of(config.entry, rule.to)

-----------------------------------------------------------------------------
Failed == [kind |-> "failed", ports |-> << >>]
NoEffect == [kind |-> "none", ports |-> << >>]

SmFail ==
  /\ smPhase' = "ready" /\ smResult' = Failed

\* transform begins with the state variable.
ReadCurrentState ==
  /\ smPhase = "ready" /\ smConfig # NoMachine
  /\ \E message \in SmMessages :
       /\ smMessage' = message
       /\ smFrom' = smState
  /\ smMatch' = 0 /\ smMeddled' = FALSE
  /\ IF smState = Erased
     THEN SmFail
     ELSE smPhase' = "read" /\ smResult' = NoEffect
  /\ UNCHANGED <<smConfig, smState>>

\* A condition that fails ends the evaluation; no match is a broadcast of the payload.
EvaluateTransitions ==
  /\ smPhase = "read"
  /\ smMatch' = FirstMatch(smConfig, smFrom, smMessage)
  /\ CASE smMatch' = 0 ->
            /\ smPhase' = "ready"
            /\ smResult' = [kind |-> "broadcast", ports |-> << >>]
       [] smMatch' # 0 /\ Holds(smConfig.rules[smMatch'].when, smMessage) = "error" -> SmFail
       [] OTHER -> smPhase' = "matched" /\ UNCHANGED smResult
  /\ UNCHANGED <<smConfig, smState, smMessage, smFrom, smMeddled>>

\* The state is written before any action is sent, whatever it is by now.
WriteCurrentState ==
  /\ smPhase = "matched"
  /\ LET rule == smConfig.rules[smMatch] IN
       IF smState = Erased
       THEN SmFail /\ UNCHANGED smState
       ELSE /\ smState' = rule.to
            /\ smPhase' = "ready"
            /\ smResult' = [kind |-> "route", ports |-> PortsOf(smConfig, smFrom, rule)]
  /\ UNCHANGED <<smConfig, smMessage, smFrom, smMatch, smMeddled>>

\* set_workflow_variable and delete_workflow_variable of the user interface.
Meddle ==
  /\ smConfig # NoMachine /\ smState # Erased
  /\ smState' \in SmForeign \cup {Erased}
  /\ smMeddled' = TRUE
  /\ UNCHANGED <<smConfig, smPhase, smMessage, smFrom, smMatch, smResult>>

\* The node is created from its configuration, its variable with the initial state.
StartMachine(config) ==
  /\ smConfig' = config /\ smState' = config.initial
  /\ UNCHANGED <<smPhase, smMessage, smFrom, smMatch, smResult, smMeddled>>

SmInit ==
  /\ smConfig = NoMachine /\ smState = Erased
  /\ smPhase = "ready" /\ smMessage = << >> /\ smFrom = Erased
  /\ smMatch = 0 /\ smResult = NoEffect /\ smMeddled = FALSE

SmStep == ReadCurrentState \/ EvaluateTransitions \/ WriteCurrentState

\* Broadcast reaches every edge of an Exec pin, Route the edges of its ports, each once.
Triggered ==
  CASE smResult.kind = "broadcast" -> ActionPorts(smConfig)
    [] smResult.kind = "route"     -> Seqs!ToSet(smResult.ports)
    [] OTHER                       -> {}

-----------------------------------------------------------------------------
(* A matched rule is the most important of those that apply and hold: no    *)
(* rule of a higher priority, and none of the same priority written earlier,*)
(* holds for the message (evaluate_transitions).                            *)
HighestPriorityWins ==
  smMatch # 0 =>
    LET won == smConfig.rules[smMatch] IN
    \A i \in DOMAIN smConfig.rules :
      LET rule == smConfig.rules[i] IN
      /\ rule.from \in {<<"*">>, smFrom} /\ Holds(rule.when, smMessage) = "true"
      => rule.priority < won.priority \/ (rule.priority = won.priority /\ i >= smMatch)

(* An action runs only when a transition is taken (the header of            *)
(* state_machine.rs): broken, since a message that matches nothing is       *)
(* broadcast to the nodes of all action ports.                              *)
ActionsNeedTransition ==
  Triggered # {} => smResult.kind = "route"
=============================================================================
