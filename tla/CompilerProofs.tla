---------------------------- MODULE CompilerProofs ----------------------------
(***************************************************************************)
(* What the workflow compiler promises of the machine it starts, for any   *)
(* specification: the best rule wins, the capabilities called are those of *)
(* the specification and within their ranges, and the report is true.  Of  *)
(* the recursive functions of the compiler (the closure of the reachable   *)
(* states, the depth-first search) a solution is shown to exist and every  *)
(* solution to be right, by counting what is left to visit.                *)
(***************************************************************************)
EXTENDS DslCompiler, FiniteSetTheorems, SequenceTheorems, WellFoundedInduction, TLAPS

-----------------------------------------------------------------------------
(* The invariant: what the stages have seen to.                           *)

\* How far the machine is with a message.
MachineGoes ==
  /\ smPhase \in {"ready", "read", "matched"}
  /\ smMatch # 0 => smMatch = FirstMatch(smConfig, smFrom, smMessage)
  /\ smPhase # "ready" => smResult = NoEffect
  /\ smPhase = "matched" => smMatch # 0
  /\ smResult.kind = "route" =>
       /\ smMatch # 0 /\ smResult.ports = PortsOf(smConfig, smFrom, smConfig.rules[smMatch])
       /\ smMeddled \/ smState = smConfig.rules[smMatch].to

\* What the stages so far have seen to.
CompInv ==
  /\ spec \in SpecChoices
  /\ stage \in {"references", "spec", "features", "ids", "safety", "build", "running", "rejected"}
  /\ stage \notin {"references", "spec", "rejected"} => SpecIsSound(spec)
  /\ stage \in {"ids", "safety", "build", "running"} => RuntimeSupports(spec)
  /\ stage \in {"safety", "build", "running"} => IdsStayApart(spec)
  /\ order # << >> =>
       SpecIsSound(spec) /\ order \in Seqs!SetToSeqs(spec.states) /\ report = RunSafetyChecks(spec, order)
  /\ stage \in {"build", "running"} => report = RunSafetyChecks(spec, order) /\ ~HasErrors(report)
  /\ IF stage = "running"
     THEN /\ smConfig = BuildStateMachineNode(spec)
          /\ graph = [nodes |-> BuildCapabilityCallNodes(spec), edges |-> BuildEdges(spec)]
     ELSE smMatch = 0 /\ smPhase = "ready" /\ smResult = NoEffect
  /\ MachineGoes

LEMMA CompInvAtFirst == CompilerInit => CompInv
<1> SUFFICES ASSUME CompilerInit PROVE CompInv
  OBVIOUS
<1>1. /\ spec \in SpecChoices /\ stage = "references" /\ order = << >>
      /\ smMatch = 0 /\ smPhase = "ready" /\ smResult = NoEffect
  BY DEF CompilerInit, SmInit
<1>2. MachineGoes
  BY <1>1 DEF MachineGoes, NoEffect
<1> QED BY <1>1, <1>2 DEF CompInv

\* Operators on values that do not change.
SmSame ==
  /\ smConfig' = smConfig /\ smPhase' = smPhase /\ smMessage' = smMessage /\ smFrom' = smFrom
  /\ smMatch' = smMatch /\ smResult' = smResult
DslSame == spec' = spec /\ order' = order /\ report' = report

LEMMA MachineStands ==
  ASSUME MachineGoes, SmSame, smMeddled' = TRUE \/ (smMeddled' = smMeddled /\ smState' = smState) PROVE MachineGoes'
<1>1. FirstMatch(smConfig, smFrom, smMessage)' = FirstMatch(smConfig, smFrom, smMessage)
  BY DEF SmSame
<1>2. PortsOf(smConfig, smFrom, smConfig.rules[smMatch])' = PortsOf(smConfig, smFrom, smConfig.rules[smMatch])
  BY DEF SmSame
<1> QED BY <1>1, <1>2, Zenon DEF MachineGoes, SmSame

LEMMA ReportStands ==
  ASSUME CompInv, DslSame
  PROVE  /\ SpecIsSound(spec)' = SpecIsSound(spec) /\ RuntimeSupports(spec)' = RuntimeSupports(spec)
         /\ IdsStayApart(spec)' = IdsStayApart(spec) /\ RunSafetyChecks(spec, order)' = RunSafetyChecks(spec, order)
         /\ HasErrors(report)' = HasErrors(report) /\ BuildStateMachineNode(spec)' = BuildStateMachineNode(spec)
         /\ BuildCapabilityCallNodes(spec)' = BuildCapabilityCallNodes(spec) /\ BuildEdges(spec)' = BuildEdges(spec)
  BY DEF DslSame

-----------------------------------------------------------------------------
(* The checks keep it.                                                    *)

LEMMA PassesOn ==
  ASSUME CompInv, NEW from \in {"references", "spec", "features", "ids"}, NEW to \in {"spec", "features", "ids", "safety"},
         NEW passes \in BOOLEAN, PassOn(from, to, passes),
         passes => /\ to # "spec" => SpecIsSound(spec)
                   /\ to \in {"ids", "safety"} => RuntimeSupports(spec)
                   /\ to = "safety" => IdsStayApart(spec)
  PROVE  CompInv'
<1>1. /\ stage = from /\ stage' = (IF passes THEN to ELSE "rejected")
      /\ DslSame /\ SmSame /\ graph' = graph /\ smMeddled' = smMeddled /\ smState' = smState
  BY DEF PassOn, DslSame, SmSame, smVars
<1>2. MachineGoes'
  BY <1>1, MachineStands DEF CompInv
<1>3. stage' # "running" /\ stage # "running" /\ stage' # "build"
  BY <1>1
<1>4. smMatch' = 0 /\ smPhase' = "ready" /\ smResult' = NoEffect'
  BY <1>1, <1>3 DEF CompInv, SmSame, NoEffect
<1>5. stage' \notin {"references", "spec", "rejected"} => SpecIsSound(spec)
  BY <1>1
<1>6. stage' \in {"ids", "safety", "build", "running"} => RuntimeSupports(spec)
  BY <1>1
<1>7. stage' \in {"safety", "build", "running"} => IdsStayApart(spec)
  BY <1>1
<1>8. stage' \in {"references", "spec", "features", "ids", "safety", "build", "running", "rejected"}
  BY <1>1
<1>9. (order # << >> => SpecIsSound(spec) /\ order \in Seqs!SetToSeqs(spec.states) /\ report = RunSafetyChecks(spec, order))'
  <2>1. Seqs!SetToSeqs(spec.states)' = Seqs!SetToSeqs(spec.states)
    BY <1>1 DEF DslSame
  <2> QED BY <1>1, <2>1, ReportStands, Zenon DEF CompInv, DslSame
<1>10. spec' \in SpecChoices
  BY <1>1 DEF CompInv, DslSame
<1> QED BY <1>1, <1>2, <1>3, <1>4, <1>5, <1>6, <1>7, <1>8, <1>9, <1>10, ReportStands, Zenon DEF CompInv

LEMMA ReferencesKeep == CompInv /\ ValidateReferences => CompInv'
<1>1. ReferencesResolve(spec) \in BOOLEAN
  BY DEF ReferencesResolve
<1> QED BY <1>1, PassesOn DEF ValidateReferences
LEMMA SpecKeeps == CompInv /\ ValidateWorkflowSpec => CompInv'
<1>1. SpecIsSound(spec) \in BOOLEAN
  BY DEF SpecIsSound
<1> QED BY <1>1, PassesOn DEF ValidateWorkflowSpec
LEMMA FeaturesKeep == CompInv /\ ValidateSupportedFeatures => CompInv'
<1> SUFFICES ASSUME CompInv, ValidateSupportedFeatures PROVE CompInv'
  OBVIOUS
<1>1. RuntimeSupports(spec) \in BOOLEAN
  BY DEF RuntimeSupports
<1>2. PassOn("features", "ids", RuntimeSupports(spec)) /\ stage = "features"
  BY DEF ValidateSupportedFeatures, PassOn
<1>3. SpecIsSound(spec)
  BY <1>2 DEF CompInv
<1> QED BY <1>1, <1>2, <1>3, PassesOn
LEMMA IdsKeep == CompInv /\ ValidateSanitizedIds => CompInv'
<1> SUFFICES ASSUME CompInv, ValidateSanitizedIds PROVE CompInv'
  OBVIOUS
<1>1. IdsStayApart(spec) \in BOOLEAN
  BY DEF IdsStayApart
<1>2. PassOn("ids", "safety", IdsStayApart(spec)) /\ stage = "ids"
  BY DEF ValidateSanitizedIds, PassOn
<1>3. SpecIsSound(spec) /\ RuntimeSupports(spec)
  BY <1>2 DEF CompInv
<1> QED BY <1>1, <1>2, <1>3, PassesOn

LEMMA SafetyKeeps == CompInv /\ CheckSafety => CompInv'
<1> SUFFICES ASSUME CompInv, CheckSafety PROVE CompInv'
  OBVIOUS
<1>1. /\ stage = "safety" /\ spec' = spec /\ graph' = graph
      /\ SmSame /\ smMeddled' = smMeddled /\ smState' = smState
  BY DEF CheckSafety, SmSame, smVars
<1>2. PICK hashOrder \in Seqs!SetToSeqs(spec.states) :
        order' = hashOrder /\ report' = RunSafetyChecks(spec, hashOrder)
  BY Zenon DEF CheckSafety
<1>3. stage' = IF HasErrors(report)' THEN "rejected" ELSE "build"
  BY DEF CheckSafety, HasErrors
<1>4. SpecIsSound(spec) /\ RuntimeSupports(spec) /\ IdsStayApart(spec)
  BY <1>1 DEF CompInv
<1>5. /\ SpecIsSound(spec)' = SpecIsSound(spec) /\ RuntimeSupports(spec)' = RuntimeSupports(spec)
      /\ IdsStayApart(spec)' = IdsStayApart(spec) /\ Seqs!SetToSeqs(spec.states)' = Seqs!SetToSeqs(spec.states)
  BY <1>1
<1>6. RunSafetyChecks(spec, order)' = RunSafetyChecks(spec, hashOrder)
  BY <1>1, <1>2
<1>7. MachineGoes' /\ smMatch' = 0 /\ smPhase' = "ready" /\ smResult' = NoEffect'
  <2>1. MachineGoes'
    BY <1>1, MachineStands DEF CompInv
  <2> QED BY <1>1, <2>1 DEF CompInv, SmSame, NoEffect
<1>8. stage' # "running" /\ stage' \in {"rejected", "build"} /\ (stage' = "build" => ~HasErrors(report)')
  BY <1>3
<1>9. spec' \in SpecChoices
  BY <1>1 DEF CompInv
<1> QED BY <1>2, <1>4, <1>5, <1>6, <1>7, <1>8, <1>9, Zenon DEF CompInv

-----------------------------------------------------------------------------
(* So do the graph and the machine.                                       *)

LEMMA GraphKeeps == CompInv /\ BuildGraph => CompInv'
<1> SUFFICES ASSUME CompInv, BuildGraph PROVE CompInv'
  OBVIOUS
<1>1. /\ stage = "build" /\ stage' = "running" /\ DslSame
      /\ graph' = [nodes |-> BuildCapabilityCallNodes(spec), edges |-> BuildEdges(spec)]
      /\ smConfig' = BuildStateMachineNode(spec) /\ smMatch' = smMatch /\ smPhase' = smPhase /\ smResult' = smResult
  BY DEF BuildGraph, StartMachine, DslSame
<1>2. smMatch = 0 /\ smPhase = "ready" /\ smResult = NoEffect
  BY <1>1 DEF CompInv
<1>3. MachineGoes'
  <2>1. smMatch' = 0 /\ smPhase' = "ready" /\ smResult'.kind = "none"
    BY <1>1, <1>2 DEF NoEffect
  <2> QED BY <2>1 DEF MachineGoes
<1>4. /\ SpecIsSound(spec) /\ RuntimeSupports(spec) /\ IdsStayApart(spec) /\ spec \in SpecChoices
      /\ report = RunSafetyChecks(spec, order) /\ ~HasErrors(report)
      /\ (order # << >> => order \in Seqs!SetToSeqs(spec.states))
  BY <1>1 DEF CompInv
<1>5. Seqs!SetToSeqs(spec.states)' = Seqs!SetToSeqs(spec.states)
  BY <1>1 DEF DslSame
<1>6. spec' = spec /\ order' = order /\ report' = report
  BY <1>1 DEF DslSame
<1> QED BY <1>1, <1>3, <1>4, <1>5, <1>6, ReportStands, Zenon DEF CompInv

\* Steps of the machine leave what was compiled.
LEMMA RunningStands ==
  ASSUME CompInv, stage = "running", UNCHANGED <<spec, stage, order, report, graph>>, smConfig' = smConfig, MachineGoes'
  PROVE  CompInv'
<1>1. DslSame /\ stage' = "running" /\ graph' = graph
  BY DEF DslSame
<1>2. Seqs!SetToSeqs(spec.states)' = Seqs!SetToSeqs(spec.states)
  BY <1>1 DEF DslSame
<1>3. spec' = spec /\ order' = order /\ report' = report
  BY <1>1 DEF DslSame
<1>4. /\ SpecIsSound(spec) /\ RuntimeSupports(spec) /\ IdsStayApart(spec) /\ spec \in SpecChoices
      /\ report = RunSafetyChecks(spec, order) /\ ~HasErrors(report)
      /\ (order # << >> => order \in Seqs!SetToSeqs(spec.states))
      /\ smConfig = BuildStateMachineNode(spec)
      /\ graph = [nodes |-> BuildCapabilityCallNodes(spec), edges |-> BuildEdges(spec)]
  BY DEF CompInv
<1> QED BY <1>1, <1>2, <1>3, <1>4, ReportStands, Zenon DEF CompInv

LEMMA ReadGoes == MachineGoes /\ ReadCurrentState => MachineGoes'
<1> SUFFICES ASSUME MachineGoes, ReadCurrentState PROVE MachineGoes'
  OBVIOUS
<1>1. smMatch' = 0 /\ smPhase' \in {"ready", "read"} /\ (smPhase' = "read" => smResult' = NoEffect) /\ smResult'.kind # "route"
  BY DEF ReadCurrentState, SmFail, Failed, NoEffect
<1> QED BY <1>1 DEF MachineGoes, NoEffect

LEMMA MatchGoes == MachineGoes /\ EvaluateTransitions => MachineGoes'
<1> SUFFICES ASSUME MachineGoes, EvaluateTransitions PROVE MachineGoes'
  OBVIOUS
<1> DEFINE m == FirstMatch(smConfig, smFrom, smMessage)
<1>1. /\ smMatch' = m /\ smConfig' = smConfig /\ smFrom' = smFrom /\ smMessage' = smMessage
      /\ smPhase = "read"
  BY DEF EvaluateTransitions
<1>2. \/ smPhase' = "ready" /\ smResult'.kind # "route"
      \/ smPhase' = "matched" /\ smMatch' # 0 /\ smResult' = smResult
  BY DEF EvaluateTransitions, SmFail, Failed
<1>3. smResult = NoEffect
  BY <1>1 DEF MachineGoes
<1>4. FirstMatch(smConfig, smFrom, smMessage)' = m
  BY <1>1
<1>5. smResult'.kind # "route" /\ (smPhase' # "ready" => smResult' = NoEffect')
  BY <1>2, <1>3 DEF NoEffect
<1> QED BY <1>1, <1>2, <1>4, <1>5, Zenon DEF MachineGoes

LEMMA WriteGoes == MachineGoes /\ WriteCurrentState => MachineGoes'
<1> SUFFICES ASSUME MachineGoes, WriteCurrentState PROVE MachineGoes'
  OBVIOUS
<1>1. /\ smConfig' = smConfig /\ smMessage' = smMessage /\ smFrom' = smFrom /\ smMatch' = smMatch
      /\ smMeddled' = smMeddled /\ smPhase = "matched" /\ smPhase' = "ready"
  BY DEF WriteCurrentState, SmFail
<1>2. \/ smResult' = Failed
      \/ /\ smState' = smConfig.rules[smMatch].to
         /\ smResult' = [kind |-> "route", ports |-> PortsOf(smConfig, smFrom, smConfig.rules[smMatch])]
  BY Zenon DEF WriteCurrentState, SmFail
<1>3. smMatch # 0 /\ smMatch = FirstMatch(smConfig, smFrom, smMessage)
  BY <1>1 DEF MachineGoes
<1>4. FirstMatch(smConfig, smFrom, smMessage)' = FirstMatch(smConfig, smFrom, smMessage)
  BY <1>1
<1>5. PortsOf(smConfig, smFrom, smConfig.rules[smMatch])' = PortsOf(smConfig, smFrom, smConfig.rules[smMatch])
  BY <1>1
<1>6. smResult'.kind = "route" =>
        smState' = smConfig.rules[smMatch].to /\ smResult'.ports = PortsOf(smConfig, smFrom, smConfig.rules[smMatch])
  BY <1>2 DEF Failed
<1> QED BY <1>1, <1>3, <1>4, <1>5, <1>6, Zenon DEF MachineGoes

LEMMA MachineKeeps == CompInv /\ RunMachine => CompInv'
<1> SUFFICES ASSUME CompInv, RunMachine PROVE CompInv'
  OBVIOUS
<1>1. stage = "running" /\ UNCHANGED <<spec, stage, order, report, graph>> /\ (SmStep \/ Meddle) /\ MachineGoes
  BY DEF RunMachine, CompInv
<1>2. CASE SmStep
  <2>1. smConfig' = smConfig
    BY <1>2 DEF SmStep, ReadCurrentState, EvaluateTransitions, WriteCurrentState
  <2>2. MachineGoes'
    BY <1>1, <1>2, ReadGoes, MatchGoes, WriteGoes DEF SmStep
  <2> QED BY <1>1, <2>1, <2>2, RunningStands
<1>3. CASE Meddle
  <2>1. SmSame /\ smMeddled' = TRUE
    BY <1>3 DEF Meddle, SmSame
  <2>2. MachineGoes'
    BY <1>1, <2>1, MachineStands
  <2> QED BY <1>1, <2>1, <2>2, RunningStands DEF SmSame
<1> QED BY <1>1, <1>2, <1>3

LEMMA CompInvKept == CompInv /\ [CompilerNext]_dslVars => CompInv'
<1> SUFFICES ASSUME CompInv, [CompilerNext]_dslVars PROVE CompInv'
  OBVIOUS
<1>1. CASE UNCHANGED dslVars
  <2>1. /\ DslSame /\ SmSame /\ stage' = stage /\ graph' = graph /\ smMeddled' = smMeddled /\ smState' = smState
    BY <1>1 DEF dslVars, smVars, DslSame, SmSame
  <2>2. MachineGoes'
    BY <2>1, MachineStands DEF CompInv
  <2>3. Seqs!SetToSeqs(spec.states)' = Seqs!SetToSeqs(spec.states)
    BY <2>1 DEF DslSame
  <2>4. NoEffect' = NoEffect
    BY DEF NoEffect
  <2>5. spec' = spec /\ order' = order /\ report' = report /\ smConfig' = smConfig /\ smMatch' = smMatch
        /\ smPhase' = smPhase /\ smResult' = smResult
    BY <2>1 DEF DslSame, SmSame
  <2> QED BY <2>1, <2>2, <2>3, <2>4, <2>5, ReportStands, Zenon DEF CompInv
<1> QED BY <1>1, ReferencesKeep, SpecKeeps, FeaturesKeep, IdsKeep, SafetyKeeps, GraphKeeps, MachineKeeps DEF CompilerNext

-----------------------------------------------------------------------------
(* What is called, and where diagnostics come from.                       *)

LEMMA CalledAre ==
  ASSUME CompInv, stage = "running", NEW call \in Called
  PROVE  /\ \E a \in Actions(spec) : a.action = call
         /\ call.target \in CapabilityRefs(spec)
<1>1. graph.nodes = BuildCapabilityCallNodes(spec) /\ RuntimeSupports(spec)
  BY DEF CompInv
<1>2. PICK n \in BuildCapabilityCallNodes(spec) : n.calls = call
  BY <1>1 DEF Called
<1>3. PICK a \in Actions(spec) : n = [id |-> NodeOf(spec, a), calls |-> a.action]
  BY <1>2 DEF BuildCapabilityCallNodes
<1>4. a.action = call
  BY <1>2, <1>3
<1>5. a.action.kind = "capability"
  BY <1>1, <1>3 DEF RuntimeSupports
<1>6. a.action.target \in CapabilityRefs(spec)
  BY <1>3, <1>5 DEF CapabilityRefs
<1> QED BY <1>3, <1>4, <1>6

LEMMA RangesHold == CompInv => CallsWithinRange
<1> SUFFICES ASSUME CompInv, stage = "running", NEW call \in Called,
                    CapabilitiesOf[call.target].range # << >>, ArgumentValue(spec, call) \in Int
             PROVE  /\ CapabilitiesOf[call.target].range[1] <= ArgumentValue(spec, call)
                    /\ ArgumentValue(spec, call) <= CapabilitiesOf[call.target].range[2]
  BY Zenon DEF CallsWithinRange
<1> DEFINE range == CapabilitiesOf[call.target].range
           value == ArgumentValue(spec, call)
<1>1. report = RunSafetyChecks(spec, order) /\ ~HasErrors(report)
  BY DEF CompInv
<1>2. PICK a \in Actions(spec) : a.action = call
  BY CalledAre
<1>3. SUFFICES ASSUME ~(range[1] <= value /\ value <= range[2]) PROVE FALSE
  BY Zenon
<1> DEFINE d == [level |-> "error", rule |-> "range", subject |-> a.action.target]
<1>4. d \in CheckRangeBoundary(spec)
  BY <1>2, <1>3, Zenon DEF CheckRangeBoundary
<1>5. d \in report
  BY <1>1, <1>4 DEF RunSafetyChecks
<1>6. d.level = "error"
  OBVIOUS
<1> QED BY <1>1, <1>5, <1>6, Zenon DEF HasErrors

LEMMA Warned == CompInv => ConflictsAreWarned
<1> SUFFICES ASSUME CompInv, stage = "running", NEW a \in Called, NEW b \in Called, Conflict(a.target, b.target)
             PROVE  \E d \in report : d.rule = "interlock" /\ d.subject = {a.target, b.target}
  BY DEF ConflictsAreWarned
<1> DEFINE p == <<a.target, b.target>>
           d == [level |-> "warning", rule |-> "interlock", subject |-> {p[1], p[2]}]
<1>1. report = RunSafetyChecks(spec, order)
  BY DEF CompInv
<1>2. a.target \in CapabilityRefs(spec) /\ b.target \in CapabilityRefs(spec)
  BY CalledAre
<1>3. p \in {r \in CapabilityRefs(spec) \X CapabilityRefs(spec) : Conflict(r[1], r[2])}
  BY <1>2
<1>4. d \in CheckMechanicalInterlock(spec)
  BY <1>3, Zenon DEF CheckMechanicalInterlock
<1>5. d \in report
  BY <1>1, <1>4 DEF RunSafetyChecks
<1>6. d.rule = "interlock" /\ d.subject = {a.target, b.target}
  OBVIOUS
<1> QED BY <1>5, <1>6

\* Where the diagnostics of a rule come from.
LEMMA OtherRules ==
  ASSUME NEW s, NEW o, NEW d \in RunSafetyChecks(s, o)
  PROVE  d.rule \in {"unit", "range", "precondition", "approval", "interlock"} \/ d \in CheckStateMachineCompleteness(s, o)
<1>1. CASE d \in CheckUnitConsistency(s)
  BY <1>1 DEF CheckUnitConsistency
<1>2. CASE d \in CheckRangeBoundary(s)
  BY <1>2 DEF CheckRangeBoundary
<1>3. CASE d \in CheckPreconditionReachability(s)
  BY <1>3 DEF CheckPreconditionReachability
<1>4. CASE d \in CheckDangerousActionApproval(s)
  BY <1>4 DEF CheckDangerousActionApproval
<1>5. CASE d \in CheckMechanicalInterlock(s)
  BY <1>5 DEF CheckMechanicalInterlock
<1> QED BY <1>1, <1>2, <1>3, <1>4, <1>5 DEF RunSafetyChecks
LEMMA CompletenessIs ==
  ASSUME NEW s, NEW o, NEW d \in CheckStateMachineCompleteness(s, o)
  PROVE  \/ d.rule = "unreachable" /\ d.subject \in s.states \ FindReachableStates(s)
         \/ d.rule = "dead end" /\ d.subject \in FindDeadEndStates(s)
         \/ d.rule = "cycle"
<1>1. CASE d \in {[level |-> "warning", rule |-> "unreachable", subject |-> q] : q \in s.states \ FindReachableStates(s)}
  <2>1. PICK q \in s.states \ FindReachableStates(s) : d = [level |-> "warning", rule |-> "unreachable", subject |-> q]
    BY <1>1, Zenon
  <2>2. d.rule = "unreachable" /\ d.subject = q
    BY <2>1
  <2> QED BY <2>2, Zenon
<1>2. CASE d \in {[level |-> "warning", rule |-> "dead end", subject |-> q] : q \in FindDeadEndStates(s)}
  <2>1. PICK q \in FindDeadEndStates(s) : d = [level |-> "warning", rule |-> "dead end", subject |-> q]
    BY <1>2, Zenon
  <2>2. d.rule = "dead end" /\ d.subject = q
    BY <2>1
  <2> QED BY <2>2, Zenon
<1>3. CASE d \in {[level |-> IF IsUnconditionalCycle(s, c) THEN "error" ELSE "warning", rule |-> "cycle", subject |-> c] :
                     c \in FindTriggerCycles(s, o)}
  <2>1. PICK c \in FindTriggerCycles(s, o) :
          d = [level |-> IF IsUnconditionalCycle(s, c) THEN "error" ELSE "warning", rule |-> "cycle", subject |-> c]
    BY <1>3, Zenon
  <2>2. d.rule = "cycle"
    BY <2>1
  <2> QED BY <2>2, Zenon
<1> QED BY <1>1, <1>2, <1>3 DEF CheckStateMachineCompleteness
LEMMA DeadEndsAre ==
  ASSUME NEW s, NEW o, NEW d \in RunSafetyChecks(s, o), d.rule = "dead end" PROVE d.subject \in FindDeadEndStates(s)
  BY OtherRules, CompletenessIs
LEMMA UnreachablesAre ==
  ASSUME NEW s, NEW o, NEW d \in RunSafetyChecks(s, o), d.rule = "unreachable"
  PROVE  d.subject \in s.states \ FindReachableStates(s)
  BY OtherRules, CompletenessIs
LEMMA CyclesAre ==
  ASSUME NEW s, NEW o, NEW c \in FindTriggerCycles(s, o)
  PROVE  \E d \in RunSafetyChecks(s, o) : d.rule = "cycle"
<1> DEFINE d == [level |-> IF IsUnconditionalCycle(s, c) THEN "error" ELSE "warning", rule |-> "cycle", subject |-> c]
<1>1. d \in CheckStateMachineCompleteness(s, o)
  BY DEF CheckStateMachineCompleteness
<1>2. d \in RunSafetyChecks(s, o) /\ d.rule = "cycle"
  BY <1>1 DEF RunSafetyChecks
<1> QED BY <1>2

-----------------------------------------------------------------------------
(* Listings and least numbers.                                            *)

LEMMA CardinalityIs == ASSUME NEW T PROVE Seqs!Cardinality(T) = Cardinality(T)
  BY Zenon DEF Seqs!Cardinality, Cardinality

\* A listing of a finite set names each of its elements, once.
LEMMA ListsAll ==
  ASSUME NEW T, IsFiniteSet(T), NEW q \in Seqs!SetToSeqs(T)
  PROVE  /\ Cardinality(T) \in Nat /\ q \in [1..Cardinality(T) -> T] /\ DOMAIN q = 1..Cardinality(T)
         /\ \A x \in T : \E k \in DOMAIN q : q[k] = x
<1> DEFINE D == 1..Cardinality(T)
<1>1. Cardinality(T) \in Nat
  BY FS_CardinalityType
<1>2. q \in [D -> T] /\ \A i, j \in D : i # j => q[i] # q[j]
  <2>1. q \in [1..Seqs!Cardinality(T) -> T] /\ \A i, j \in 1..Seqs!Cardinality(T) : i # j => q[i] # q[j]
    BY DEF Seqs!SetToSeqs
  <2> QED BY <2>1, CardinalityIs
<1>3. q \in Injection(D, T)
  BY <1>2 DEF Injection, IsInjective
<1>4. IsFiniteSet(D) /\ Cardinality(D) = Cardinality(T)
  <2>1. IsFiniteSet(D) /\ Cardinality(D) = IF 1 > Cardinality(T) THEN 0 ELSE Cardinality(T) - 1 + 1
    BY <1>1, FS_Interval
  <2> QED BY <1>1, <2>1
<1>5. q \in Surjection(D, T)
  BY <1>3, <1>4, FS_Injection
<1> QED BY <1>1, <1>2, <1>5 DEF Surjection

LEMMA LeastOf ==
  ASSUME NEW T, T \subseteq Nat, T # {}
  PROVE  \E x \in T : \A y \in T : x <= y
<1>1. ASSUME NEW R, IsWellFoundedOn(R, Nat) PROVE \E x \in T : \A y \in T : <<y, x>> \notin R
  BY <1>1, WFMin, Zenon
<1>2. IsWellFoundedOn(OpToRel(<, Nat), Nat)
  BY NatLessThanWellFounded, Zenon
<1>3. \E x \in T : \A y \in T : <<y, x>> \notin OpToRel(<, Nat)
  BY <1>1, <1>2, Zenon
<1>4. PICK x \in T : \A y \in T : <<y, x>> \notin OpToRel(<, Nat)
  BY <1>3
<1>5. \A y \in T : x \in Nat /\ y \in Nat /\ ~(y < x)
  BY <1>4 DEF OpToRel
<1> QED BY <1>5

\* Step by step from 0 to N.
LEMMA OneByOne ==
  ASSUME NEW N \in Nat, NEW S, 0 \in S, \A i \in 1..N : i - 1 \in S => i \in S
  PROVE  \A i \in 0..N : i \in S
<1> DEFINE T == {i \in 0..N : i \notin S}
<1> SUFFICES ASSUME T # {} PROVE FALSE
  OBVIOUS
<1>0. T \subseteq Nat
  OBVIOUS
<1>1. PICK x \in T : \A y \in T : x <= y
  <2> HIDE DEF T
  <2> QED BY <1>0, LeastOf
<1>2. x \in 1..N
  BY <1>1
<1>3. x - 1 \in 0..N /\ ~(x <= x - 1)
  BY <1>2
<1>4. x - 1 \notin T
  BY <1>1, <1>3
<1> QED BY <1>1, <1>2, <1>3, <1>4

-----------------------------------------------------------------------------
\* Priorities are numbers.
Ranked(config) == DOMAIN config.rules \subseteq Nat /\ \A i \in DOMAIN config.rules : config.rules[i].priority \in Int
Sorted(config, q) == \A k, l \in DOMAIN q : k < l => Before(config, q[k], q[l])

LEMMA BeforeIsOrder ==
  ASSUME NEW config, Ranked(config), NEW i \in DOMAIN config.rules, NEW j \in DOMAIN config.rules, NEW k \in DOMAIN config.rules
  PROVE  /\ Before(config, i, j) /\ Before(config, j, k) => Before(config, i, k)
         /\ i < j => Before(config, i, j) \/ Before(config, j, i)
         /\ Before(config, i, j) => ~Before(config, j, i)
<1>1. i \in Nat /\ j \in Nat /\ k \in Nat
  BY DEF Ranked
<1>2. config.rules[i].priority \in Int /\ config.rules[j].priority \in Int /\ config.rules[k].priority \in Int
  BY DEF Ranked
<1> QED BY <1>1, <1>2 DEF Before

\* A larger number finds its place in what is sorted.
LEMMA Inserted ==
  ASSUME NEW config, Ranked(config), NEW T, T \subseteq DOMAIN config.rules, NEW c \in Nat, NEW q \in [1..c -> T],
         Sorted(config, q), NEW x \in DOMAIN config.rules, \A y \in T : y < x
  PROVE  \E p \in 1..(c + 1) : /\ \A k \in 1..c : k < p => Before(config, q[k], x)
                               /\ \A k \in 1..c : k >= p => Before(config, x, q[k])
<1> DEFINE S == {k \in 1..c : ~Before(config, q[k], x)}
<1>0. \A k \in 1..c : q[k] \in T /\ q[k] \in DOMAIN config.rules /\ q[k] < x
  OBVIOUS
<1>1. CASE S = {}
  <2>1. \A k \in 1..c : Before(config, q[k], x) /\ ~(k >= c + 1)
    BY <1>1
  <2>2. c + 1 \in 1..(c + 1)
    OBVIOUS
  <2> QED BY <2>1, <2>2
<1>2. CASE S # {}
  <2>1. S \subseteq Nat
    OBVIOUS
  <2>2. PICK p \in S : \A k \in S : p <= k
    <3> HIDE DEF S
    <3> QED BY <1>2, <2>1, LeastOf
  <2>3. p \in 1..c /\ p \in 1..(c + 1) /\ Before(config, x, q[p])
    <3>1. p \in 1..c /\ p \in 1..(c + 1) /\ ~Before(config, q[p], x)
      BY <2>2
    <3> QED BY <1>0, <3>1, BeforeIsOrder
  <2>4. ASSUME NEW k \in 1..c, k < p PROVE Before(config, q[k], x)
    <3>1. k \notin S
      BY <2>2, <2>3, <2>4
    <3> QED BY <3>1
  <2>5. ASSUME NEW k \in 1..c, k >= p PROVE Before(config, x, q[k])
    <3>1. CASE k = p
      BY <2>3, <3>1
    <3>2. CASE k # p
      <4>1. p < k /\ p \in DOMAIN q /\ k \in DOMAIN q
        BY <2>3, <2>5, <3>2
      <4>2. Before(config, q[p], q[k])
        BY <4>1 DEF Sorted
      <4> QED BY <1>0, <2>3, <4>2, BeforeIsOrder
    <3> QED BY <3>1, <3>2
  <2> QED BY <2>3, <2>4, <2>5
<1> QED BY <1>1, <1>2

-----------------------------------------------------------------------------
(* The candidates of a state can be sorted, and the first that holds is best.*)

\* What is below m, listed.
Lists(config, T, q, c) ==
  q \in [1..c -> T] /\ Sorted(config, q) /\ \A x \in T : \E k \in 1..c : q[k] = x

LEMMA ListGrows ==
  ASSUME NEW config, Ranked(config), NEW T, T \subseteq DOMAIN config.rules, NEW c \in Nat, NEW q, Lists(config, T, q, c),
         NEW x \in DOMAIN config.rules, \A y \in T : y < x
  PROVE  \E r : Lists(config, T \cup {x}, r, c + 1)
<1>1. q \in [1..c -> T] /\ Sorted(config, q) /\ \A y \in T : \E k \in 1..c : q[k] = y
  BY DEF Lists
<1>2. PICK p \in 1..(c + 1) : /\ \A k \in 1..c : k < p => Before(config, q[k], x)
                              /\ \A k \in 1..c : k >= p => Before(config, x, q[k])
  BY <1>1, Inserted
<1> DEFINE r == [k \in 1..(c + 1) |-> IF k < p THEN q[k] ELSE IF k = p THEN x ELSE q[k - 1]]
<1>3. \A k \in 1..(c + 1) : /\ k < p => k \in 1..c /\ r[k] = q[k]
                            /\ k = p => r[k] = x
                            /\ k > p => k - 1 \in 1..c /\ k - 1 >= p /\ r[k] = q[k - 1]
  OBVIOUS
<1>4. r \in [1..(c + 1) -> T \cup {x}]
  <2>1. \A k \in 1..(c + 1) : r[k] \in T \cup {x}
    BY <1>1, <1>3
  <2> QED BY <2>1
<1>5. DOMAIN r = 1..(c + 1) /\ DOMAIN q = 1..c
  BY <1>1
<1>6. \A y \in T \cup {x} : \E k \in 1..(c + 1) : r[k] = y
  <2>1. r[p] = x
    BY <1>3
  <2>2. ASSUME NEW y \in T PROVE \E k \in 1..(c + 1) : r[k] = y
    <3>1. PICK k \in 1..c : q[k] = y
      BY <1>1
    <3>2. CASE k < p
      <4>1. k \in 1..(c + 1) /\ r[k] = q[k]
        BY <1>3, <3>2
      <4> QED BY <3>1, <4>1
    <3>3. CASE k >= p
      <4>1. k + 1 \in 1..(c + 1) /\ k + 1 > p /\ k + 1 - 1 = k
        BY <3>3
      <4>2. r[k + 1] = q[k]
        BY <1>3, <4>1
      <4> QED BY <3>1, <4>1, <4>2
    <3> QED BY <3>2, <3>3
  <2> QED BY <2>1, <2>2
<1> HIDE DEF r
<1>7. ASSUME NEW k \in 1..(c + 1), NEW l \in 1..(c + 1), k < l PROVE Before(config, r[k], r[l])
  <2>1. CASE l < p
    <3>1. k \in 1..c /\ l \in 1..c /\ r[k] = q[k] /\ r[l] = q[l]
      BY <1>3, <1>7, <2>1
    <3> QED BY <1>1, <1>5, <1>7, <3>1 DEF Sorted
  <2>2. CASE l = p
    <3>1. k \in 1..c /\ k < p /\ r[k] = q[k] /\ r[l] = x
      BY <1>3, <1>7, <2>2
    <3> QED BY <1>2, <3>1
  <2>3. CASE l > p /\ k = p
    <3>1. l - 1 \in 1..c /\ l - 1 >= p /\ r[l] = q[l - 1] /\ r[k] = x
      BY <1>3, <2>3
    <3> QED BY <1>2, <3>1
  <2>4. CASE l > p /\ k < p
    <3>1. k \in 1..c /\ l - 1 \in 1..c /\ r[k] = q[k] /\ r[l] = q[l - 1] /\ k < l - 1
      <4>1. k < l - 1
        BY <2>4
      <4> QED BY <1>3, <2>4, <4>1
    <3> QED BY <1>1, <1>5, <3>1 DEF Sorted
  <2>5. CASE l > p /\ k > p
    <3>1. k - 1 \in 1..c /\ l - 1 \in 1..c /\ r[k] = q[k - 1] /\ r[l] = q[l - 1] /\ k - 1 < l - 1
      <4>1. k - 1 < l - 1
        BY <1>7
      <4> QED BY <1>3, <2>5, <4>1
    <3> QED BY <1>1, <1>5, <3>1 DEF Sorted
  <2> QED BY <1>7, <2>1, <2>2, <2>3, <2>4, <2>5
<1>8. Sorted(config, r)
  BY <1>5, <1>7 DEF Sorted
<1> QED BY <1>4, <1>6, <1>8 DEF Lists

LEMMA ListExists ==
  ASSUME NEW config, Ranked(config), NEW N \in Nat, DOMAIN config.rules = 1..N, NEW T, T \subseteq 1..N
  PROVE  \E c \in Nat : \E q : Lists(config, T, q, c)
<1> DEFINE S == {m \in 0..N : \E c \in Nat : \E q : Lists(config, T \cap 1..m, q, c)}
<1>1. 0 \in S
  <2>1. T \cap 1..0 = {}
    OBVIOUS
  <2> DEFINE q == [k \in 1..0 |-> 0]
  <2>2. q \in [1..0 -> {}] /\ DOMAIN q = {}
    OBVIOUS
  <2> HIDE DEF q
  <2>3. Lists(config, {}, q, 0)
    BY <2>2 DEF Lists, Sorted
  <2> QED BY <2>1, <2>3
<1>2. ASSUME NEW m \in 1..N, m - 1 \in S PROVE m \in S
  <2>1. PICK c \in Nat : \E q : Lists(config, T \cap 1..(m - 1), q, c)
    BY <1>2
  <2>2. PICK q : Lists(config, T \cap 1..(m - 1), q, c)
    BY <2>1
  <2>3. CASE m \in T
    <3>1. T \cap 1..m = (T \cap 1..(m - 1)) \cup {m}
      BY <2>3
    <3>2. T \cap 1..(m - 1) \subseteq DOMAIN config.rules /\ m \in DOMAIN config.rules /\ \A y \in T \cap 1..(m - 1) : y < m
      OBVIOUS
    <3> DEFINE U == T \cap 1..(m - 1)
    <3>3. \E r : Lists(config, U \cup {m}, r, c + 1)
      <4>1. U \subseteq DOMAIN config.rules /\ (\A y \in U : y < m) /\ Lists(config, U, q, c)
        BY <2>2, <3>2
      <4> HIDE DEF U
      <4> QED BY <3>2, <4>1, ListGrows
    <3>4. c + 1 \in Nat
      OBVIOUS
    <3>5. \E d \in Nat : \E r : Lists(config, T \cap 1..m, r, d)
      BY <3>1, <3>3, <3>4
    <3> QED BY <3>5
  <2>4. CASE m \notin T
    <3>1. T \cap 1..m = T \cap 1..(m - 1)
      BY <2>4
    <3>2. \E d \in Nat : \E r : Lists(config, T \cap 1..m, r, d)
      BY <2>2, <3>1
    <3> QED BY <3>2
  <2> QED BY <2>3, <2>4
<1> HIDE DEF S
<1>3. N \in S
  BY <1>1, <1>2, OneByOne, SMTT(60)
<1>4. T \cap 1..N = T
  OBVIOUS
<1> QED BY <1>3, <1>4 DEF S

LEMMA SortedExists ==
  ASSUME NEW config, Ranked(config), NEW N \in Nat, DOMAIN config.rules = 1..N, NEW T, T \subseteq 1..N
  PROVE  \E q \in Seqs!SetToSeqs(T) : Sorted(config, q)
<1>1. PICK c \in Nat : \E q : Lists(config, T, q, c)
  BY ListExists
<1>2. PICK q : Lists(config, T, q, c)
  BY <1>1
<1>3. q \in [1..c -> T] /\ Sorted(config, q) /\ \A x \in T : \E k \in 1..c : q[k] = x
  BY <1>2 DEF Lists
<1>4. ASSUME NEW k \in 1..c, NEW l \in 1..c, k # l PROVE q[k] # q[l]
  <2>1. k < l \/ l < k
    BY <1>4
  <2>2. Before(config, q[k], q[l]) \/ Before(config, q[l], q[k])
    BY <1>3, <2>1 DEF Sorted
  <2>3. q[k] \in DOMAIN config.rules /\ q[l] \in DOMAIN config.rules
    BY <1>3
  <2> QED BY <2>2, <2>3, BeforeIsOrder
<1>5. q \in Bijection(1..c, T)
  BY <1>3, <1>4 DEF Bijection, Injection, Surjection, IsInjective
<1>6. ExistsBijection(1..c, T)
  BY <1>5 DEF ExistsBijection
<1>7. Cardinality(T) = c
  BY <1>6, FS_CountingElements
<1>8. Seqs!Cardinality(T) = c
  BY <1>7, CardinalityIs
<1>9. q \in Seqs!SetToSeqs(T)
  BY <1>3, <1>4, <1>8 DEF Seqs!SetToSeqs
<1> QED BY <1>3, <1>9

LEMMA FirstMatchBest ==
  ASSUME NEW config, Ranked(config), NEW N \in Nat, DOMAIN config.rules = 1..N, NEW state, NEW message,
         FirstMatch(config, state, message) # 0
  PROVE  /\ FirstMatch(config, state, message) \in Applying(config, state)
         /\ \A i \in Applying(config, state) :
              Holds(config.rules[i].when, message) # "false" =>
                i = FirstMatch(config, state, message) \/ Before(config, FirstMatch(config, state, message), i)
<1> DEFINE T == Applying(config, state)
           q == Candidates(config, state)
           open == {k \in DOMAIN q : Holds(config.rules[q[k]].when, message) # "false"}
           p == CHOOSE k \in open : \A l \in open : k <= l
           m == FirstMatch(config, state, message)
<1>1. T \subseteq 1..N
  BY DEF Applying
<1>2. q \in Seqs!SetToSeqs(T) /\ Sorted(config, q)
  <2>1. \E r \in Seqs!SetToSeqs(T) : Sorted(config, r)
    BY <1>1, SortedExists
  <2>2. \E r \in Seqs!SetToSeqs(T) : \A k, l \in DOMAIN r : k < l => Before(config, r[k], r[l])
    BY <2>1 DEF Sorted
  <2>3. q \in Seqs!SetToSeqs(T) /\ \A k, l \in DOMAIN q : k < l => Before(config, q[k], q[l])
    BY <2>2, Zenon DEF Candidates
  <2> QED BY <2>3 DEF Sorted
<1>3. IsFiniteSet(T)
  <2>1. IsFiniteSet(1..N)
    <3>1. N \in Int /\ 1 \in Int
      OBVIOUS
    <3> QED BY <3>1, FS_Interval
  <2> QED BY <1>1, <2>1, FS_Subset
<1>4. /\ Cardinality(T) \in Nat /\ q \in [1..Cardinality(T) -> T] /\ DOMAIN q = 1..Cardinality(T)
      /\ \A x \in T : \E k \in DOMAIN q : q[k] = x
  <2> HIDE DEF q, T
  <2> QED BY <1>2, <1>3, ListsAll
<1>5. m = IF open = {} THEN 0 ELSE q[p]
  BY Zenon DEF FirstMatch
<1>6. open # {} /\ m = q[p]
  BY <1>5
<1> HIDE DEF m, q, T
<1>7. open \subseteq Nat
  BY <1>4
<1>8. \E k \in open : \A l \in open : k <= l
  <2> HIDE DEF open
  <2> QED BY <1>6, <1>7, LeastOf
<1>9. p \in open /\ \A l \in open : p <= l
  BY <1>8, Zenon
<1> HIDE DEF p
<1>10. m \in T
  <2>1. p \in DOMAIN q
    BY <1>9
  <2> QED BY <1>4, <1>6, <2>1
<1>11. ASSUME NEW i \in T, Holds(config.rules[i].when, message) # "false" PROVE i = m \/ Before(config, m, i)
  <2>1. PICK k \in DOMAIN q : q[k] = i
    BY <1>4
  <2>2. k \in open
    BY <1>11, <2>1
  <2>3. p <= k /\ p \in DOMAIN q /\ p \in Nat /\ k \in Nat
    BY <1>4, <1>9, <2>2
  <2>4. CASE p = k
    BY <1>6, <2>1, <2>4
  <2>5. CASE p < k
    BY <1>2, <1>6, <2>1, <2>3, <2>5 DEF Sorted
  <2> QED BY <2>3, <2>4, <2>5
<1> QED BY <1>10, <1>11 DEF m, T

-----------------------------------------------------------------------------
(* The configuration of the machine.                                      *)

LEMMA RulesAre ==
  ASSUME NEW s \in SpecChoices
  PROVE  /\ Len(s.transitions) \in Nat /\ DOMAIN s.transitions = 1..Len(s.transitions)
         /\ \A i \in DOMAIN s.transitions :
              /\ s.transitions[i].from \in Seq(STRING) /\ s.transitions[i].to \in Seq(STRING)
              /\ s.transitions[i].priority \in Int
<1>1. /\ s.transitions \in Seq(Seqs!ToSet(s.transitions))
      /\ \A t \in Seqs!ToSet(s.transitions) : t.from \in Seq(STRING) /\ t.to \in Seq(STRING) /\ t.priority \in Int
  BY DslAssumption, Zenon DEF DslAssumption
<1>2. \A i \in DOMAIN s.transitions : s.transitions[i] \in Seqs!ToSet(s.transitions)
  BY DEF Seqs!ToSet
<1> QED BY <1>1, <1>2

\* What the machine's configuration says of a transition.
LEMMA ConfigIs ==
  ASSUME NEW s
  PROVE  /\ BuildStateMachineNode(s).states = s.states
         /\ DOMAIN BuildStateMachineNode(s).rules = DOMAIN s.transitions
         /\ \A i \in DOMAIN s.transitions :
              /\ BuildStateMachineNode(s).rules[i].from = s.transitions[i].from
              /\ BuildStateMachineNode(s).rules[i].to = s.transitions[i].to
              /\ BuildStateMachineNode(s).rules[i].when = s.transitions[i].when
              /\ BuildStateMachineNode(s).rules[i].priority =
                   IF s.transitions[i].priority = -1 THEN 0 ELSE s.transitions[i].priority
              /\ BuildStateMachineNode(s).rules[i].port =
                   IF s.transitions[i].action = NoAction THEN NoPort
                   ELSE PortOf(s, [where |-> "trans", state |-> << >>, index |-> i, action |-> s.transitions[i].action])
         /\ \A q \in s.states :
              /\ BuildStateMachineNode(s).entry[q] =
                   [i \in DOMAIN s.entry[q] |-> PortOf(s, [where |-> "entry", state |-> q, index |-> i, action |-> s.entry[q][i]])]
              /\ BuildStateMachineNode(s).exit[q] =
                   [i \in DOMAIN s.exit[q] |-> PortOf(s, [where |-> "exit", state |-> q, index |-> i, action |-> s.exit[q][i]])]
  BY DEF BuildStateMachineNode

LEMMA ConfigRanked ==
  ASSUME NEW s \in SpecChoices
  PROVE  /\ Ranked(BuildStateMachineNode(s))
         /\ DOMAIN BuildStateMachineNode(s).rules = 1..Len(s.transitions) /\ Len(s.transitions) \in Nat
<1>1. DOMAIN BuildStateMachineNode(s).rules = 1..Len(s.transitions) /\ Len(s.transitions) \in Nat
  BY ConfigIs, RulesAre
<1>2. ASSUME NEW i \in DOMAIN s.transitions PROVE BuildStateMachineNode(s).rules[i].priority \in Int
  <2>1. s.transitions[i].priority \in Int
    BY RulesAre
  <2>2. BuildStateMachineNode(s).rules[i].priority = IF s.transitions[i].priority = -1 THEN 0 ELSE s.transitions[i].priority
    BY ConfigIs
  <2> QED BY <2>1, <2>2
<1>3. DOMAIN BuildStateMachineNode(s).rules \subseteq Nat
  BY <1>1
<1> QED BY <1>1, <1>2, <1>3, RulesAre DEF Ranked

\* While a rule is matched, the machine is the compiled one.
LEMMA MatchedIs ==
  ASSUME CompInv, smMatch # 0
  PROVE  /\ stage = "running" /\ spec \in SpecChoices /\ smConfig = BuildStateMachineNode(spec)
         /\ smMatch = FirstMatch(smConfig, smFrom, smMessage)
         /\ smMatch \in Applying(smConfig, smFrom)
         /\ \A i \in Applying(smConfig, smFrom) :
              Holds(smConfig.rules[i].when, smMessage) # "false" => i = smMatch \/ Before(smConfig, smMatch, i)
<1>1. /\ stage = "running" /\ spec \in SpecChoices /\ smConfig = BuildStateMachineNode(spec)
      /\ smMatch = FirstMatch(smConfig, smFrom, smMessage)
  BY DEF CompInv, MachineGoes
<1>2. Ranked(smConfig) /\ DOMAIN smConfig.rules = 1..Len(spec.transitions) /\ Len(spec.transitions) \in Nat
  BY <1>1, ConfigRanked
<1> DEFINE N == Len(spec.transitions)
<1>3. Ranked(smConfig) /\ DOMAIN smConfig.rules = 1..N /\ N \in Nat /\ FirstMatch(smConfig, smFrom, smMessage) # 0
  BY <1>1, <1>2
<1> HIDE DEF N
<1>4. /\ FirstMatch(smConfig, smFrom, smMessage) \in Applying(smConfig, smFrom)
      /\ \A i \in Applying(smConfig, smFrom) :
           Holds(smConfig.rules[i].when, smMessage) # "false" =>
             i = FirstMatch(smConfig, smFrom, smMessage) \/ Before(smConfig, FirstMatch(smConfig, smFrom, smMessage), i)
  BY <1>3, FirstMatchBest
<1> QED BY <1>1, <1>4

LEMMA PrioritiesHold == CompInv => HighestPriorityWins
<1> SUFFICES ASSUME CompInv, smMatch # 0, NEW i \in DOMAIN smConfig.rules,
                    smConfig.rules[i].from \in {<<"*">>, smFrom}, Holds(smConfig.rules[i].when, smMessage) = "true"
             PROVE  \/ smConfig.rules[i].priority < smConfig.rules[smMatch].priority
                    \/ smConfig.rules[i].priority = smConfig.rules[smMatch].priority /\ i >= smMatch
  BY Zenon DEF HighestPriorityWins
<1>1. i \in Applying(smConfig, smFrom)
  BY DEF Applying
<1>2. i = smMatch \/ Before(smConfig, smMatch, i)
  <2>1. Holds(smConfig.rules[i].when, smMessage) # "false"
    OBVIOUS
  <2> QED BY <1>1, <2>1, MatchedIs
<1>3. smMatch \in DOMAIN smConfig.rules
  BY MatchedIs DEF Applying
<1>4. Ranked(smConfig)
  BY MatchedIs, ConfigRanked
<1>5. /\ i \in Nat /\ smMatch \in Nat /\ smConfig.rules[i].priority \in Int /\ smConfig.rules[smMatch].priority \in Int
  BY <1>3, <1>4 DEF Ranked
<1> QED BY <1>2, <1>5 DEF Before

-----------------------------------------------------------------------------
(* Ports and their names.                                                 *)

LEMMA ToSetJoins ==
  ASSUME NEW S, NEW a \in Seq(S), NEW b \in Seq(S)
  PROVE  a \o b \in Seq(S) /\ Seqs!ToSet(a \o b) = Seqs!ToSet(a) \cup Seqs!ToSet(b)
<1>1. /\ a \o b \in Seq(S) /\ Len(a \o b) = Len(a) + Len(b) /\ Len(a) \in Nat /\ Len(b) \in Nat
      /\ DOMAIN (a \o b) = 1..Len(a \o b) /\ DOMAIN a = 1..Len(a) /\ DOMAIN b = 1..Len(b)
      /\ \A i \in 1..Len(a) + Len(b) : (a \o b)[i] = IF i <= Len(a) THEN a[i] ELSE b[i - Len(a)]
  BY ConcatProperties
<1> DEFINE c == a \o b
           la == Len(a)
           lb == Len(b)
<1>2. c \in Seq(S)
  BY <1>1
<1>3. /\ la \in Nat /\ lb \in Nat /\ DOMAIN c = 1..(la + lb) /\ DOMAIN a = 1..la /\ DOMAIN b = 1..lb
      /\ \A i \in 1..(la + lb) : c[i] = IF i <= la THEN a[i] ELSE b[i - la]
  BY <1>1
<1> HIDE DEF c, la, lb
<1>4. ASSUME NEW x \in Seqs!ToSet(c) PROVE x \in Seqs!ToSet(a) \cup Seqs!ToSet(b)
  <2>1. PICK i \in 1..(la + lb) : x = c[i]
    BY <1>3, <1>4 DEF Seqs!ToSet
  <2>2. CASE i <= la
    <3>1. i \in DOMAIN a /\ x = a[i]
      BY <1>3, <2>1, <2>2
    <3> QED BY <3>1 DEF Seqs!ToSet
  <2>3. CASE ~(i <= la)
    <3>1. i - la \in DOMAIN b /\ x = b[i - la]
      BY <1>3, <2>1, <2>3
    <3> QED BY <3>1 DEF Seqs!ToSet
  <2> QED BY <2>2, <2>3
<1>5. ASSUME NEW x \in Seqs!ToSet(a) PROVE x \in Seqs!ToSet(c)
  <2>1. PICK i \in 1..la : x = a[i]
    BY <1>3, <1>5 DEF Seqs!ToSet
  <2>2. i \in DOMAIN c /\ x = c[i]
    BY <1>3, <2>1
  <2> QED BY <2>2 DEF Seqs!ToSet
<1>6. ASSUME NEW x \in Seqs!ToSet(b) PROVE x \in Seqs!ToSet(c)
  <2>1. PICK i \in 1..lb : x = b[i]
    BY <1>3, <1>6 DEF Seqs!ToSet
  <2>2. i + la \in DOMAIN c /\ ~(i + la <= la) /\ (i + la) - la = i
    BY <1>3, <2>1
  <2>3. x = c[i + la]
    BY <1>3, <2>1, <2>2
  <2> QED BY <2>2, <2>3 DEF Seqs!ToSet
<1> QED BY <1>2, <1>4, <1>5, <1>6 DEF c

LEMMA PairIsSeq == ASSUME NEW S, NEW a \in S, NEW b \in S PROVE <<a, b>> \in Seq(S)
  OBVIOUS
LEMMA OneIsSeq == ASSUME NEW S, NEW a \in S PROVE <<a>> \in Seq(S)
  OBVIOUS

\* What is appended leaves the head.
LEMMA HeadStays ==
  ASSUME NEW S, NEW a \in Seq(S), NEW b \in Seq(S), Len(a) >= 1 PROVE a \o b \in Seq(S) /\ Len(a \o b) >= 1 /\ (a \o b)[1] = a[1]
<1>1. /\ a \o b \in Seq(S) /\ Len(a \o b) = Len(a) + Len(b) /\ Len(a) \in Nat /\ Len(b) \in Nat
      /\ \A i \in 1..Len(a) + Len(b) : (a \o b)[i] = IF i <= Len(a) THEN a[i] ELSE b[i - Len(a)]
  BY ConcatProperties
<1> DEFINE la == Len(a)
           lb == Len(b)
           c == a \o b
<1>2. c \in Seq(S) /\ Len(c) = la + lb /\ la \in Nat /\ lb \in Nat /\ la >= 1 /\ \A i \in 1..la + lb : c[i] = IF i <= la THEN a[i] ELSE b[i - la]
  BY <1>1
<1> HIDE DEF la, lb, c
<1>3. 1 \in 1..la + lb /\ 1 <= la
  BY <1>2
<1>4. c \in Seq(S) /\ Len(c) >= 1 /\ c[1] = a[1]
  BY <1>2, <1>3
<1> QED BY <1>4 DEF c

\* The port of a transition has a name of its own.
LEMMA TransitionHasPort ==
  ASSUME NEW s \in SpecChoices, NEW i \in DOMAIN s.transitions, NEW a, a.where = "trans", a.index = i
  PROVE  PortOf(s, a) # NoPort
<1> DEFINE from == Sanitized(s.transitions[i].from)
           to == Sanitized(s.transitions[i].to)
           n == ToString(i - 1)
           S == STRING \cup {n, "_", "trans"}
<1>1. from \in Seq(S) /\ to \in Seq(S)
  <2>1. s.transitions[i].from \in Seq(STRING) /\ s.transitions[i].to \in Seq(STRING)
    BY RulesAre
  <2>2. ASSUME NEW x \in Seq(STRING) PROVE Sanitized(x) \in Seq(S)
    <3>1. DOMAIN x = 1..Len(x) /\ Len(x) \in Nat /\ \A k \in DOMAIN x : x[k] \in STRING
      OBVIOUS
    <3>2. \A k \in DOMAIN x : Sanitized(x)[k] \in {"_", x[k]} /\ "_" \in S /\ x[k] \in S
      BY <3>1 DEF Sanitized
    <3>3. DOMAIN Sanitized(x) = 1..Len(x) /\ Sanitized(x) = [k \in DOMAIN x |-> Sanitized(x)[k]]
      BY <3>1 DEF Sanitized
    <3>4. Sanitized(x) \in [1..Len(x) -> S]
      BY <3>1, <3>2, <3>3, ZenonT(90)
    <3>5. \E k \in Nat : Sanitized(x) \in [1..k -> S]
      <4> HIDE DEF S
      <4> QED BY <3>1, <3>4
    <3>6. Sanitized(x) \in UNION {[1..k -> S] : k \in Nat}
      <4> HIDE DEF S
      <4> QED BY <3>5, Zenon
    <3> HIDE DEF S
    <3> QED BY <3>6, SeqDef
  <2> QED BY <2>1, <2>2
<1>2. <<"trans", "_">> \in Seq(S) /\ <<"_">> \in Seq(S) /\ <<"_", n>> \in Seq(S)
  <2>1. "trans" \in S /\ "_" \in S /\ n \in S
    OBVIOUS
  <2> HIDE DEF S, n
  <2> QED BY <2>1, PairIsSeq, OneIsSeq
<1> DEFINE p == <<"trans", "_">> \o from
           q == p \o <<"_">>
           r == q \o to
           u == r \o <<"_", n>>
<1>3. PortOf(s, a) = u
  BY Zenon DEF PortOf
<1> HIDE DEF from, to, n, S
<1>4. p \in Seq(S) /\ Len(p) >= 1 /\ p[1] = "trans"
  <2>1. Len(<<"trans", "_">>) >= 1 /\ <<"trans", "_">>[1] = "trans"
    OBVIOUS
  <2> QED BY <1>1, <1>2, <2>1, HeadStays
<1> HIDE DEF p
<1>5. q \in Seq(S) /\ Len(q) >= 1 /\ q[1] = "trans"
  BY <1>2, <1>4, HeadStays
<1> HIDE DEF q
<1>6. r \in Seq(S) /\ Len(r) >= 1 /\ r[1] = "trans"
  BY <1>1, <1>5, HeadStays
<1> HIDE DEF r
<1>7. u[1] = "trans"
  BY <1>2, <1>6, HeadStays
<1> HIDE DEF u
<1>8. NoPort[1] = "no" /\ "no" # "trans"
  BY DEF NoPort
<1> QED BY <1>3, <1>7, <1>8

-----------------------------------------------------------------------------
(* The ports a transition triggers.                                       *)

\* The actions on the way of a transition, with where they stand.
EntryActions(s, q) == IF q \in s.states THEN {[where |-> "entry", state |-> q, index |-> i, action |-> s.entry[q][i]] : i \in DOMAIN s.entry[q]} ELSE {}
ExitActions(s, q) == IF q \in s.states THEN {[where |-> "exit", state |-> q, index |-> i, action |-> s.exit[q][i]] : i \in DOMAIN s.exit[q]} ELSE {}
RuleAction(s, i) ==
  IF s.transitions[i].action = NoAction THEN {}
  ELSE {[where |-> "trans", state |-> << >>, index |-> i, action |-> s.transitions[i].action]}
OnTheWay(s, from, i) == ExitActions(s, from) \cup RuleAction(s, i) \cup EntryActions(s, s.transitions[i].to)
PortsAt(s, set) == {PortOf(s, a) : a \in set}

LEMMA WayIsActions ==
  ASSUME NEW s, NEW from, NEW i \in DOMAIN s.transitions PROVE OnTheWay(s, from, i) \subseteq Actions(s)
<1>1. ASSUME NEW q PROVE EntryActions(s, q) \subseteq Actions(s) /\ ExitActions(s, q) \subseteq Actions(s)
  <2>1. CASE q \in s.states
    BY <2>1 DEF EntryActions, ExitActions, Actions, StateActions
  <2>2. CASE q \notin s.states
    BY <2>2 DEF EntryActions, ExitActions
  <2> QED BY <2>1, <2>2
<1>2. RuleAction(s, i) \subseteq Actions(s)
  BY DEF RuleAction, Actions, RuleActions
<1> QED BY <1>1, <1>2 DEF OnTheWay

\* A function on the places of a list is a list.
LEMMA ListOfPorts ==
  ASSUME NEW list, list \in Seq(Seqs!ToSet(list)), NEW f, DOMAIN f = DOMAIN list, f = [i \in DOMAIN list |-> f[i]]
  PROVE  f \in Seq(Seqs!ToSet(f)) /\ Seqs!ToSet(f) = {f[i] : i \in DOMAIN list}
<1> DEFINE S == Seqs!ToSet(f)
<1>1. DOMAIN list = 1..Len(list) /\ Len(list) \in Nat
  OBVIOUS
<1>2. S = {f[i] : i \in DOMAIN list}
  BY DEF Seqs!ToSet
<1>3. f \in [DOMAIN list -> S]
  BY <1>2, SMTT(60)
<1> HIDE DEF S
<1>4. f \in UNION {[1..k -> S] : k \in Nat}
  <2>1. \E k \in Nat : f \in [1..k -> S]
    BY <1>1, <1>3
  <2> QED BY <2>1, ZenonT(90)
<1> QED BY <1>2, <1>4, SeqDef DEF S

LEMMA EntryPorts ==
  ASSUME NEW s \in SpecChoices, NEW q \in s.states
  PROVE  /\ BuildStateMachineNode(s).entry[q] \in Seq(PortsAt(s, EntryActions(s, q)))
         /\ Seqs!ToSet(BuildStateMachineNode(s).entry[q]) = PortsAt(s, EntryActions(s, q))
<1> DEFINE At(i) == [where |-> "entry", state |-> q, index |-> i, action |-> s.entry[q][i]]
           list == s.entry[q]
           ports == BuildStateMachineNode(s).entry[q]
<1>1. list \in Seq(Seqs!ToSet(list))
  BY DslAssumption, Zenon DEF DslAssumption
<1>2. ports = [i \in DOMAIN list |-> PortOf(s, At(i))]
  BY ConfigIs, ZenonT(90)
<1>3. PortsAt(s, EntryActions(s, q)) = {PortOf(s, At(i)) : i \in DOMAIN list}
  BY DEF PortsAt, EntryActions
<1> HIDE DEF At, list, ports
<1>4. DOMAIN ports = DOMAIN list /\ ports = [i \in DOMAIN list |-> ports[i]]
  BY <1>2
<1>5. ports \in Seq(Seqs!ToSet(ports)) /\ Seqs!ToSet(ports) = {ports[i] : i \in DOMAIN list}
  BY <1>1, <1>4, ListOfPorts
<1>6. Seqs!ToSet(ports) = PortsAt(s, EntryActions(s, q))
  BY <1>2, <1>3, <1>5
<1> QED BY <1>5, <1>6 DEF ports

LEMMA ExitPorts ==
  ASSUME NEW s \in SpecChoices, NEW q \in s.states
  PROVE  /\ BuildStateMachineNode(s).exit[q] \in Seq(PortsAt(s, ExitActions(s, q)))
         /\ Seqs!ToSet(BuildStateMachineNode(s).exit[q]) = PortsAt(s, ExitActions(s, q))
<1> DEFINE At(i) == [where |-> "exit", state |-> q, index |-> i, action |-> s.exit[q][i]]
           list == s.exit[q]
           ports == BuildStateMachineNode(s).exit[q]
<1>1. list \in Seq(Seqs!ToSet(list))
  BY DslAssumption, Zenon DEF DslAssumption
<1>2. ports = [i \in DOMAIN list |-> PortOf(s, At(i))]
  BY ConfigIs, ZenonT(90)
<1>3. PortsAt(s, ExitActions(s, q)) = {PortOf(s, At(i)) : i \in DOMAIN list}
  BY DEF PortsAt, ExitActions
<1> HIDE DEF At, list, ports
<1>4. DOMAIN ports = DOMAIN list /\ ports = [i \in DOMAIN list |-> ports[i]]
  BY <1>2
<1>5. ports \in Seq(Seqs!ToSet(ports)) /\ Seqs!ToSet(ports) = {ports[i] : i \in DOMAIN list}
  BY <1>1, <1>4, ListOfPorts
<1>6. Seqs!ToSet(ports) = PortsAt(s, ExitActions(s, q))
  BY <1>2, <1>3, <1>5
<1> QED BY <1>5, <1>6 DEF ports

\* The ports of a transition are those of the actions on its way.
LEMMA PortsAre ==
  ASSUME NEW s \in SpecChoices, NEW from, NEW i \in DOMAIN s.transitions
  PROVE  Seqs!ToSet(PortsOf(BuildStateMachineNode(s), from, BuildStateMachineNode(s).rules[i])) = PortsAt(s, OnTheWay(s, from, i))
<1> DEFINE c == BuildStateMachineNode(s)
           t == s.transitions[i]
           S == PortsAt(s, OnTheWay(s, from, i))
           left == IF from \in c.states THEN c.exit[from] ELSE << >>
           middle == IF c.rules[i].port = NoPort THEN << >> ELSE <<c.rules[i].port>>
           right == IF c.rules[i].to \in c.states THEN c.entry[c.rules[i].to] ELSE << >>
<1>1. PortsOf(c, from, c.rules[i]) = left \o middle \o right
  BY Zenon DEF PortsOf
<1>2. S = PortsAt(s, ExitActions(s, from)) \cup PortsAt(s, RuleAction(s, i)) \cup PortsAt(s, EntryActions(s, t.to))
  BY DEF PortsAt, OnTheWay
<1>3. c.states = s.states /\ c.rules[i].to = t.to
  BY ConfigIs
<1>4. Seqs!ToSet(<< >>) = {} /\ << >> \in Seq(S)
  BY DEF Seqs!ToSet
<1>5. Seqs!ToSet(left) = PortsAt(s, ExitActions(s, from)) /\ left \in Seq(S)
  <2>1. CASE from \in s.states
    <3>1. c.exit[from] \in Seq(PortsAt(s, ExitActions(s, from))) /\ Seqs!ToSet(c.exit[from]) = PortsAt(s, ExitActions(s, from))
      BY <2>1, ExitPorts
    <3>2. PortsAt(s, ExitActions(s, from)) \subseteq S
      BY <1>2
    <3>3. left = c.exit[from]
      BY <1>3, <2>1
    <3> HIDE DEF c, S, left
    <3> QED BY <3>1, <3>2, <3>3
  <2>2. CASE from \notin s.states
    <3>1. left = << >> /\ PortsAt(s, ExitActions(s, from)) = {}
      BY <1>3, <2>2 DEF ExitActions, PortsAt
    <3> QED BY <1>4, <3>1
  <2> QED BY <2>1, <2>2
<1>6. Seqs!ToSet(right) = PortsAt(s, EntryActions(s, t.to)) /\ right \in Seq(S)
  <2>1. CASE t.to \in s.states
    <3>1. c.entry[t.to] \in Seq(PortsAt(s, EntryActions(s, t.to))) /\ Seqs!ToSet(c.entry[t.to]) = PortsAt(s, EntryActions(s, t.to))
      BY <2>1, EntryPorts
    <3>2. PortsAt(s, EntryActions(s, t.to)) \subseteq S
      BY <1>2
    <3>3. right = c.entry[t.to]
      BY <1>3, <2>1
    <3> HIDE DEF c, S, right
    <3> QED BY <3>1, <3>2, <3>3
  <2>2. CASE t.to \notin s.states
    <3>1. right = << >> /\ PortsAt(s, EntryActions(s, t.to)) = {}
      BY <1>3, <2>2 DEF EntryActions, PortsAt
    <3> QED BY <1>4, <3>1
  <2> QED BY <2>1, <2>2
<1>7. Seqs!ToSet(middle) = PortsAt(s, RuleAction(s, i)) /\ middle \in Seq(S)
  <2> DEFINE a == [where |-> "trans", state |-> << >>, index |-> i, action |-> t.action]
  <2>1. c.rules[i].port = IF t.action = NoAction THEN NoPort ELSE PortOf(s, a)
    BY ConfigIs
  <2>2. CASE t.action = NoAction
    <3>1. middle = << >> /\ PortsAt(s, RuleAction(s, i)) = {}
      BY <2>1, <2>2 DEF RuleAction, PortsAt
    <3> QED BY <1>4, <3>1
  <2>3. CASE t.action # NoAction
    <3>1. PortOf(s, a) # NoPort
      <4>1. a.where = "trans" /\ a.index = i
        OBVIOUS
      <4> QED BY <4>1, TransitionHasPort
    <3>2. RuleAction(s, i) = {a}
      BY <2>3 DEF RuleAction
    <3> DEFINE p == PortOf(s, a)
    <3>3. middle = <<p>> /\ PortsAt(s, RuleAction(s, i)) = {p}
      <4>1. PortsAt(s, RuleAction(s, i)) = {p}
        BY <3>2 DEF PortsAt
      <4> QED BY <2>1, <2>3, <3>1, <4>1
    <3>4. p \in S
      BY <1>2, <3>3
    <3> HIDE DEF S, p, middle
    <3>5. Seqs!ToSet(<<p>>) = {p}
      BY DEF Seqs!ToSet
    <3> QED BY <3>3, <3>4, <3>5, OneIsSeq
  <2> QED BY <2>2, <2>3
<1> HIDE DEF left, middle, right, S
<1>8. left \o middle \in Seq(S) /\ Seqs!ToSet(left \o middle) = Seqs!ToSet(left) \cup Seqs!ToSet(middle)
  BY <1>5, <1>7, ToSetJoins
<1> DEFINE both == left \o middle
<1> HIDE DEF both
<1>9. Seqs!ToSet(both \o right) = Seqs!ToSet(both) \cup Seqs!ToSet(right)
  <2>1. both \in Seq(S)
    BY <1>8 DEF both
  <2> QED BY <1>6, <2>1, ToSetJoins
<1> QED BY <1>1, <1>2, <1>5, <1>6, <1>7, <1>8, <1>9 DEF S, both

-----------------------------------------------------------------------------
(* What is called is what the specification asks for.                     *)

LEMMA ExitCalls ==
  ASSUME NEW s, NEW q
  PROVE  (IF q \in s.states THEN Seqs!ToSet(s.exit[q]) ELSE {}) = {a.action : a \in ExitActions(s, q)}
<1>1. CASE q \in s.states
  <2> DEFINE At(k) == [where |-> "exit", state |-> q, index |-> k, action |-> s.exit[q][k]]
  <2>1. ExitActions(s, q) = {At(k) : k \in DOMAIN s.exit[q]}
    BY <1>1 DEF ExitActions
  <2>2. \A k : At(k).action = s.exit[q][k]
    OBVIOUS
  <2>3. Seqs!ToSet(s.exit[q]) = {s.exit[q][k] : k \in DOMAIN s.exit[q]}
    BY DEF Seqs!ToSet
  <2> HIDE DEF At
  <2> QED BY <1>1, <2>1, <2>2, <2>3
<1>2. CASE q \notin s.states
  BY <1>2 DEF ExitActions
<1> QED BY <1>1, <1>2
LEMMA EntryCalls ==
  ASSUME NEW s, NEW q
  PROVE  (IF q \in s.states THEN Seqs!ToSet(s.entry[q]) ELSE {}) = {a.action : a \in EntryActions(s, q)}
<1>1. CASE q \in s.states
  <2> DEFINE At(k) == [where |-> "entry", state |-> q, index |-> k, action |-> s.entry[q][k]]
  <2>1. EntryActions(s, q) = {At(k) : k \in DOMAIN s.entry[q]}
    BY <1>1 DEF EntryActions
  <2>2. \A k : At(k).action = s.entry[q][k]
    OBVIOUS
  <2>3. Seqs!ToSet(s.entry[q]) = {s.entry[q][k] : k \in DOMAIN s.entry[q]}
    BY DEF Seqs!ToSet
  <2> HIDE DEF At
  <2> QED BY <1>1, <2>1, <2>2, <2>3
<1>2. CASE q \notin s.states
  BY <1>2 DEF EntryActions
<1> QED BY <1>1, <1>2

\* What the specification asks for are the actions on the way.
LEMMA AskedIs ==
  ASSUME NEW from, NEW i \in DOMAIN spec.transitions
  PROVE  Asked(from, spec.transitions[i]) = {a.action : a \in OnTheWay(spec, from, i)}
<1> DEFINE t == spec.transitions[i]
           Exits == IF from \in spec.states THEN Seqs!ToSet(spec.exit[from]) ELSE {}
           Entries == IF t.to \in spec.states THEN Seqs!ToSet(spec.entry[t.to]) ELSE {}
           Calls(set) == {a.action : a \in set}
<1>1. Asked(from, t) = Exits \cup ({t.action} \ {NoAction}) \cup Entries
  BY Zenon DEF Asked
<1>2. Exits = Calls(ExitActions(spec, from))
  BY ExitCalls
<1>3. Entries = Calls(EntryActions(spec, t.to))
  BY EntryCalls
<1>4. {t.action} \ {NoAction} = Calls(RuleAction(spec, i))
  <2> DEFINE a == [where |-> "trans", state |-> << >>, index |-> i, action |-> t.action]
  <2>1. CASE t.action = NoAction
    BY <2>1 DEF RuleAction
  <2>2. CASE t.action # NoAction
    <3>1. RuleAction(spec, i) = {a}
      BY <2>2 DEF RuleAction
    <3>2. a.action = t.action
      OBVIOUS
    <3> HIDE DEF a, t
    <3> QED BY <2>2, <3>1, <3>2
  <2> QED BY <2>1, <2>2
<1> HIDE DEF Exits, Entries
<1>5. Calls(OnTheWay(spec, from, i)) =
        Calls(ExitActions(spec, from)) \cup Calls(RuleAction(spec, i)) \cup Calls(EntryActions(spec, t.to))
  BY DEF OnTheWay
<1> HIDE DEF Calls
<1>6. Asked(from, t) = Calls(OnTheWay(spec, from, i))
  BY <1>1, <1>2, <1>3, <1>4, <1>5
<1> QED BY <1>6 DEF Calls, t

\* A port leads to one node, so what is triggered is called and nothing else.
LEMMA CalledIs ==
  ASSUME graph = [nodes |-> BuildCapabilityCallNodes(spec), edges |-> BuildEdges(spec)], IdsStayApart(spec),
         NEW way, way \subseteq Actions(spec), Triggered = PortsAt(spec, way)
  PROVE  Called = {a.action : a \in way}
<1>1. \A a, b \in Actions(spec) : a # b => PortOf(spec, a) # PortOf(spec, b) /\ NodeOf(spec, a) # NodeOf(spec, b)
  BY DEF IdsStayApart
<1>2. graph.nodes = BuildCapabilityCallNodes(spec) /\ graph.edges = BuildEdges(spec)
  OBVIOUS
<1>3. ASSUME NEW call \in Called PROVE \E a \in way : call = a.action
  <2>1. PICK n \in graph.nodes : call = n.calls /\ \E e \in graph.edges : e.port \in Triggered /\ e.to = n.id
    BY Zenon DEF Called
  <2>2. PICK e \in graph.edges : e.port \in Triggered /\ e.to = n.id
    BY <2>1
  <2>3. PICK a \in Actions(spec) : n = [id |-> NodeOf(spec, a), calls |-> a.action]
    BY <1>2, <2>1, Zenon DEF BuildCapabilityCallNodes
  <2>4. PICK b \in Actions(spec) : e = [port |-> PortOf(spec, b), to |-> NodeOf(spec, b)]
    BY <1>2, <2>2, Zenon DEF BuildEdges
  <2>5. n.id = NodeOf(spec, a) /\ n.calls = a.action
    BY <2>3
  <2>6. e.port = PortOf(spec, b) /\ e.to = NodeOf(spec, b)
    BY <2>4
  <2>7. PICK c \in way : PortOf(spec, b) = PortOf(spec, c)
    BY <2>2, <2>6 DEF PortsAt
  <2>8. c \in Actions(spec) /\ NodeOf(spec, b) = NodeOf(spec, a)
    BY <2>2, <2>5, <2>6
  <2>9. a = b /\ b = c
    BY <1>1, <2>7, <2>8
  <2> QED BY <2>1, <2>5, <2>9
<1>4. ASSUME NEW a \in way PROVE a.action \in Called
  <2> DEFINE n == [id |-> NodeOf(spec, a), calls |-> a.action]
             e == [port |-> PortOf(spec, a), to |-> NodeOf(spec, a)]
  <2>1. n \in graph.nodes
    BY <1>2 DEF BuildCapabilityCallNodes
  <2>2. e \in graph.edges
    BY <1>2 DEF BuildEdges
  <2>3. e.port \in Triggered /\ e.to = n.id /\ n.calls = a.action
    BY DEF PortsAt
  <2> HIDE DEF n, e
  <2>4. n.calls \in Called
    BY <2>1, <2>2, <2>3, Zenon DEF Called
  <2> QED BY <2>3, <2>4
<1> QED BY <1>3, <1>4

LEMMA TransitionsAre ==
  ASSUME CompInv, smMatch # 0
  PROVE  /\ smMatch \in DOMAIN spec.transitions
         /\ spec.transitions[smMatch].from \in {<<"*">>, smFrom}
         /\ smConfig.rules[smMatch].to = spec.transitions[smMatch].to
<1>1. smConfig = BuildStateMachineNode(spec) /\ smMatch \in Applying(smConfig, smFrom)
  BY MatchedIs
<1>2. smMatch \in DOMAIN smConfig.rules /\ smConfig.rules[smMatch].from \in {<<"*">>, smFrom}
  BY <1>1 DEF Applying
<1>3. smMatch \in DOMAIN spec.transitions
  BY <1>1, <1>2, ConfigIs
<1>4. smConfig.rules[smMatch].from = spec.transitions[smMatch].from /\ smConfig.rules[smMatch].to = spec.transitions[smMatch].to
  BY <1>1, <1>3, ConfigIs, ZenonT(90)
<1> QED BY <1>2, <1>3, <1>4

LEMMA SpecIsRun == CompInv => CompiledRunsTheSpec
<1> SUFFICES ASSUME CompInv, stage = "running", smResult.kind = "route"
             PROVE  /\ spec.transitions[smMatch].from \in {<<"*">>, smFrom}
                    /\ Called = Asked(smFrom, spec.transitions[smMatch])
                    /\ smMeddled \/ smState = spec.transitions[smMatch].to
  BY Zenon DEF CompiledRunsTheSpec
<1>1. /\ smMatch # 0 /\ smResult.ports = PortsOf(smConfig, smFrom, smConfig.rules[smMatch])
      /\ smMeddled \/ smState = smConfig.rules[smMatch].to
  BY DEF CompInv, MachineGoes
<1>2. /\ smMatch \in DOMAIN spec.transitions /\ spec.transitions[smMatch].from \in {<<"*">>, smFrom}
      /\ smConfig.rules[smMatch].to = spec.transitions[smMatch].to
  BY <1>1, TransitionsAre
<1>3. /\ spec \in SpecChoices /\ smConfig = BuildStateMachineNode(spec) /\ IdsStayApart(spec)
      /\ graph = [nodes |-> BuildCapabilityCallNodes(spec), edges |-> BuildEdges(spec)]
  BY DEF CompInv
<1> DEFINE way == OnTheWay(spec, smFrom, smMatch)
<1>4. Triggered = Seqs!ToSet(smResult.ports)
  BY DEF Triggered
<1>5. Triggered = PortsAt(spec, way)
  BY <1>1, <1>2, <1>3, <1>4, PortsAre
<1>6. way \subseteq Actions(spec)
  BY <1>2, WayIsActions
<1>7. Called = {a.action : a \in way}
  <2> HIDE DEF way
  <2> QED BY <1>3, <1>5, <1>6, CalledIs
<1>8. Called = Asked(smFrom, spec.transitions[smMatch])
  BY <1>2, <1>7, AskedIs
<1> QED BY <1>1, <1>2, <1>8

-----------------------------------------------------------------------------
(* Reachable states are closed under transitions.                         *)

LEMMA SpecHas ==
  ASSUME NEW s \in SpecChoices, SpecIsSound(s)
  PROVE  /\ IsFiniteSet(s.states) /\ InitialState(s) \in s.states
         /\ \A i \in DOMAIN s.transitions : s.transitions[i].to \in s.states
<1>1. /\ NameOrder \in Seq(Seqs!ToSet(NameOrder))
      /\ IsFiniteSet(s.states) /\ s.states \subseteq Seqs!ToSet(NameOrder) \cap Seq(STRING)
  BY DslAssumption, Zenon DEF DslAssumption
<1>2. s.states # {} /\ \A i \in DOMAIN s.transitions : s.transitions[i].to \in s.states
  BY DEF SpecIsSound
<1>3. CASE <<"idle">> \in s.states
  BY <1>1, <1>2, <1>3 DEF InitialState
<1>4. CASE <<"idle">> \notin s.states
  <2> DEFINE T == {k \in DOMAIN NameOrder : NameOrder[k] \in s.states}
             Is(k) == NameOrder[k] \in s.states /\ \A l \in 1 .. k - 1 : NameOrder[l] \notin s.states
  <2>1. DOMAIN NameOrder = 1..Len(NameOrder) /\ Len(NameOrder) \in Nat
    BY <1>1
  <2>2. T \subseteq Nat
    BY <2>1
  <2>3. T # {}
    <3>1. PICK q : q \in s.states
      BY <1>2
    <3>2. q \in Seqs!ToSet(NameOrder)
      BY <1>1, <3>1
    <3>3. PICK k \in DOMAIN NameOrder : NameOrder[k] = q
      BY <3>2 DEF Seqs!ToSet
    <3> QED BY <3>1, <3>3
  <2>4. PICK k \in T : \A l \in T : k <= l
    <3> HIDE DEF T
    <3> QED BY <2>2, <2>3, LeastOf
  <2>5. k \in DOMAIN NameOrder /\ Is(k)
    <3>1. k \in 1..Len(NameOrder) /\ NameOrder[k] \in s.states
      BY <2>1, <2>4
    <3>2. ASSUME NEW l \in 1..k - 1 PROVE NameOrder[l] \notin s.states
      <4>1. l \in DOMAIN NameOrder /\ ~(k <= l)
        BY <2>1, <3>1
      <4> QED BY <2>4, <4>1
    <3> QED BY <2>1, <3>1, <3>2
  <2>6. InitialState(s) = NameOrder[CHOOSE j \in DOMAIN NameOrder : Is(j)]
    BY <1>4 DEF InitialState
  <2>7. Is(CHOOSE j \in DOMAIN NameOrder : Is(j))
    <3> HIDE DEF Is
    <3> QED BY <2>5, Zenon
  <2>8. NameOrder[CHOOSE j \in DOMAIN NameOrder : Is(j)] \in s.states
    BY <2>7, Zenon
  <2> QED BY <1>1, <1>2, <2>6, <2>8
<1> QED BY <1>3, <1>4

\* One wave of the closure.
NextWave(s, reached) ==
  reached \cup {s.transitions[i].to : i \in {k \in DOMAIN s.transitions : s.transitions[k].from \in reached \cup {<<"*">>}}}
Waves(s, w) ==
  w = [reached \in SUBSET s.states |-> IF NextWave(s, reached) = reached THEN reached ELSE w[NextWave(s, reached)]]

LEMMA WaveGrows ==
  ASSUME NEW s \in SpecChoices, SpecIsSound(s), NEW a \in SUBSET s.states, NEW b \in SUBSET s.states, a \subseteq b
  PROVE  NextWave(s, a) \in SUBSET s.states /\ a \subseteq NextWave(s, a) /\ NextWave(s, a) \subseteq NextWave(s, b)
<1>1. \A i \in DOMAIN s.transitions : s.transitions[i].to \in s.states
  BY SpecHas
<1> QED BY <1>1 DEF NextWave

LEMMA WavesExist ==
  ASSUME NEW s \in SpecChoices, SpecIsSound(s) PROVE \E w : Waves(s, w)
<1> DEFINE Closed(c) == c \in SUBSET s.states /\ NextWave(s, c) = c
           w == [r \in SUBSET s.states |-> {q \in s.states : \A c \in SUBSET s.states : r \subseteq c /\ Closed(c) => q \in c}]
<1>1. ASSUME NEW r \in SUBSET s.states
      PROVE  w[r] = IF NextWave(s, r) = r THEN r ELSE w[NextWave(s, r)]
  <2>1. CASE NextWave(s, r) = r
    <3>1. Closed(r)
      BY <2>1
    <3>2. \A q \in s.states : q \in w[r] <=> \A c \in SUBSET s.states : r \subseteq c /\ Closed(c) => q \in c
      OBVIOUS
    <3>3. \A q \in s.states : q \in w[r] <=> q \in r
      BY <3>1, <3>2
    <3>4. w[r] \subseteq s.states
      OBVIOUS
    <3> HIDE DEF w, Closed
    <3> QED BY <2>1, <3>3, <3>4
  <2>2. CASE NextWave(s, r) # r
    <3> DEFINE n == NextWave(s, r)
    <3>1. n \in SUBSET s.states /\ r \subseteq n
      BY WaveGrows
    <3>2. ASSUME NEW c \in SUBSET s.states, Closed(c) PROVE r \subseteq c <=> n \subseteq c
      <4>1. r \subseteq c => n \subseteq NextWave(s, c)
        BY WaveGrows
      <4> QED BY <3>1, <3>2, <4>1
    <3>3. /\ w[r] = {q \in s.states : \A c \in SUBSET s.states : r \subseteq c /\ Closed(c) => q \in c}
          /\ w[n] = {q \in s.states : \A c \in SUBSET s.states : n \subseteq c /\ Closed(c) => q \in c}
      BY <3>1
    <3> HIDE DEF w, Closed
    <3>4. w[r] = w[n]
      BY <3>2, <3>3
    <3> QED BY <2>2, <3>4
  <2> QED BY <2>1, <2>2
<1>2. w = [r \in SUBSET s.states |-> w[r]]
  OBVIOUS
<1> HIDE DEF w
<1>3. Waves(s, w)
  BY <1>1, <1>2 DEF Waves
<1> QED BY <1>3

\* Whatever solves the recursion ends in a closed set.
LEMMA WavesClose ==
  ASSUME NEW s \in SpecChoices, SpecIsSound(s), NEW w, Waves(s, w), NEW r \in SUBSET s.states
  PROVE  w[r] \in SUBSET s.states /\ NextWave(s, w[r]) = w[r]
<1> DEFINE Good(x) == w[x] \in SUBSET s.states /\ NextWave(s, w[x]) = w[x]
           T == {Cardinality(s.states \ x) : x \in {y \in SUBSET s.states : ~Good(y)}}
<1>1. IsFiniteSet(s.states)
  BY SpecHas
<1>2. \A x : IsFiniteSet(s.states \ x) /\ Cardinality(s.states \ x) \in Nat
  BY <1>1, FS_Difference, FS_CardinalityType
<1>3. \A x \in SUBSET s.states : w[x] = IF NextWave(s, x) = x THEN x ELSE w[NextWave(s, x)]
  BY Zenon DEF Waves
<1> SUFFICES ASSUME ~Good(r) PROVE FALSE
  OBVIOUS
<1>4. T # {}
  OBVIOUS
<1>5. T \subseteq Nat
  <2> HIDE DEF Good
  <2> QED BY <1>2
<1>6. PICK n \in T : \A m \in T : n <= m
  <2> HIDE DEF T
  <2> QED BY <1>4, <1>5, LeastOf
<1>7. PICK x \in SUBSET s.states : ~Good(x) /\ n = Cardinality(s.states \ x)
  <2> HIDE DEF Good
  <2> QED BY <1>6
<1>8. NextWave(s, x) # x
  BY <1>3, <1>7
<1> DEFINE y == NextWave(s, x)
<1>9. y \in SUBSET s.states /\ x \subseteq y /\ w[x] = w[y]
  BY <1>3, <1>8, WaveGrows
<1>10. ~Good(y)
  BY <1>7, <1>9
<1> HIDE DEF y, Good
<1>11. Cardinality(s.states \ y) \in T
  BY <1>9, <1>10
<1>12. Cardinality(s.states \ y) < Cardinality(s.states \ x)
  <2>1. s.states \ y \subseteq s.states \ x /\ s.states \ y # s.states \ x
    BY <1>8, <1>9 DEF y
  <2>2. /\ Cardinality(s.states \ y) <= Cardinality(s.states \ x)
        /\ Cardinality(s.states \ x) = Cardinality(s.states \ y) => s.states \ x = s.states \ y
    BY <1>2, <2>1, FS_Subset
  <2> QED BY <1>2, <2>1, <2>2
<1>13. n \in Nat /\ n <= Cardinality(s.states \ y) /\ n = Cardinality(s.states \ x)
  <2> HIDE DEF T
  <2> QED BY <1>5, <1>6, <1>7, <1>11
<1>14. Cardinality(s.states \ y) \in Nat
  BY <1>2
<1> QED BY <1>12, <1>13, <1>14

LEMMA ReachableIsClosed ==
  ASSUME NEW s \in SpecChoices, SpecIsSound(s), NEW i \in DOMAIN s.transitions,
         s.transitions[i].from \in FindReachableStates(s) \cup {<<"*">>}
  PROVE  s.transitions[i].to \in FindReachableStates(s)
<1> DEFINE u == CHOOSE w : Waves(s, w)
           r == FindReachableStates(s)
<1>1. Waves(s, u)
  BY WavesExist, Zenon
<1>2. r = u[{InitialState(s)}]
  BY DEF FindReachableStates, Waves, NextWave
<1>3. {InitialState(s)} \in SUBSET s.states
  BY SpecHas
<1> HIDE DEF u, r
<1>4. NextWave(s, r) = r
  BY <1>1, <1>2, <1>3, WavesClose
<1>5. s.transitions[i].to \in NextWave(s, r)
  BY DEF NextWave, r
<1> QED BY <1>4, <1>5 DEF r

LEMMA WarningsHold == CompInv => WarningsAreTrue
<1> SUFFICES ASSUME CompInv, stage = "running", smResult.kind = "route", NEW d \in report
             PROVE  /\ d.rule = "dead end" => smFrom # d.subject
                    /\ d.rule = "unreachable" /\ smFrom \in FindReachableStates(spec) =>
                         spec.transitions[smMatch].to # d.subject
  BY Zenon DEF WarningsAreTrue
<1>1. smMatch # 0 /\ report = RunSafetyChecks(spec, order) /\ spec \in SpecChoices /\ SpecIsSound(spec)
  BY DEF CompInv, MachineGoes
<1>2. smMatch \in DOMAIN spec.transitions /\ spec.transitions[smMatch].from \in {<<"*">>, smFrom}
  BY <1>1, TransitionsAre
<1>3. d \in RunSafetyChecks(spec, order)
  BY <1>1
<1>4. ASSUME d.rule = "dead end" PROVE smFrom # d.subject
  <2>1. d.subject \in FindDeadEndStates(spec)
    BY <1>3, <1>4, DeadEndsAre
  <2>2. /\ \A i \in DOMAIN spec.transitions : spec.transitions[i].from # <<"*">>
        /\ \A i \in DOMAIN spec.transitions : spec.transitions[i].from # d.subject
    BY <2>1, Zenon DEF FindDeadEndStates
  <2> QED BY <1>2, <2>2
<1>5. ASSUME d.rule = "unreachable", smFrom \in FindReachableStates(spec) PROVE spec.transitions[smMatch].to # d.subject
  <2>1. d.subject \in spec.states \ FindReachableStates(spec)
    BY <1>3, <1>5, UnreachablesAre
  <2>2. spec.transitions[smMatch].to \in FindReachableStates(spec)
    BY <1>1, <1>2, <1>5, ReachableIsClosed
  <2> QED BY <2>1, <2>2
<1> QED BY <1>4, <1>5

-----------------------------------------------------------------------------
(* One visit of the depth-first search.                                   *)

(* One visit of the depth-first search, given what the visits inside it do. *)
At(S, q) == {k \in DOMAIN S.path : S.path[k] = q}
Closing(S, q) ==
  LET cycle == SubSeq(S.path, CHOOSE k \in At(S, q) : TRUE, Len(S.path))
  IN  IF \E d \in S.cycles : Seqs!ToSet(d) = Seqs!ToSet(cycle) THEN S
      ELSE [S EXCEPT !.cycles = @ \cup {cycle}]
Entered(S, q) == [S EXCEPT !.visited = @ \cup {q}, !.path = Append(@, q)]
Walks(s, V, S, q, h) ==
  h = [i \in 0 .. Len(s.transitions) |->
         IF i = 0 THEN Entered(S, q)
         ELSE IF s.transitions[i].from = q THEN V[<<h[i - 1], s.transitions[i].to>>]
         ELSE h[i - 1]]
Walk(s, V, S, q) == CHOOSE h : Walks(s, V, S, q, h)
Turn(s, V, c) ==
  IF At(c[1], c[2]) # {} THEN Closing(c[1], c[2])
  ELSE IF c[2] \in c[1].visited THEN c[1]
  ELSE [Walk(s, V, c[1], c[2])[Len(s.transitions)] EXCEPT !.path = c[1].path]
Visits(s, V) == V = [c \in Searches(s) \X s.states |-> Turn(s, V, c)]

LEMMA DfsIs == ASSUME NEW s PROVE DfsVisit(s) = CHOOSE V : Visits(s, V)
  BY Zenon DEF DfsVisit, Visits, Turn, Walk, Walks, Closing, Entered, At

-----------------------------------------------------------------------------
Beyond(s, S) == {R \in Searches(s) : S.visited \subseteq R.visited}

LEMMA ClosingIs ==
  ASSUME NEW s, NEW S \in Searches(s), NEW q \in s.states, At(S, q) # {}
  PROVE  /\ Closing(S, q) \in Searches(s) /\ Closing(S, q).visited = S.visited /\ Closing(S, q).path = S.path
         /\ Closing(S, q).cycles # {}
<1> DEFINE k == CHOOSE k \in At(S, q) : TRUE
           cycle == SubSeq(S.path, k, Len(S.path))
           known == \E d \in S.cycles : Seqs!ToSet(d) = Seqs!ToSet(cycle)
<1>1. S.path \in Seq(s.states) /\ S.cycles \in SUBSET Seq(s.states) /\ S.visited \in SUBSET s.states
  BY DEF Searches
<1>2. k \in DOMAIN S.path
  <2>1. k \in At(S, q)
    BY Zenon
  <2> QED BY <2>1 DEF At
<1>3. k \in 1..Len(S.path) /\ Len(S.path) \in Nat
  BY <1>1, <1>2
<1>4. cycle \in Seq(s.states)
  <2> HIDE DEF k
  <2>1. k \in Int /\ Len(S.path) \in Int /\ \A i \in k..Len(S.path) : S.path[i] \in s.states
    BY <1>1, <1>3
  <2> QED BY <2>1, SubSeqProperties
<1>5. Closing(S, q) = IF known THEN S ELSE [S EXCEPT !.cycles = @ \cup {cycle}]
  BY Zenon DEF Closing
<1> HIDE DEF cycle
<1>6. CASE known
  BY <1>5, <1>6
<1>7. CASE ~known
  <2> HIDE DEF known
  <2>1. Closing(S, q) = [S EXCEPT !.cycles = @ \cup {cycle}]
    BY <1>5, <1>7
  <2> QED BY <1>1, <1>4, <2>1 DEF Searches
<1> QED BY <1>6, <1>7

LEMMA EnteredIs ==
  ASSUME NEW s, NEW S \in Searches(s), NEW q \in s.states
  PROVE  /\ Entered(S, q) \in Searches(s) /\ Entered(S, q).visited = S.visited \cup {q}
         /\ Entered(S, q).path = Append(S.path, q) /\ Entered(S, q).cycles = S.cycles
<1>1. S.path \in Seq(s.states) /\ S.cycles \in SUBSET Seq(s.states) /\ S.visited \in SUBSET s.states
  BY DEF Searches
<1> DEFINE p == Append(S.path, q)
<1>2. p \in Seq(s.states)
  BY <1>1, AppendProperties
<1>3. Entered(S, q) = [S EXCEPT !.visited = @ \cup {q}, !.path = p]
  BY DEF Entered
<1> HIDE DEF p
<1>4. /\ Entered(S, q) \in Searches(s) /\ Entered(S, q).visited = S.visited \cup {q}
      /\ Entered(S, q).path = p /\ Entered(S, q).cycles = S.cycles
  BY <1>1, <1>2, <1>3 DEF Searches
<1> QED BY <1>4 DEF p

LEMMA LeavingIs ==
  ASSUME NEW s, NEW S \in Searches(s), NEW R \in Searches(s)
  PROVE  /\ [R EXCEPT !.path = S.path] \in Searches(s) /\ [R EXCEPT !.path = S.path].visited = R.visited
         /\ [R EXCEPT !.path = S.path].path = S.path /\ [R EXCEPT !.path = S.path].cycles = R.cycles
  BY DEF Searches

\* What is not visited yet: less of it inside a visit.
Left(s, S) == Cardinality(s.states \ S.visited)
LEMMA LeftFalls ==
  ASSUME NEW s \in SpecChoices, SpecIsSound(s), NEW S \in Searches(s), NEW q \in s.states, q \notin S.visited,
         NEW R \in Beyond(s, Entered(S, q))
  PROVE  Left(s, S) \in Nat /\ Left(s, R) \in Nat /\ Left(s, R) < Left(s, S)
<1>1. IsFiniteSet(s.states)
  BY SpecHas
<1>2. \A x : IsFiniteSet(s.states \ x) /\ Cardinality(s.states \ x) \in Nat
  BY <1>1, FS_Difference, FS_CardinalityType
<1>3. S.visited \cup {q} \subseteq R.visited
  BY EnteredIs DEF Beyond
<1>4. (s.states \ R.visited) \subseteq (s.states \ S.visited) /\ (s.states \ R.visited) # (s.states \ S.visited)
  BY <1>3
<1>5. /\ Cardinality(s.states \ R.visited) <= Cardinality(s.states \ S.visited)
      /\ Cardinality(s.states \ S.visited) = Cardinality(s.states \ R.visited) => s.states \ S.visited = s.states \ R.visited
  BY <1>2, <1>4, FS_Subset
<1> QED BY <1>2, <1>4, <1>5, SMTT(60) DEF Left

-----------------------------------------------------------------------------
(* What a visit looks at inside.                                          *)

\* A recursion over 0..N whose steps stay in a set has a solution there.
Solution(f, N, A, a, g) ==
  f \in [0..N -> A] /\ f[0] = a /\ \A i \in 1..N : f[i] = g[<<i, f[i - 1]>>]
LEMMA Recursion ==
  ASSUME NEW N \in Nat, NEW A, NEW a \in A, NEW g \in [(1..N) \X A -> A]
  PROVE  \E f : Solution(f, N, A, a, g)
<1> DEFINE Solves(f, m) == f[0] = a /\ \A i \in 1..m : f[i] = g[<<i, f[i - 1]>>]
           S == {m \in 0..N : \E f \in [0..m -> A] : Solves(f, m)}
<1>1. 0 \in S
  <2> DEFINE h == [i \in 0..0 |-> a]
  <2>1. h \in [0..0 -> A] /\ Solves(h, 0)
    OBVIOUS
  <2> HIDE DEF h
  <2>2. \E f \in [0..0 -> A] : Solves(f, 0)
    BY <2>1
  <2> QED BY <2>2
<1>2. ASSUME NEW m \in 1..N, m - 1 \in S PROVE m \in S
  <2>1. PICK f \in [0..(m - 1) -> A] : Solves(f, m - 1)
    BY <1>2
  <2> DEFINE h == [i \in 0..m |-> IF i = m THEN g[<<m, f[m - 1]>>] ELSE f[i]]
  <2>2. h \in [0..m -> A]
    <3>1. f[m - 1] \in A /\ g[<<m, f[m - 1]>>] \in A
      BY <2>1
    <3>2. \A i \in 0..m : i # m => i \in 0..(m - 1)
      OBVIOUS
    <3> QED BY <2>1, <3>1, <3>2
  <2>3. Solves(h, m)
    <3>1. h[0] = a
      BY <2>1
    <3>2. ASSUME NEW i \in 1..m PROVE h[i] = g[<<i, h[i - 1]>>]
      <4>1. i - 1 \in 0..m /\ i - 1 # m /\ h[i - 1] = f[i - 1]
        OBVIOUS
      <4>2. CASE i = m
        BY <4>1, <4>2
      <4>3. CASE i # m
        <5>1. i \in 1..(m - 1) /\ h[i] = f[i]
          BY <4>3
        <5> QED BY <2>1, <4>1, <5>1
      <4> QED BY <4>2, <4>3
    <3> QED BY <3>1, <3>2
  <2> HIDE DEF h
  <2> QED BY <2>2, <2>3
<1> HIDE DEF S
<1>3. N \in S
  BY <1>1, <1>2, OneByOne
<1>4. PICK f \in [0..N -> A] : Solves(f, N)
  BY <1>3 DEF S
<1>5. Solution(f, N, A, a, g)
  BY <1>4 DEF Solution
<1> QED BY <1>5

\* What a visit looks at inside, transition by transition.
LEMMA WalkIs ==
  ASSUME NEW s \in SpecChoices, SpecIsSound(s), NEW S \in Searches(s), NEW q \in s.states, NEW V,
         \A R \in Beyond(s, Entered(S, q)) : \A p \in s.states : V[<<R, p>>] \in Beyond(s, R)
  PROVE  /\ Walk(s, V, S, q)[0] = Entered(S, q)
         /\ \A i \in 1..Len(s.transitions) :
              Walk(s, V, S, q)[i] = IF s.transitions[i].from = q THEN V[<<Walk(s, V, S, q)[i - 1], s.transitions[i].to>>]
                                    ELSE Walk(s, V, S, q)[i - 1]
         /\ \A i \in 0..Len(s.transitions) : Walk(s, V, S, q)[i] \in Beyond(s, Entered(S, q))
<1> DEFINE N == Len(s.transitions)
           A == Beyond(s, Entered(S, q))
           Next(i, R) == IF s.transitions[i].from = q THEN V[<<R, s.transitions[i].to>>] ELSE R
           g == [p \in (1..N) \X A |-> Next(p[1], p[2])]
<1>1. N \in Nat /\ \A i \in 1..N : s.transitions[i].to \in s.states
  BY RulesAre, SpecHas
<1>2. Entered(S, q) \in A
  BY EnteredIs DEF Beyond
<1>3. ASSUME NEW i \in 1..N, NEW R \in A PROVE Next(i, R) \in A
  <2>1. CASE s.transitions[i].from = q
    <3>1. V[<<R, s.transitions[i].to>>] \in Beyond(s, R)
      BY <1>1
    <3>2. Entered(S, q).visited \subseteq R.visited
      BY DEF Beyond
    <3>3. V[<<R, s.transitions[i].to>>] \in A
      BY <3>1, <3>2 DEF Beyond
    <3> QED BY <2>1, <3>3
  <2>2. CASE s.transitions[i].from # q
    BY <2>2
  <2> QED BY <2>1, <2>2
<1> HIDE DEF N, A, Next
<1>4. g \in [(1..N) \X A -> A]
  BY <1>3
<1>5. \A i \in 1..N : \A R \in A : g[<<i, R>>] = Next(i, R)
  OBVIOUS
<1> HIDE DEF g
<1>6. PICK f \in [0..N -> A] : f[0] = Entered(S, q) /\ \A i \in 1..N : f[i] = g[<<i, f[i - 1]>>]
  <2>1. PICK f : Solution(f, N, A, Entered(S, q), g)
    BY <1>1, <1>2, <1>4, Recursion, Zenon
  <2> QED BY <2>1 DEF Solution
<1>7. f = [i \in 0..N |-> IF i = 0 THEN Entered(S, q) ELSE Next(i, f[i - 1])]
  <2>1. ASSUME NEW i \in 0..N PROVE f[i] = IF i = 0 THEN Entered(S, q) ELSE Next(i, f[i - 1])
    <3>1. CASE i = 0
      BY <1>6, <3>1
    <3>2. CASE i # 0
      <4>1. i \in 1..N /\ i - 1 \in 0..N
        BY <1>1, <3>2
      <4>2. f[i - 1] \in A
        BY <4>1
      <4> QED BY <1>5, <1>6, <3>2, <4>1, <4>2
    <3> QED BY <3>1, <3>2
  <2> QED BY <2>1
<1>8. Walks(s, V, S, q, f)
  BY <1>7, Zenon DEF Walks, Next, N
<1> DEFINE h == Walk(s, V, S, q)
<1>9. Walks(s, V, S, q, h)
  BY <1>8, Zenon DEF Walk
<1> HIDE DEF h
<1>10. h = [i \in 0..N |-> IF i = 0 THEN Entered(S, q) ELSE Next(i, h[i - 1])]
  BY <1>9, Zenon DEF Walks, Next, N
<1>11. h[0] = Entered(S, q) /\ \A i \in 1..N : h[i] = Next(i, h[i - 1])
  <2>1. 0 \in 0..N /\ \A i \in 1..N : i \in 0..N /\ i # 0
    BY <1>1
  <2> DEFINE F(i) == IF i = 0 THEN Entered(S, q) ELSE Next(i, h[i - 1])
  <2>2. \A i \in 0..N : h[i] = F(i)
    <3> HIDE DEF F
    <3>1. h = [i \in 0..N |-> F(i)]
      BY <1>10 DEF F
    <3> QED BY <3>1
  <2>3. F(0) = Entered(S, q) /\ \A i \in 1..N : F(i) = Next(i, h[i - 1])
    BY <2>1
  <2> HIDE DEF F
  <2> QED BY <2>1, <2>2, <2>3
<1>12. \A i \in 0..N : h[i] \in A
  <2> DEFINE T == {i \in 0..N : h[i] \in A}
  <2>1. 0 \in T
    BY <1>1, <1>2, <1>11
  <2>2. ASSUME NEW i \in 1..N, i - 1 \in T PROVE i \in T
    <3>1. h[i - 1] \in A /\ i \in 0..N
      BY <1>1, <2>2
    <3>2. h[i] \in A
      BY <1>3, <1>11, <3>1
    <3> QED BY <3>1, <3>2
  <2> HIDE DEF T
  <2>3. \A i \in 0..N : i \in T
    BY <1>1, <2>1, <2>2, OneByOne
  <2> QED BY <2>3 DEF T
<1> QED BY <1>11, <1>12, Zenon DEF h, N, A, Next

-----------------------------------------------------------------------------
(* The search exists.                                                     *)

\* Visits that forget nothing.
Keeping(s) == {V \in [Searches(s) \X s.states -> Searches(s)] : \A R \in Searches(s) : \A p \in s.states : V[<<R, p>>] \in Beyond(s, R)}

LEMMA TurnKeeps ==
  ASSUME NEW s \in SpecChoices, SpecIsSound(s), NEW S \in Searches(s), NEW q \in s.states, NEW V,
         q \notin S.visited => \A R \in Beyond(s, Entered(S, q)) : \A p \in s.states : V[<<R, p>>] \in Beyond(s, R)
  PROVE  Turn(s, V, <<S, q>>) \in Beyond(s, S)
<1> DEFINE N == Len(s.transitions)
           R == Walk(s, V, S, q)[N]
<1>1. Turn(s, V, <<S, q>>) = IF At(S, q) # {} THEN Closing(S, q) ELSE IF q \in S.visited THEN S ELSE [R EXCEPT !.path = S.path]
  BY DEF Turn
<1>2. CASE At(S, q) # {}
  BY <1>1, <1>2, ClosingIs DEF Beyond
<1>3. CASE At(S, q) = {} /\ q \in S.visited
  BY <1>1, <1>3 DEF Beyond
<1>4. CASE At(S, q) = {} /\ q \notin S.visited
  <2>1. R \in Beyond(s, Entered(S, q))
    <3>1. N \in 0..N
      BY RulesAre
    <3> QED BY <1>4, <3>1, WalkIs
  <2> HIDE DEF R
  <2>2. R \in Searches(s) /\ S.visited \subseteq R.visited
    BY <2>1, EnteredIs DEF Beyond
  <2>3. [R EXCEPT !.path = S.path] \in Searches(s) /\ [R EXCEPT !.path = S.path].visited = R.visited
    BY <2>2, LeavingIs
  <2>4. Turn(s, V, <<S, q>>) = [R EXCEPT !.path = S.path]
    BY <1>1, <1>4
  <2> QED BY <2>2, <2>3, <2>4, Zenon DEF Beyond
<1> QED BY <1>2, <1>3, <1>4

\* A visit depends on the visits that have less left to do.
LEMMA TurnDepends ==
  ASSUME NEW s \in SpecChoices, SpecIsSound(s), NEW S \in Searches(s), NEW q \in s.states,
         NEW V \in Keeping(s), NEW W \in Keeping(s),
         \A R \in Searches(s) : \A p \in s.states : Left(s, R) < Left(s, S) => V[<<R, p>>] = W[<<R, p>>]
  PROVE  Turn(s, V, <<S, q>>) = Turn(s, W, <<S, q>>)
<1> DEFINE N == Len(s.transitions)
           f == Walk(s, V, S, q)
           h == Walk(s, W, S, q)
<1>1. /\ Turn(s, V, <<S, q>>) = IF At(S, q) # {} THEN Closing(S, q) ELSE IF q \in S.visited THEN S ELSE [f[N] EXCEPT !.path = S.path]
      /\ Turn(s, W, <<S, q>>) = IF At(S, q) # {} THEN Closing(S, q) ELSE IF q \in S.visited THEN S ELSE [h[N] EXCEPT !.path = S.path]
  BY DEF Turn
<1>2. CASE At(S, q) # {} \/ q \in S.visited
  BY <1>1, <1>2
<1>3. CASE At(S, q) = {} /\ q \notin S.visited
  <2>0. N \in Nat /\ \A i \in 1..N : s.transitions[i].to \in s.states
    BY RulesAre, SpecHas
  <2>1. \A R \in Beyond(s, Entered(S, q)) : \A p \in s.states : V[<<R, p>>] \in Beyond(s, R) /\ W[<<R, p>>] \in Beyond(s, R)
    BY DEF Keeping, Beyond
  <2>2. /\ f[0] = Entered(S, q)
        /\ \A i \in 1..N : f[i] = IF s.transitions[i].from = q THEN V[<<f[i - 1], s.transitions[i].to>>] ELSE f[i - 1]
        /\ \A i \in 0..N : f[i] \in Beyond(s, Entered(S, q))
    BY <2>1, WalkIs
  <2>3. /\ h[0] = Entered(S, q)
        /\ \A i \in 1..N : h[i] = IF s.transitions[i].from = q THEN W[<<h[i - 1], s.transitions[i].to>>] ELSE h[i - 1]
    BY <2>1, WalkIs
  <2> DEFINE T == {i \in 0..N : f[i] = h[i]}
  <2> HIDE DEF f, h, N
  <2>4. 0 \in T
    BY <2>0, <2>2, <2>3
  <2>5. ASSUME NEW i \in 1..N, i - 1 \in T PROVE i \in T
    <3> DEFINE R == f[i - 1]
               p == s.transitions[i].to
    <3>1. i \in 0..N /\ i - 1 \in 0..N /\ R = h[i - 1]
      BY <2>0, <2>5
    <3>2. R \in Beyond(s, Entered(S, q)) /\ p \in s.states
      BY <2>0, <2>2, <3>1
    <3>3. f[i] = (IF s.transitions[i].from = q THEN V[<<R, p>>] ELSE R) /\ h[i] = (IF s.transitions[i].from = q THEN W[<<R, p>>] ELSE R)
      BY <2>2, <2>3, <3>1
    <3> HIDE DEF R, p
    <3>4. Left(s, R) < Left(s, S) /\ R \in Searches(s)
      <4>1. Left(s, R) < Left(s, S)
        BY <1>3, <3>2, LeftFalls
      <4> QED BY <3>2, <4>1 DEF Beyond
    <3>5. V[<<R, p>>] = W[<<R, p>>]
      BY <3>2, <3>4
    <3> QED BY <3>1, <3>3, <3>5
  <2> HIDE DEF T
  <2>6. N \in T
    <3>1. \A i \in 0..N : i \in T
      BY <2>0, <2>4, <2>5, OneByOne
    <3> QED BY <2>0, <3>1
  <2>7. f[N] = h[N]
    BY <2>6 DEF T
  <2> QED BY <1>1, <2>7
<1> QED BY <1>2, <1>3

LEMMA KeptByTurns ==
  ASSUME NEW s \in SpecChoices, SpecIsSound(s), NEW V \in Keeping(s)
  PROVE  [c \in Searches(s) \X s.states |-> Turn(s, V, c)] \in Keeping(s)
<1> DEFINE W == [c \in Searches(s) \X s.states |-> Turn(s, V, c)]
<1>1. \A R \in Searches(s) : \A p \in s.states : W[<<R, p>>] = Turn(s, V, <<R, p>>)
  OBVIOUS
<1>2. ASSUME NEW S \in Searches(s), NEW q \in s.states PROVE Turn(s, V, <<S, q>>) \in Beyond(s, S)
  <2>1. \A R \in Beyond(s, Entered(S, q)) : \A p \in s.states : V[<<R, p>>] \in Beyond(s, R)
    BY DEF Keeping, Beyond
  <2> QED BY <2>1, TurnKeeps
<1>3. \A c \in Searches(s) \X s.states : Turn(s, V, c) \in Searches(s)
  <2> SUFFICES ASSUME NEW c \in Searches(s) \X s.states PROVE Turn(s, V, c) \in Searches(s)
    OBVIOUS
  <2>1. c = <<c[1], c[2]>> /\ c[1] \in Searches(s) /\ c[2] \in s.states
    OBVIOUS
  <2>2. Turn(s, V, <<c[1], c[2]>>) \in Beyond(s, c[1])
    BY <1>2, <2>1
  <2> QED BY <2>1, <2>2 DEF Beyond
<1>4. W \in [Searches(s) \X s.states -> Searches(s)]
  BY <1>3
<1> HIDE DEF W
<1>5. \A R \in Searches(s) : \A p \in s.states : W[<<R, p>>] \in Beyond(s, R)
  BY <1>1, <1>2
<1>6. W \in Keeping(s)
  BY <1>4, <1>5 DEF Keeping
<1> QED BY <1>6 DEF W

\* With as many turns as there are states, one more changes nothing.
LEMMA VisitsExist ==
  ASSUME NEW s \in SpecChoices, SpecIsSound(s) PROVE \E V : Visits(s, V)
<1> DEFINE M == Cardinality(s.states)
           K == M + 2
           D == Searches(s) \X s.states
           a == [c \in D |-> c[1]]
           Turns(V) == [c \in D |-> Turn(s, V, c)]
           g == [p \in (1..K) \X Keeping(s) |-> Turns(p[2])]
<1>1. IsFiniteSet(s.states) /\ M \in Nat /\ \A x : Cardinality(s.states \ x) \in Nat /\ Cardinality(s.states \ x) <= M
  <2>1. IsFiniteSet(s.states)
    BY SpecHas
  <2>2. M \in Nat
    BY <2>1, FS_CardinalityType
  <2>3. ASSUME NEW x PROVE Cardinality(s.states \ x) \in Nat /\ Cardinality(s.states \ x) <= M
    <3>1. s.states \ x \in SUBSET s.states
      OBVIOUS
    <3> QED BY <2>1, <3>1, FS_Subset, FS_CardinalityType
  <2> QED BY <2>1, <2>2, <2>3
<1>2. a \in Keeping(s)
  <2>1. \A R \in Searches(s) : \A p \in s.states : a[<<R, p>>] = R
    OBVIOUS
  <2>2. a \in [D -> Searches(s)]
    OBVIOUS
  <2> HIDE DEF a
  <2> QED BY <2>1, <2>2 DEF Keeping, Beyond
<1>3. \A V \in Keeping(s) : Turns(V) \in Keeping(s)
  BY KeptByTurns
<1>4. \A V : \A S \in Searches(s) : \A q \in s.states : Turns(V)[<<S, q>>] = Turn(s, V, <<S, q>>)
  OBVIOUS
<1>5. \A V \in Keeping(s) : Turns(V) = V => Visits(s, V)
  BY DEF Visits
<1> HIDE DEF M, a, Turns
<1>6. g \in [(1..K) \X Keeping(s) -> Keeping(s)]
  BY <1>3
<1>7. \A i \in 1..K : \A V \in Keeping(s) : g[<<i, V>>] = Turns(V)
  OBVIOUS
<1> HIDE DEF g
<1>8. PICK w \in [0..K -> Keeping(s)] : \A i \in 1..K : w[i] = g[<<i, w[i - 1]>>]
  <2>1. K \in Nat
    BY <1>1
  <2> HIDE DEF K
  <2>2. PICK w : Solution(w, K, Keeping(s), a, g)
    BY <1>2, <1>6, <2>1, Recursion, Zenon
  <2> QED BY <2>2 DEF Solution
<1>9. \A i \in 0..M + 1 : w[i] \in Keeping(s) /\ w[i + 1] \in Keeping(s) /\ w[i + 1] = Turns(w[i])
  <2> SUFFICES ASSUME NEW i \in 0..M + 1 PROVE w[i] \in Keeping(s) /\ w[i + 1] \in Keeping(s) /\ w[i + 1] = Turns(w[i])
    OBVIOUS
  <2>1. i \in 0..K /\ i + 1 \in 0..K /\ i + 1 \in 1..K /\ i + 1 - 1 = i
    BY <1>1
  <2> HIDE DEF K
  <2>2. w[i] \in Keeping(s) /\ w[i + 1] \in Keeping(s) /\ w[i + 1] = g[<<i + 1, w[i]>>]
    BY <1>8, <2>1
  <2> QED BY <1>7, <2>1, <2>2
<1> DEFINE Agree(k) == \A S \in Searches(s) : \A q \in s.states : Left(s, S) <= k => w[k + 1][<<S, q>>] = w[k + 2][<<S, q>>]
           T == {k \in 0..M : Agree(k)}
<1>10. \A S \in Searches(s) : Left(s, S) \in Nat /\ Left(s, S) <= M
  BY <1>1 DEF Left
<1>11. ASSUME NEW k \in 0..M, k # 0 => Agree(k - 1) PROVE Agree(k)
  <2> SUFFICES ASSUME NEW S \in Searches(s), NEW q \in s.states, Left(s, S) <= k
               PROVE  w[k + 1][<<S, q>>] = w[k + 2][<<S, q>>]
    OBVIOUS
  <2>1. k \in 0..M + 1 /\ k + 1 \in 0..M + 1 /\ (k + 1) + 1 = k + 2
    BY <1>1
  <2>2. /\ w[k] \in Keeping(s) /\ w[k + 1] \in Keeping(s)
        /\ w[k + 1] = Turns(w[k]) /\ w[k + 2] = Turns(w[k + 1])
    BY <1>9, <2>1
  <2> DEFINE V == w[k]
             W == w[k + 1]
  <2>3. ASSUME NEW R \in Searches(s), NEW p \in s.states, Left(s, R) < Left(s, S) PROVE V[<<R, p>>] = W[<<R, p>>]
    <3>1. k # 0 /\ Left(s, R) <= k - 1 /\ (k - 1) + 1 = k /\ (k - 1) + 2 = k + 1
      BY <1>10, <2>3
    <3> QED BY <1>11, <3>1
  <2>4. V \in Keeping(s) /\ W \in Keeping(s)
    BY <2>2
  <2>5. w[k + 1][<<S, q>>] = Turn(s, V, <<S, q>>) /\ w[k + 2][<<S, q>>] = Turn(s, W, <<S, q>>)
    BY <1>4, <2>2
  <2> HIDE DEF V, W
  <2>6. Turn(s, V, <<S, q>>) = Turn(s, W, <<S, q>>)
    BY <2>3, <2>4, TurnDepends
  <2> QED BY <2>5, <2>6
<1>12. M \in T
  <2> HIDE DEF Agree
  <2>1. 0 \in T
    BY <1>1, <1>11
  <2>2. ASSUME NEW i \in 1..M, i - 1 \in T PROVE i \in T
    <3>1. i \in 0..M
      BY <1>1
    <3> QED BY <1>11, <2>2, <3>1
  <2> HIDE DEF T
  <2>3. \A i \in 0..M : i \in T
    BY <1>1, <2>1, <2>2, OneByOne
  <2> QED BY <1>1, <2>3
<1> DEFINE V == w[M + 1]
<1>13. V \in Keeping(s) /\ w[M + 2] = Turns(V) /\ w[M + 2] \in Keeping(s)
  <2>1. M + 1 \in 0..M + 1 /\ (M + 1) + 1 = M + 2
    BY <1>1
  <2> QED BY <1>9, <2>1
<1>14. \A S \in Searches(s) : \A q \in s.states : V[<<S, q>>] = Turns(V)[<<S, q>>]
  <2>1. Agree(M)
    BY <1>12
  <2> QED BY <1>10, <1>13, <2>1
<1> HIDE DEF V
<1>15. Turns(V) = V
  <2>1. V \in [D -> Searches(s)] /\ Turns(V) \in [D -> Searches(s)]
    BY <1>3, <1>13 DEF Keeping
  <2>2. \A c \in D : V[c] = Turns(V)[c]
    BY <1>14
  <2> HIDE DEF D
  <2> QED BY <2>1, <2>2
<1> QED BY <1>5, <1>13, <1>15

-----------------------------------------------------------------------------
(* What a visit leaves behind.                                            *)

\* What is finished leads only to what is finished, and to no cycle.
Black(S) == S.visited \ Seqs!ToSet(S.path)
NoLoops(s, set) == \A X \in SUBSET set : X # {} => \E v \in X : Neighbours(s, v) \cap X = {}
Settled(s, set) == (\A v \in set : Neighbours(s, v) \subseteq set) /\ NoLoops(s, set)
Good(s, S) == S \in Searches(s) /\ Seqs!ToSet(S.path) \subseteq S.visited /\ (S.cycles = {} => Settled(s, Black(S)))
Post(s, S, q, R) ==
  /\ R \in Beyond(s, S) /\ R.path = S.path
  /\ Good(s, S) => Good(s, R) /\ q \in R.visited /\ (R.cycles = {} => S.cycles = {} /\ q \in Black(R))

LEMMA SettledGrows ==
  ASSUME NEW s, NEW set, Settled(s, set), NEW q, q \notin set, Neighbours(s, q) \subseteq set PROVE Settled(s, set \cup {q})
<1>1. \A v \in set \cup {q} : Neighbours(s, v) \subseteq set
  BY DEF Settled
<1>2. ASSUME NEW X \in SUBSET (set \cup {q}), X # {} PROVE \E v \in X : Neighbours(s, v) \cap X = {}
  <2>1. CASE X \cap set = {}
    <3>1. q \in X /\ Neighbours(s, q) \cap X = {}
      BY <1>2, <2>1
    <3> QED BY <3>1
  <2>2. CASE X \cap set # {}
    <3>1. PICK v \in X \cap set : Neighbours(s, v) \cap (X \cap set) = {}
      BY <2>2 DEF Settled, NoLoops
    <3>2. Neighbours(s, v) \cap X = {}
      BY <1>1, <3>1
    <3> QED BY <3>1, <3>2
  <2> QED BY <2>1, <2>2
<1> QED BY <1>1, <1>2 DEF Settled, NoLoops

LEMMA PathHas ==
  ASSUME NEW s, NEW S \in Searches(s), NEW q \in s.states
  PROVE  /\ At(S, q) # {} <=> q \in Seqs!ToSet(S.path)
         /\ Seqs!ToSet(Append(S.path, q)) = Seqs!ToSet(S.path) \cup {q}
<1>1. S.path \in Seq(s.states)
  BY DEF Searches
<1>2. At(S, q) # {} <=> q \in Seqs!ToSet(S.path)
  BY DEF At, Seqs!ToSet
<1>3. Append(S.path, q) = S.path \o <<q>>
  BY <1>1, AppendIsConcat
<1>4. <<q>> \in Seq(s.states) /\ Seqs!ToSet(<<q>>) = {q}
  <2>1. <<q>> \in Seq(s.states)
    BY OneIsSeq
  <2>2. Seqs!ToSet(<<q>>) = {q}
    BY DEF Seqs!ToSet
  <2> QED BY <2>1, <2>2
<1> QED BY <1>1, <1>2, <1>3, <1>4, ToSetJoins

LEMMA ClosingPosts ==
  ASSUME NEW s, NEW S \in Searches(s), NEW q \in s.states, At(S, q) # {} PROVE Post(s, S, q, Closing(S, q))
<1> DEFINE R == Closing(S, q)
<1>1. R \in Searches(s) /\ R.visited = S.visited /\ R.path = S.path /\ R.cycles # {}
  BY ClosingIs
<1>2. q \in Seqs!ToSet(S.path)
  BY PathHas
<1> HIDE DEF R
<1>3. Post(s, S, q, R)
  BY <1>1, <1>2 DEF Post, Beyond, Good
<1> QED BY <1>3 DEF R

LEMMA SeenPosts ==
  ASSUME NEW s, NEW S \in Searches(s), NEW q \in s.states, At(S, q) = {}, q \in S.visited PROVE Post(s, S, q, S)
<1>1. q \notin Seqs!ToSet(S.path)
  BY PathHas
<1> QED BY <1>1 DEF Post, Beyond, Black

\* On the way through the transitions of a state.
Through(s, S, q, R, i) ==
  /\ R \in Beyond(s, Entered(S, q)) /\ R.path = Append(S.path, q)
  /\ Good(s, S) =>
       /\ Good(s, R)
       /\ R.cycles = {} => S.cycles = {} /\ \A k \in 1..i : s.transitions[k].from = q => s.transitions[k].to \in Black(R)

LEMMA ThroughStarts ==
  ASSUME NEW s, NEW S \in Searches(s), NEW q \in s.states, At(S, q) = {}, q \notin S.visited
  PROVE  Through(s, S, q, Entered(S, q), 0)
<1> DEFINE R == Entered(S, q)
<1>1. R \in Searches(s) /\ R.visited = S.visited \cup {q} /\ R.path = Append(S.path, q) /\ R.cycles = S.cycles
  BY EnteredIs
<1>2. Seqs!ToSet(R.path) = Seqs!ToSet(S.path) \cup {q}
  BY <1>1, PathHas
<1> HIDE DEF R
<1>3. Black(R) = Black(S)
  BY <1>1, <1>2 DEF Black
<1>4. Good(s, S) => Good(s, R)
  BY <1>1, <1>2, <1>3, Zenon DEF Good
<1>5. R \in Beyond(s, R)
  BY <1>1 DEF Beyond
<1>6. \A k \in 1..0 : FALSE
  OBVIOUS
<1>7. Through(s, S, q, R, 0)
  BY <1>1, <1>4, <1>5, <1>6 DEF Through, R
<1> QED BY <1>7 DEF R

LEMMA ThroughGoes ==
  ASSUME NEW s, NEW S, NEW q, NEW i \in Nat, i # 0, NEW R, Through(s, S, q, R, i - 1),
         NEW Q, IF s.transitions[i].from = q THEN Post(s, R, s.transitions[i].to, Q) ELSE Q = R
  PROVE  Through(s, S, q, Q, i)
<1>1. \A k \in 1..i : k = i \/ k \in 1..i - 1
  OBVIOUS
<1>2. CASE s.transitions[i].from # q
  BY <1>1, <1>2 DEF Through
<1>3. CASE s.transitions[i].from = q
  <2>1. Post(s, R, s.transitions[i].to, Q)
    BY <1>3
  <2>2. Q \in Beyond(s, R) /\ Q.path = R.path /\ R.path = Append(S.path, q) /\ R \in Beyond(s, Entered(S, q))
    BY <2>1 DEF Post, Through
  <2>3. Black(R) \subseteq Black(Q)
    BY <2>2 DEF Black, Beyond
  <2>4. Q \in Beyond(s, Entered(S, q))
    BY <2>2 DEF Beyond
  <2>5. ASSUME Good(s, S)
        PROVE  /\ Good(s, Q)
               /\ Q.cycles = {} => S.cycles = {} /\ \A k \in 1..i : s.transitions[k].from = q => s.transitions[k].to \in Black(Q)
    <3>1. Good(s, R) /\ (R.cycles = {} => S.cycles = {} /\ \A k \in 1..i - 1 : s.transitions[k].from = q => s.transitions[k].to \in Black(R))
      BY <2>5, Zenon DEF Through
    <3>2. Good(s, Q) /\ (Q.cycles = {} => R.cycles = {} /\ s.transitions[i].to \in Black(Q))
      BY <2>1, <3>1, Zenon DEF Post
    <3> QED BY <1>1, <2>3, <3>1, <3>2
  <2> QED BY <2>2, <2>4, <2>5, Zenon DEF Through
<1> QED BY <1>2, <1>3

LEMMA ThroughEnds ==
  ASSUME NEW s, NEW S \in Searches(s), NEW q \in s.states, At(S, q) = {},
         DOMAIN s.transitions = 1..Len(s.transitions), NEW R, Through(s, S, q, R, Len(s.transitions))
  PROVE  Post(s, S, q, [R EXCEPT !.path = S.path])
<1> DEFINE Q == [R EXCEPT !.path = S.path]
<1>1. R \in Searches(s) /\ Entered(S, q).visited \subseteq R.visited /\ R.path = Append(S.path, q)
  BY DEF Through, Beyond
<1>2. S.visited \subseteq R.visited /\ q \in R.visited
  <2>1. Entered(S, q).visited = S.visited \cup {q}
    BY EnteredIs
  <2> QED BY <1>1, <2>1
<1>3. Q \in Searches(s) /\ Q.visited = R.visited /\ Q.path = S.path /\ Q.cycles = R.cycles
  BY <1>1, LeavingIs
<1>4. q \notin Seqs!ToSet(S.path) /\ Seqs!ToSet(R.path) = Seqs!ToSet(S.path) \cup {q}
  BY <1>1, PathHas
<1> HIDE DEF Q
<1>5. Black(Q) = Black(R) \cup {q} /\ q \notin Black(R) /\ q \in Black(Q)
  BY <1>2, <1>3, <1>4 DEF Black
<1>6. ASSUME Good(s, S) PROVE Good(s, Q) /\ q \in Q.visited /\ (Q.cycles = {} => S.cycles = {} /\ q \in Black(Q))
  <2>1. /\ Good(s, R)
        /\ R.cycles = {} => S.cycles = {} /\ \A k \in 1..Len(s.transitions) : s.transitions[k].from = q => s.transitions[k].to \in Black(R)
    BY <1>6, Zenon DEF Through
  <2>2. ASSUME R.cycles = {} PROVE Settled(s, Black(Q))
    <3>1. Neighbours(s, q) \subseteq Black(R)
      BY <2>1, <2>2 DEF Neighbours
    <3>2. Settled(s, Black(R))
      BY <2>1, <2>2, Zenon DEF Good
    <3> QED BY <1>5, <3>1, <3>2, SettledGrows
  <2>3. Seqs!ToSet(Q.path) \subseteq Q.visited
    BY <1>2, <1>3, <1>6 DEF Good
  <2> QED BY <1>2, <1>3, <1>5, <2>1, <2>2, <2>3 DEF Good
<1>7. Q \in Beyond(s, S)
  BY <1>2, <1>3 DEF Beyond
<1>8. Post(s, S, q, Q)
  BY <1>3, <1>6, <1>7, Zenon DEF Post
<1> QED BY <1>8 DEF Q

-----------------------------------------------------------------------------
(* All visits are right, and so is the search.                            *)

\* One visit is right when those with less left to do are.
LEMMA VisitPosts ==
  ASSUME NEW s \in SpecChoices, SpecIsSound(s), NEW V, Visits(s, V), NEW S \in Searches(s), NEW q \in s.states,
         \A R \in Searches(s) : \A p \in s.states : Left(s, R) < Left(s, S) => Post(s, R, p, V[<<R, p>>])
  PROVE  Post(s, S, q, V[<<S, q>>])
<1> DEFINE N == Len(s.transitions)
           f == Walk(s, V, S, q)
<1>1. V[<<S, q>>] = Turn(s, V, <<S, q>>)
  BY DEF Visits
<1>2. Turn(s, V, <<S, q>>) = IF At(S, q) # {} THEN Closing(S, q) ELSE IF q \in S.visited THEN S ELSE [f[N] EXCEPT !.path = S.path]
  BY DEF Turn
<1>3. CASE At(S, q) # {}
  BY <1>1, <1>2, <1>3, ClosingPosts
<1>4. CASE At(S, q) = {} /\ q \in S.visited
  BY <1>1, <1>2, <1>4, SeenPosts
<1>5. CASE At(S, q) = {} /\ q \notin S.visited
  <2>0. N \in Nat /\ DOMAIN s.transitions = 1..N /\ \A i \in 1..N : s.transitions[i].to \in s.states
    BY RulesAre, SpecHas
  <2>1. ASSUME NEW R \in Beyond(s, Entered(S, q)), NEW p \in s.states PROVE Post(s, R, p, V[<<R, p>>])
    <3>1. Left(s, R) < Left(s, S)
      BY <1>5, LeftFalls
    <3>2. R \in Searches(s)
      BY DEF Beyond
    <3> QED BY <3>1, <3>2
  <2>2. \A R \in Beyond(s, Entered(S, q)) : \A p \in s.states : V[<<R, p>>] \in Beyond(s, R)
    BY <2>1 DEF Post
  <2>3. /\ f[0] = Entered(S, q)
        /\ \A i \in 1..N : f[i] = IF s.transitions[i].from = q THEN V[<<f[i - 1], s.transitions[i].to>>] ELSE f[i - 1]
        /\ \A i \in 0..N : f[i] \in Beyond(s, Entered(S, q))
    BY <2>2, WalkIs
  <2> DEFINE T == {i \in 0..N : Through(s, S, q, f[i], i)}
  <2> HIDE DEF f, N
  <2>4. 0 \in T
    BY <1>5, <2>0, <2>3, ThroughStarts
  <2>5. ASSUME NEW i \in 1..N, i - 1 \in T PROVE i \in T
    <3> DEFINE R == f[i - 1]
               Q == f[i]
               p == s.transitions[i].to
    <3>1. i \in Nat /\ i # 0 /\ i \in 0..N /\ i - 1 \in 0..N
      BY <2>0
    <3>2. Through(s, S, q, R, i - 1)
      BY <2>5
    <3>3. IF s.transitions[i].from = q THEN Post(s, R, p, Q) ELSE Q = R
      <4>1. R \in Beyond(s, Entered(S, q)) /\ p \in s.states
        BY <2>0, <2>3, <3>1
      <4>2. Post(s, R, p, V[<<R, p>>])
        BY <2>1, <4>1
      <4>3. Q = IF s.transitions[i].from = q THEN V[<<R, p>>] ELSE R
        BY <2>3
      <4> QED BY <4>2, <4>3
    <3> HIDE DEF R, Q
    <3>4. Through(s, S, q, Q, i)
      BY <3>1, <3>2, <3>3, ThroughGoes
    <3> QED BY <3>1, <3>4 DEF Q
  <2>6. N \in T
    <3> HIDE DEF T
    <3>1. \A i \in 0..N : i \in T
      BY <2>0, <2>4, <2>5, OneByOne
    <3> QED BY <2>0, <3>1
  <2>7. Through(s, S, q, f[N], Len(s.transitions))
    BY <2>6 DEF N
  <2>8. DOMAIN s.transitions = 1..Len(s.transitions)
    BY <2>0 DEF N
  <2> DEFINE R == f[N]
  <2> HIDE DEF R
  <2>9. Post(s, S, q, [R EXCEPT !.path = S.path])
    BY <1>5, <2>7, <2>8, ThroughEnds DEF R
  <2>10. V[<<S, q>>] = [R EXCEPT !.path = S.path]
    BY <1>1, <1>2, <1>5 DEF R
  <2> QED BY <2>9, <2>10
<1> QED BY <1>3, <1>4, <1>5

LEMMA AllPost ==
  ASSUME NEW s \in SpecChoices, SpecIsSound(s), NEW V, Visits(s, V)
  PROVE  \A S \in Searches(s) : \A q \in s.states : Post(s, S, q, V[<<S, q>>])
<1> DEFINE Bad == {S \in Searches(s) : \E q \in s.states : ~Post(s, S, q, V[<<S, q>>])}
           T == {Left(s, S) : S \in Bad}
<1> SUFFICES ASSUME Bad # {} PROVE FALSE
  OBVIOUS
<1>1. \A S \in Searches(s) : Left(s, S) \in Nat
  <2>1. IsFiniteSet(s.states)
    BY SpecHas
  <2>2. \A x : Cardinality(s.states \ x) \in Nat
    BY <2>1, FS_Difference, FS_CardinalityType
  <2> QED BY <2>2 DEF Left
<1>2. T \subseteq Nat /\ T # {}
  BY <1>1
<1>3. PICK n \in T : \A m \in T : n <= m
  <2> HIDE DEF T
  <2> QED BY <1>2, LeastOf
<1>4. PICK S \in Bad : n = Left(s, S)
  BY <1>3
<1>5. S \in Searches(s)
  BY <1>4
<1>6. PICK q \in s.states : ~Post(s, S, q, V[<<S, q>>])
  BY <1>4
<1>7. ASSUME NEW R \in Searches(s), NEW p \in s.states, Left(s, R) < Left(s, S) PROVE Post(s, R, p, V[<<R, p>>])
  <2> SUFFICES ASSUME R \in Bad PROVE FALSE
    OBVIOUS
  <2>1. Left(s, R) \in T
    OBVIOUS
  <2>2. n <= Left(s, R)
    <3> HIDE DEF T
    <3> QED BY <1>3, <2>1
  <2>3. Left(s, R) \in Nat /\ Left(s, S) \in Nat
    BY <1>1, <1>5
  <2> HIDE DEF T, Bad
  <2> QED BY <1>4, <1>7, <2>2, <2>3
<1> HIDE DEF T, Bad
<1> QED BY <1>5, <1>6, <1>7, VisitPosts

-----------------------------------------------------------------------------
\* When every state has been visited and no cycle was found, there is none.
LEMMA NoneFound ==
  ASSUME NEW s \in SpecChoices, SpecIsSound(s), NEW o \in Seqs!SetToSeqs(s.states), FindTriggerCycles(s, o) = {}
  PROVE  NoLoops(s, s.states)
<1> DEFINE V == DfsVisit(s)
           N == Len(o)
           Start == [visited |-> {}, path |-> << >>, cycles |-> {}]
           Eq(h) == h = [i \in 0..N |-> IF i = 0 THEN Start ELSE V[<<h[i - 1], o[i]>>]]
           u == CHOOSE h : Eq(h)
<1>1. \A S \in Searches(s) : \A q \in s.states : Post(s, S, q, V[<<S, q>>])
  <2>1. Visits(s, V)
    <3>1. V = CHOOSE W : Visits(s, W)
      BY DfsIs
    <3> HIDE DEF V
    <3> QED BY <3>1, VisitsExist, Zenon
  <2> HIDE DEF V
  <2> QED BY <2>1, AllPost
<1>2. u[N].cycles = {}
  BY Zenon DEF FindTriggerCycles
<1>3. /\ N \in Nat /\ DOMAIN o = 1..N /\ \A i \in 1..N : o[i] \in s.states
      /\ \A q \in s.states : \E k \in 1..N : o[k] = q
  <2>1. /\ Cardinality(s.states) \in Nat /\ o \in [1..Cardinality(s.states) -> s.states] /\ DOMAIN o = 1..Cardinality(s.states)
        /\ \A x \in s.states : \E k \in DOMAIN o : o[k] = x
    BY SpecHas, ListsAll
  <2> DEFINE c == Cardinality(s.states)
  <2>2. o \in Seq(s.states) /\ Len(o) = c
    <3>1. o \in UNION {[1..k -> s.states] : k \in Nat}
      BY <2>1
    <3>2. o \in Seq(s.states)
      BY <3>1, SeqDef
    <3>3. DOMAIN o = 1..Len(o) /\ Len(o) \in Nat
      BY <3>2
    <3>4. 1..c = 1..Len(o) /\ c \in Nat
      BY <2>1, <3>3
    <3>5. Len(o) = c
      <4> DEFINE l == Len(o)
      <4>1. 1..c = 1..l /\ c \in Nat /\ l \in Nat
        BY <3>3, <3>4
      <4> HIDE DEF l, c
      <4>2. c # 0 => c \in 1..l
        BY <4>1
      <4>3. l # 0 => l \in 1..c
        BY <4>1
      <4>4. l = c
        BY <4>1, <4>2, <4>3
      <4> QED BY <4>4 DEF l
    <3> QED BY <3>2, <3>5
  <2> QED BY <2>1, <2>2
<1>4. Start \in Searches(s) /\ Good(s, Start)
  <2>1. << >> \in Seq(s.states) /\ Seqs!ToSet(<< >>) = {}
    <3>1. << >> \in Seq(s.states)
      BY EmptySeq
    <3> QED BY <3>1 DEF Seqs!ToSet
  <2>2. Start \in Searches(s)
    BY <2>1 DEF Searches
  <2>3. Black(Start) = {}
    BY DEF Black
  <2> QED BY <2>1, <2>2, <2>3 DEF Good, Settled, NoLoops
<1> HIDE DEF V, N
<1> DEFINE A == Searches(s)
           g == [p \in (1..N) \X A |-> V[<<p[2], o[p[1]]>>]]
<1>5. \A i \in 1..N : \A R \in A : V[<<R, o[i]>>] \in A
  BY <1>1, <1>3 DEF Post, Beyond
<1> HIDE DEF A, Start
<1>6. g \in [(1..N) \X A -> A] /\ \A i \in 1..N : \A R \in A : g[<<i, R>>] = V[<<R, o[i]>>]
  BY <1>5
<1> HIDE DEF g
<1>7. PICK f \in [0..N -> A] : f[0] = Start /\ \A i \in 1..N : f[i] = g[<<i, f[i - 1]>>]
  <2>1. Start \in A
    BY <1>4 DEF A
  <2>2. PICK f : Solution(f, N, A, Start, g)
    BY <1>3, <1>6, <2>1, Recursion, Zenon
  <2> QED BY <2>2 DEF Solution
<1>8. Eq(f)
  <2>1. ASSUME NEW i \in 0..N PROVE f[i] = IF i = 0 THEN Start ELSE V[<<f[i - 1], o[i]>>]
    <3>1. CASE i = 0
      BY <1>7, <3>1
    <3>2. CASE i # 0
      <4>1. i \in 1..N /\ i - 1 \in 0..N
        BY <1>3, <3>2
      <4>2. f[i - 1] \in A
        BY <4>1
      <4> QED BY <1>6, <1>7, <3>2, <4>1, <4>2
    <3> QED BY <3>1, <3>2
  <2> QED BY <2>1
<1>9. u = [i \in 0..N |-> IF i = 0 THEN Start ELSE V[<<u[i - 1], o[i]>>]]
  <2> DEFINE P(h) == Eq(h)
  <2>1. P(u)
    <3> HIDE DEF Eq
    <3> QED BY <1>8, Zenon
  <2> QED BY <2>1, Zenon
<1> HIDE DEF u
<1>10. u[0] = Start /\ \A i \in 1..N : u[i] = V[<<u[i - 1], o[i]>>]
  <2> DEFINE F(i) == IF i = 0 THEN Start ELSE V[<<u[i - 1], o[i]>>]
  <2>1. \A i \in 0..N : u[i] = F(i)
    <3> HIDE DEF F
    <3>1. u = [i \in 0..N |-> F(i)]
      BY <1>9 DEF F
    <3> QED BY <3>1
  <2>2. 0 \in 0..N /\ F(0) = Start
    BY <1>3
  <2>3. \A i \in 1..N : i \in 0..N /\ F(i) = V[<<u[i - 1], o[i]>>]
    OBVIOUS
  <2> HIDE DEF F
  <2> QED BY <2>1, <2>2, <2>3
<1> DEFINE Fine(i) == Good(s, u[i]) /\ u[i].path = << >> /\ \A k \in 1..i : o[k] \in u[i].visited
           T == {i \in 0..N : Fine(i)}
<1>11. 0 \in T
  <2>1. Good(s, u[0]) /\ u[0].path = << >>
    BY <1>4, <1>10 DEF Start
  <2> QED BY <1>3, <2>1
<1>12. ASSUME NEW i \in 1..N, i - 1 \in T PROVE i \in T
  <2> DEFINE S == u[i - 1]
             R == u[i]
  <2>1. Good(s, S) /\ S.path = << >> /\ \A k \in 1..i - 1 : o[k] \in S.visited
    BY <1>12
  <2>2. S \in Searches(s) /\ o[i] \in s.states
    BY <1>3, <2>1 DEF Good
  <2>3. Post(s, S, o[i], R)
    <3>1. R = V[<<S, o[i]>>]
      BY <1>10
    <3> HIDE DEF S, R
    <3> QED BY <1>1, <2>2, <3>1
  <2> HIDE DEF S, R
  <2>4. S.visited \subseteq R.visited /\ R.path = << >> /\ Good(s, R) /\ o[i] \in R.visited
    BY <2>1, <2>3 DEF Post, Beyond
  <2>5. \A k \in 1..i : o[k] \in R.visited
    <3>1. \A k \in 1..i : k = i \/ k \in 1..i - 1
      BY <1>3
    <3> QED BY <2>1, <2>4, <3>1
  <2>6. i \in 0..N
    BY <1>3
  <2> QED BY <2>4, <2>5, <2>6 DEF R
<1>13. Fine(N)
  <2> HIDE DEF T
  <2>1. \A i \in 0..N : i \in T
    BY <1>3, <1>11, <1>12, OneByOne
  <2>2. N \in T
    BY <1>3, <2>1
  <2> QED BY <2>2 DEF T
<1> DEFINE S == u[N]
<1>14. Good(s, S) /\ S.path = << >> /\ S.cycles = {} /\ \A k \in 1..N : o[k] \in S.visited
  BY <1>2, <1>13
<1> HIDE DEF S, Fine
<1>15. s.states \subseteq S.visited
  BY <1>3, <1>14
<1>16. Seqs!ToSet(<< >>) = {}
  BY DEF Seqs!ToSet
<1>17. s.states \subseteq Black(S)
  BY <1>14, <1>15, <1>16 DEF Black
<1> QED BY <1>14, <1>17 DEF Good, Settled, NoLoops

-----------------------------------------------------------------------------
(* The theorem.                                                           *)

LEMMA CyclesNoticed == CompInv => CyclesAreNoticed
<1> SUFFICES ASSUME CompInv, order # << >>, NEW q \in spec.states, NEW visits \in SUBSET spec.states, q \in visits,
                    \A v \in visits : \E w \in visits : w \in Neighbours(spec, v)
             PROVE  \E d \in report : d.rule = "cycle"
  BY Zenon DEF CyclesAreNoticed
<1>1. /\ spec \in SpecChoices /\ SpecIsSound(spec) /\ order \in Seqs!SetToSeqs(spec.states)
      /\ report = RunSafetyChecks(spec, order)
  BY DEF CompInv
<1>2. ~NoLoops(spec, spec.states)
  <2>1. \A v \in visits : Neighbours(spec, v) \cap visits # {}
    OBVIOUS
  <2> QED BY <2>1 DEF NoLoops
<1>3. FindTriggerCycles(spec, order) # {}
  BY <1>1, <1>2, NoneFound
<1>4. PICK c : c \in FindTriggerCycles(spec, order)
  BY <1>3
<1> QED BY <1>1, <1>4, CyclesAre

\* The rule of the highest priority that holds wins; a transition calls what the
\* specification asks for, within its ranges; dead ends, unreachable states,
\* cycles and conflicts are reported as they are (state_machine.rs,
\* crates/dsl-compiler): for any specifications and any order of the hash map.
THEOREM CompilerIsSound == CompilerSpec => []CompilerSound
<1>1. CompInv => CompilerSound
  BY PrioritiesHold, SpecIsRun, WarningsHold, CyclesNoticed, RangesHold, Warned DEF CompilerSound
<1> QED BY <1>1, CompInvAtFirst, CompInvKept, PTL DEF CompilerSpec
===============================================================================
