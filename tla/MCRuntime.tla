------------------------------ MODULE MCRuntime ------------------------------
(***************************************************************************)
(* The parts of the workflow runtime (crates/graph, crates/core, the lane  *)
(* and the record writer of the desktop shell) that share no state, side   *)
(* by side: each behaviour picks one part of Parts and runs it alone, with    *)
(* the scheduling of the code for that part.                               *)
(***************************************************************************)
EXTENDS DataPull, WorkflowVariables, HumanLoop, DispatchRouter, EdgeWindow, Telemetry,
        NodeIo

CONSTANTS Parts, c1, c2

VARIABLE part

MCParts == {"pull", "variables", "approval", "lane", "edge", "writer", "nodes"}

MCDataInEdges == [c \in {c1, c2} |-> IF c = c1 THEN <<"pure", "cached">> ELSE <<"pure">>]
MCPolicies ==
  [capacity : {0}, retries : {2}, initial : {6}, max : {0, 15}, strategy : {"block", "reject"}]

rtVars == <<part, pullVars, varVars, askVars, laneVars, edgeVars, telVars, ioVars>>

MCInit ==
  /\ part \in Parts
  /\ PullInit /\ VarInit /\ AskInit /\ LaneInit /\ EdgeInit /\ TelInit /\ IoInit
  /\ part # "approval" => setting = [timer |-> "none", default |-> CHOOSE d \in Defaults : TRUE]

MCNext ==
  \/ /\ part = "pull" /\ PullNext
     /\ UNCHANGED <<part, varVars, askVars, laneVars, edgeVars, telVars, ioVars>>
  \/ /\ part = "variables" /\ VarNext
     /\ UNCHANGED <<part, pullVars, askVars, laneVars, edgeVars, telVars, ioVars>>
  \/ /\ part = "approval" /\ AskNext
     /\ UNCHANGED <<part, pullVars, varVars, laneVars, edgeVars, telVars, ioVars>>
  \/ /\ part = "lane" /\ LaneNext
     /\ UNCHANGED <<part, pullVars, varVars, askVars, edgeVars, telVars, ioVars>>
  \/ /\ part = "edge" /\ EdgeNext
     /\ UNCHANGED <<part, pullVars, varVars, askVars, laneVars, telVars, ioVars>>
  \/ /\ part = "writer" /\ TelNext
     /\ UNCHANGED <<part, pullVars, varVars, askVars, laneVars, edgeVars, ioVars>>
  \/ /\ part = "nodes" /\ IoNext
     /\ UNCHANGED <<part, pullVars, varVars, askVars, laneVars, edgeVars, telVars>>

\* tokio runs every task that can go on; select! picks fairly between its
\* branches, so the variable branch of the proxy is taken again and again.
MCFairness ==
  /\ WF_pullVars(part = "pull" /\ TimePasses)
  /\ \A c \in {c1, c2} : WF_pullVars(part = "pull" /\ PullStep(c))
  /\ WF_varVars(part = "variables" /\ ProxyStep)
  /\ SF_varVars(part = "variables" /\ ProxyTakesVariable)
  /\ WF_varVars(part = "variables" /\ ForwardEvent)
  /\ WF_varVars(part = "variables" /\ (ForwardVariable \/ StoreVariable))
  /\ \A n \in Instances : WF_askVars(part = "approval" /\ AskStep(n))
  /\ WF_laneVars(part = "lane" /\ LaneStep)
  /\ WF_telVars(part = "writer" /\ FlusherReceives)
  /\ WF_telVars(part = "writer" /\ Tick)
  /\ WF_telVars(part = "writer" /\ FlusherFinishes)

MCSpec == MCInit /\ [][MCNext]_rtVars /\ MCFairness
-----------------------------------------------------------------------------
\* Every part comes to its end: a pull, the way of a change of a variable, an
\* approval with a timer, a submission in the hand of the lane, a record given to
\* the writer; the properties of the modules, for the behaviours that run them.
RuntimeAnswers ==
  /\ part = "pull" => PullEnds
  /\ part = "variables" => VariableEventsArrive
  /\ part = "approval" => TimedApprovalEnds
  /\ part = "lane" => LaneFreesHand
  /\ part = "writer" => RecordsReachTable
=============================================================================
