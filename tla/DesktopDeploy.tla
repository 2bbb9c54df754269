---------------------------- MODULE DesktopDeploy ----------------------------
(***************************************************************************)
(* The commands of the desktop shell that deploy, undeploy and select      *)
(* workflows (src-tauri commands workflow_deploy, workflow_undeploy,       *)
(* runtime): each is a task of its own that takes the lock of the map of   *)
(* workflows and the lock of the active id several times, never both.      *)
(*                                                                         *)
(* Every workflow uses one connection asset, named after it.               *)
(***************************************************************************)
EXTENDS Naturals, FiniteSets

CONSTANTS
  Workflows,     \* workflow ids
  Commands,      \* commands in flight at a time
  DeployBound    \* bound: deployments over the whole run

ASSUME DesktopDeployAssumption == DeployBound \in Nat /\ "none" \notin Workflows

VARIABLES
  shelf,      \* state.workflows: the deployment an id runs, by its number; 0: none
  activeWf,   \* state.active_workflow_id
  deployedAt, \* deployments started so far: deployed_at is taken first
  pool,       \* connection definitions of the manager
  lent,       \* connections in_use
  cached,     \* connections with a shared session
  ran,        \* workflows whose nodes have been started
  cmd,        \* what a command does, and the locals it carries along
  refused,    \* history: deployments whose definitions the manager skipped
  overlapped  \* history: which commands were in flight together: "deploys", "undeploy"

deskVars == <<shelf, activeWf, deployedAt, pool, lent, cached, ran, cmd, refused, overlapped>>

NoCommand == [kind |-> "none", at |-> "idle", wf |-> "none", number |-> 0, empty |-> FALSE, before |-> "none", fallback |-> "none"]
Deployed == {w \in Workflows : shelf[w] # 0}
Newest(S) == {w \in S : \A v \in S : shelf[v] <= shelf[w]}

Goto(c, label) == cmd' = [cmd EXCEPT ![c].at = label]
Begin(c, k) ==
  /\ cmd[c] = NoCommand /\ cmd' = [cmd EXCEPT ![c] = k]
  /\ LET others == {cmd[d].kind : d \in Commands \ {c}} \ {"none"}
         kinds  == others \cup {k.kind}
     IN overlapped' = overlapped \cup (IF others # {} /\ "undeploy" \in kinds THEN {"undeploy"} ELSE {})
                                 \cup (IF k.kind = "deploy" /\ "deploy" \in others THEN {"deploys"} ELSE {})
  /\ overlapped # {"deploys", "undeploy"} \* bound: nothing is promised after both
End(c) == cmd' = [cmd EXCEPT ![c] = NoCommand]

-----------------------------------------------------------------------------
(* deploy_workflow                                                         *)

RequestDeploy(c, w) ==
  /\ deployedAt < DeployBound /\ deployedAt' = deployedAt + 1
  /\ Begin(c, [NoCommand EXCEPT !.kind = "deploy", !.at = "resolved", !.wf = w, !.number = deployedAt + 1])
  /\ UNCHANGED <<shelf, activeWf, pool, lent, cached, ran, refused>>

\* The lock of the map is held for the test only.
TestWhetherEmpty(c) ==
  /\ cmd[c].at = "resolved"
  /\ cmd' = [cmd EXCEPT ![c].at = "apply", ![c].empty = (Deployed = {})]
  /\ UNCHANGED <<shelf, activeWf, deployedAt, pool, lent, cached, ran, refused, overlapped>>

\* Mutant: the definitions always replace those of the manager.
ApplyDefinitionsReplacing(c) ==
  /\ cmd[c].at = "apply" /\ Goto(c, "build")
  /\ pool' = IF lent \cup cached = {} THEN {cmd[c].wf} ELSE pool
  /\ refused' = IF lent \cup cached = {} THEN refused ELSE refused \cup {cmd[c].number}
  /\ UNCHANGED <<shelf, activeWf, deployedAt, lent, cached, ran, overlapped>>

\* replace_connections does nothing, and says Ok, when any connection is in
\* use; upsert_connections skips those in use.
ApplyDefinitions(c) ==
  /\ cmd[c].at = "apply" /\ Goto(c, "build")
  /\ LET skips == IF cmd[c].empty THEN lent \cup cached # {} ELSE cmd[c].wf \in lent \cup cached
     IN /\ pool' = IF skips THEN pool ELSE IF cmd[c].empty THEN {cmd[c].wf} ELSE pool \cup {cmd[c].wf}
        /\ refused' = IF skips THEN refused \cup {cmd[c].number} ELSE refused
  /\ UNCHANGED <<shelf, activeWf, deployedAt, lent, cached, ran, overlapped>>

\* deploy_workflow_graph or the dead-letter directory fails: the command ends,
\* the definitions stay.
BuildFails(c) ==
  /\ cmd[c].at = "build" /\ End(c)
  /\ UNCHANGED <<shelf, activeWf, deployedAt, pool, lent, cached, ran, refused, overlapped>>

\* The new deployment runs; the one it replaces leaves the map.
TakeExisting(c) ==
  /\ cmd[c].at = "build" /\ Goto(c, "shutdown")
  /\ shelf' = [shelf EXCEPT ![cmd[c].wf] = 0] /\ ran' = ran \cup {cmd[c].wf}
  /\ UNCHANGED <<activeWf, deployedAt, pool, lent, cached, refused, overlapped>>

\* After shutdown_runtime of the former deployment.
InsertWorkflow(c) ==
  /\ cmd[c].at = "shutdown" /\ Goto(c, "activate")
  /\ shelf' = [shelf EXCEPT ![cmd[c].wf] = cmd[c].number]
  /\ UNCHANGED <<activeWf, deployedAt, pool, lent, cached, ran, refused, overlapped>>

Activate(c) ==
  /\ cmd[c].at = "activate" /\ End(c)
  /\ activeWf' = cmd[c].wf
  /\ UNCHANGED <<shelf, deployedAt, pool, lent, cached, ran, refused, overlapped>>

-----------------------------------------------------------------------------
(* undeploy_workflow                                                       *)

\* resolve_workflow_id: a given id must be deployed, else the active id is meant.
ResolveId(c) ==
  /\ \E w \in Deployed \cup ({activeWf} \ {"none"}) : Begin(c, [NoCommand EXCEPT !.kind = "undeploy", !.at = "undeploy", !.wf = w])
  /\ UNCHANGED <<shelf, activeWf, deployedAt, pool, lent, cached, ran, refused>>

ReadActive(c) ==
  /\ cmd[c].at = "undeploy"
  /\ cmd' = [cmd EXCEPT ![c].at = "remove", ![c].before = activeWf]
  /\ UNCHANGED <<shelf, activeWf, deployedAt, pool, lent, cached, ran, refused, overlapped>>

RemoveWorkflow(c) ==
  /\ cmd[c].at = "remove" /\ Goto(c, "count")
  /\ shelf' = [shelf EXCEPT ![cmd[c].wf] = 0]
  /\ UNCHANGED <<activeWf, deployedAt, pool, lent, cached, ran, refused, overlapped>>

\* shutdown_runtime has ended; the workflows left are counted.
CountRemaining(c) ==
  /\ cmd[c].at = "count" /\ Goto(c, IF Deployed = {} THEN "idle all" ELSE "choose")
  /\ UNCHANGED <<shelf, activeWf, deployedAt, pool, lent, cached, ran, refused, overlapped>>

\* mark_all_idle ends the loans of all connections.
MarkAllIdle(c) ==
  /\ cmd[c].at = "idle all" /\ Goto(c, "choose")
  /\ lent' = {}
  /\ UNCHANGED <<shelf, activeWf, deployedAt, pool, cached, ran, refused, overlapped>>

\* Only for the workflow that was active when the command began.
ChooseFallback(c) ==
  /\ cmd[c].at = "choose"
  /\ IF cmd[c].before # cmd[c].wf THEN End(c)
     ELSE \E w \in IF Deployed = {} THEN {"none"} ELSE Newest(Deployed) :
            cmd' = [cmd EXCEPT ![c].at = "fall back", ![c].fallback = w]
  /\ UNCHANGED <<shelf, activeWf, deployedAt, pool, lent, cached, ran, refused, overlapped>>

FallBack(c) ==
  /\ cmd[c].at = "fall back" /\ End(c)
  /\ activeWf' = cmd[c].fallback
  /\ UNCHANGED <<shelf, deployedAt, pool, lent, cached, ran, refused, overlapped>>

-----------------------------------------------------------------------------
(* set_active_runtime_workflow: looked up under one lock, set under another. *)

LookUp(c) ==
  /\ \E w \in Deployed : Begin(c, [NoCommand EXCEPT !.kind = "select", !.at = "activate", !.wf = w])
  /\ UNCHANGED <<shelf, activeWf, deployedAt, pool, lent, cached, ran, refused>>

-----------------------------------------------------------------------------
(* The nodes of a deployment, which may work off their queues after its end. *)

NodeBorrows ==
  /\ \E w \in (pool \cap ran) \ (lent \cup cached) :
       \/ lent' = lent \cup {w} /\ UNCHANGED cached
       \/ cached' = cached \cup {w} /\ UNCHANGED lent
  /\ lent \cup cached = {} \* bound: one connection is busy at a time
  /\ UNCHANGED <<shelf, activeWf, deployedAt, pool, ran, cmd, refused, overlapped>>

NodeReleases ==
  /\ \E w \in lent \cup cached : lent' = lent \ {w} /\ cached' = cached \ {w}
  /\ UNCHANGED <<shelf, activeWf, deployedAt, pool, ran, cmd, refused, overlapped>>

-----------------------------------------------------------------------------
DeskInit ==
  /\ shelf = [w \in Workflows |-> 0] /\ activeWf = "none" /\ deployedAt = 0
  /\ pool = {} /\ lent = {} /\ cached = {} /\ ran = {} /\ refused = {} /\ overlapped = {}
  /\ cmd = [c \in Commands |-> NoCommand]

CommandStep(c) ==
  \/ TestWhetherEmpty(c) \/ ApplyDefinitions(c) \/ BuildFails(c) \/ TakeExisting(c) \/ InsertWorkflow(c) \/ Activate(c)
  \/ ReadActive(c) \/ RemoveWorkflow(c) \/ CountRemaining(c) \/ MarkAllIdle(c) \/ ChooseFallback(c) \/ FallBack(c)

DeskNext ==
  \/ \E c \in Commands : \/ \E w \in Workflows : RequestDeploy(c, w)
                         \/ ResolveId(c) \/ LookUp(c) \/ CommandStep(c)
  \/ NodeBorrows \/ NodeReleases

DeskSpec == DeskInit /\ [][DeskNext]_deskVars

-----------------------------------------------------------------------------
UndeploysAlone == "undeploy" \notin overlapped

\* As long as no undeployment overlaps with another command, the active
\* workflow is deployed whenever all commands have ended, and there is one as
\* long as any is.  (An undeployment that overlaps breaks this: the id is read,
\* chosen and written under different locks, workflow_undeploy.rs:71-131.)
ActiveFollowsCommands ==
  UndeploysAlone /\ (\A c \in Commands : cmd[c] = NoCommand)
    => IF Deployed = {} THEN activeWf = "none" ELSE activeWf \in Deployed

\* A deployment does not take away the connections of the workflows that run,
\* unless two deployments overlap and both find the map empty
\* (workflow_deploy.rs:143-163).
DeployedKeepConnections ==
  "deploys" \notin overlapped => \A w \in Deployed : w \in pool \/ shelf[w] \in refused

\* "replaces the whole pool with the given definitions" (manager/mod.rs:170): a
\* workflow that was deployed into an empty runtime has its connections.
DefinitionsAreInstalled ==
  overlapped = {} => \A w \in Deployed : w \in pool

\* Active workflow, deployed workflows and connection definitions agree.
ShellSound ==
  /\ ActiveFollowsCommands
  /\ DeployedKeepConnections
=============================================================================
