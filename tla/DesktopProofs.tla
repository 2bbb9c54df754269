---------------------------- MODULE DesktopProofs ----------------------------
(***************************************************************************)
(* Theorems about the desktop shell.  Its commands (DesktopDeploy): the    *)
(* active workflow, the deployed workflows and the connection definitions  *)
(* agree, for any workflows and any number of commands at a time.  The     *)
(* asset library (AssetLibrary): what an editor wrote stays, and what its  *)
(* lists promise is there, for any editors, texts, failures and restarts.  *)
(* What is left on disk (AppSession) is read back by the next run, for any *)
(* number of runs, of projects and of commands in flight.                  *)
(***************************************************************************)
EXTENDS WellFoundedInduction, SequenceTheorems, DesktopDeploy, AssetLibrary, AppSession, TLAPS

DeployLabels   == {"resolved", "apply", "build", "shutdown", "activate"}
UndeployLabels == {"undeploy", "remove", "count", "idle all", "choose", "fall back"}

\* What a command can be at; a deployment knows its workflow.
CommandTypes ==
  [kind : {"none", "deploy", "undeploy", "select"},
   at : DeployLabels \cup UndeployLabels \cup {"idle"},
   wf : Workflows \cup {"none"}, number : Nat, empty : BOOLEAN,
   before : Workflows \cup {"none"}, fallback : Workflows \cup {"none"}]

DeskTypes ==
  /\ shelf \in [Workflows -> Nat] /\ activeWf \in Workflows \cup {"none"} /\ deployedAt \in Nat
  /\ pool \subseteq Workflows /\ cmd \in [Commands -> CommandTypes]
  /\ \A c \in Commands :
       /\ cmd[c].kind = "none" => cmd[c] = NoCommand
       /\ cmd[c].kind = "deploy" => cmd[c].at \in DeployLabels /\ cmd[c].number > 0
       /\ cmd[c].kind = "select" => cmd[c].at = "activate"
       /\ cmd[c].kind = "undeploy" => cmd[c].at \in UndeployLabels
       /\ cmd[c].kind # "none" => cmd[c].wf \in Workflows

\* What the two history flags say of the commands in flight.
UndeployIsAlone ==
  UndeploysAlone => \A c, d \in Commands : cmd[c].kind = "undeploy" /\ c # d => cmd[d] = NoCommand
DeployIsAlone ==
  "deploys" \notin overlapped =>
    \A c, d \in Commands : cmd[c].kind = "deploy" /\ cmd[d].kind = "deploy" => c = d

\* A workflow that is deployed, or will be again when a command has replaced it.
Coming == Deployed \cup {cmd[c].wf : c \in {d \in Commands : cmd[d].at = "shutdown"}}
\* The active id fits the deployed workflows.
Fits(w) == IF Deployed = {} THEN w = "none" ELSE w \in Deployed

\* The active id between the steps of deployments and selections ...
ActiveWhileDeploying ==
  UndeploysAlone /\ (\A c \in Commands : cmd[c].kind # "undeploy") =>
    /\ activeWf = "none" \/ activeWf \in Coming
    /\ \A c \in Commands : cmd[c].at = "activate" => cmd[c].wf \in Coming
    /\ activeWf = "none" => Deployed = {} \/ \E c \in Commands : cmd[c].at = "activate"
\* ... and between those of an undeployment.
ActiveWhileUndeploying ==
  UndeploysAlone => \A c \in Commands : cmd[c].kind = "undeploy" =>
    /\ cmd[c].at \in {"undeploy", "remove"} => Fits(activeWf)
    /\ cmd[c].at # "undeploy" => cmd[c].before = activeWf
    /\ cmd[c].before # cmd[c].wf /\ cmd[c].at \in {"count", "idle all", "choose"} => Fits(activeWf)
    /\ cmd[c].at = "fall back" => Fits(cmd[c].fallback)

\* A deployment that replaces the definitions does so while nothing is
\* deployed, and has its definition after that, or was refused it.
DeployHasDefinition ==
  "deploys" \notin overlapped => \A c \in Commands : cmd[c].kind = "deploy" =>
    /\ cmd[c].at = "apply" /\ cmd[c].empty => Deployed = {}
    /\ cmd[c].at \in {"build", "shutdown"} => cmd[c].wf \in pool \/ cmd[c].number \in refused

DeskInv ==
  /\ DeskTypes /\ UndeployIsAlone /\ DeployIsAlone
  /\ ActiveWhileDeploying /\ ActiveWhileUndeploying
  /\ DeployHasDefinition /\ DeployedKeepConnections

\* A command goes on to its next label, or begins, or ends.
Becomes(c, k) == cmd'[c] = k /\ \A d \in Commands : d # c => cmd'[d] = cmd[d]

LEMMA Went ==
  ASSUME DeskTypes, NEW c \in Commands, NEW label, Goto(c, label)
  PROVE  /\ cmd'[c].at = label /\ cmd'[c].kind = cmd[c].kind /\ cmd'[c].wf = cmd[c].wf
         /\ cmd'[c].number = cmd[c].number /\ cmd'[c].empty = cmd[c].empty
         /\ cmd'[c].before = cmd[c].before /\ cmd'[c].fallback = cmd[c].fallback
         /\ \A d \in Commands : d # c => cmd'[d] = cmd[d]
         /\ label \in DeployLabels \cup UndeployLabels => cmd' \in [Commands -> CommandTypes]
<1>1. cmd[c] \in CommandTypes
  BY DEF DeskTypes
<1>2. cmd' = [cmd EXCEPT ![c] = [cmd[c] EXCEPT !.at = label]]
  BY DEF Goto
<1>3. cmd'[c] = [cmd[c] EXCEPT !.at = label]
  BY <1>2 DEF DeskTypes
<1>4. \A d \in Commands : d # c => cmd'[d] = cmd[d]
  BY <1>2 DEF DeskTypes
<1>5. cmd'[c] = [kind |-> cmd[c].kind, at |-> label, wf |-> cmd[c].wf, number |-> cmd[c].number,
                 empty |-> cmd[c].empty, before |-> cmd[c].before, fallback |-> cmd[c].fallback]
  BY <1>1, <1>3 DEF CommandTypes
<1>6. label \in DeployLabels \cup UndeployLabels => cmd'[c] \in CommandTypes
  BY <1>1, <1>5 DEF CommandTypes
<1> QED BY <1>2, <1>4, <1>5, <1>6 DEF DeskTypes

LEMMA Ended ==
  ASSUME DeskTypes, NEW c \in Commands, End(c)
  PROVE  /\ cmd' \in [Commands -> CommandTypes] /\ cmd'[c] = NoCommand
         /\ cmd'[c].kind = "none" /\ cmd'[c].at = "idle"
         /\ \A d \in Commands : d # c => cmd'[d] = cmd[d]
<1>1. NoCommand \in CommandTypes /\ NoCommand.kind = "none" /\ NoCommand.at = "idle"
  BY DEF NoCommand, CommandTypes, DeployLabels, UndeployLabels
<1> QED BY <1>1 DEF DeskTypes, End

\* A command that begins was not in flight; the flags note who else was.
LEMMA Begun ==
  ASSUME DeskTypes, NEW c \in Commands, NEW k \in CommandTypes, k.kind # "none", Begin(c, k)
  PROVE  /\ cmd' \in [Commands -> CommandTypes] /\ cmd'[c] = k /\ cmd[c] = NoCommand
         /\ \A d \in Commands : d # c => cmd'[d] = cmd[d]
         /\ overlapped \subseteq overlapped'
         /\ \A d \in Commands \ {c} :
              cmd[d] # NoCommand /\ (k.kind = "undeploy" \/ cmd[d].kind = "undeploy") =>
                "undeploy" \in overlapped'
         /\ \A d \in Commands \ {c} :
              k.kind = "deploy" /\ cmd[d].kind = "deploy" => "deploys" \in overlapped'
<1> DEFINE others == {cmd[d].kind : d \in Commands \ {c}} \ {"none"}
<1>1. /\ cmd[c] = NoCommand /\ cmd' = [cmd EXCEPT ![c] = k]
      /\ overlapped' = overlapped
           \cup (IF others # {} /\ "undeploy" \in others \cup {k.kind} THEN {"undeploy"} ELSE {})
           \cup (IF k.kind = "deploy" /\ "deploy" \in others THEN {"deploys"} ELSE {})
  BY DEF Begin
<1>2. \A d \in Commands \ {c} : cmd[d] # NoCommand => cmd[d].kind \in others
  BY DEF DeskTypes
<1>3. \A d \in Commands \ {c} : cmd[d].kind = "deploy" => "deploy" \in others
  OBVIOUS
<1>4. \A d \in Commands \ {c} : cmd[d] # NoCommand /\ (k.kind = "undeploy" \/ cmd[d].kind = "undeploy") =>
                                  others # {} /\ "undeploy" \in others \cup {k.kind}
  BY <1>2
<1> HIDE DEF others
<1> QED BY <1>1, <1>3, <1>4 DEF DeskTypes

\* The steps of a command that is in flight.
LEMMA Filled ==
  ASSUME NEW r \in CommandTypes, NEW a \in DeployLabels \cup UndeployLabels
  PROVE  \A w \in Workflows \cup {"none"} : [r EXCEPT !.at = a, !.fallback = w] \in CommandTypes
  BY DEF CommandTypes

LEMMA Blank ==
  /\ NoCommand \in CommandTypes
  /\ "fall back" \in DeployLabels \cup UndeployLabels
  BY DEF NoCommand, CommandTypes, DeployLabels, UndeployLabels

LEMMA CommandMoves ==
  ASSUME DeskTypes, NEW c \in Commands, CommandStep(c)
  PROVE  /\ DeskTypes' /\ overlapped' = overlapped
         /\ \A d \in Commands : d # c => cmd'[d] = cmd[d]
         /\ cmd[c].kind # "none"
         /\ \/ cmd'[c] = NoCommand
            \/ cmd'[c].kind = cmd[c].kind /\ cmd'[c].wf = cmd[c].wf /\ cmd'[c].number = cmd[c].number
<1>0. /\ shelf \in [Workflows -> Nat] /\ activeWf \in Workflows \cup {"none"} /\ deployedAt \in Nat
      /\ pool \subseteq Workflows /\ cmd[c] \in CommandTypes
      /\ cmd[c].kind \in {"none", "deploy", "undeploy", "select"}
      /\ cmd[c].number \in Nat /\ cmd[c].fallback \in Workflows \cup {"none"}
      /\ cmd[c].kind # "none" => cmd[c].wf \in Workflows
      /\ NoCommand.at = "idle" /\ NoCommand.kind = "none"
  BY DEF DeskTypes, CommandTypes, NoCommand
<1>1. ASSUME NEW label \in DeployLabels \cup UndeployLabels, Goto(c, label), overlapped' = overlapped,
             cmd[c].kind # "none",
             cmd[c].kind = "deploy" => label \in DeployLabels,
             cmd[c].kind = "select" => label = "activate",
             cmd[c].kind = "undeploy" => label \in UndeployLabels
      PROVE  /\ \A d \in Commands : d # c => cmd'[d] = cmd[d]
             /\ cmd'[c].kind = cmd[c].kind /\ cmd'[c].wf = cmd[c].wf /\ cmd'[c].number = cmd[c].number
             /\ cmd' \in [Commands -> CommandTypes]
             /\ \A d \in Commands :
                  /\ cmd'[d].kind = "none" => cmd'[d] = NoCommand
                  /\ cmd'[d].kind = "deploy" => cmd'[d].at \in DeployLabels /\ cmd'[d].number > 0
                  /\ cmd'[d].kind = "select" => cmd'[d].at = "activate"
                  /\ cmd'[d].kind = "undeploy" => cmd'[d].at \in UndeployLabels
                  /\ cmd'[d].kind # "none" => cmd'[d].wf \in Workflows
  BY <1>1, Went DEF DeskTypes
<1>2. ASSUME End(c)
      PROVE  /\ \A d \in Commands : d # c => cmd'[d] = cmd[d]
             /\ cmd'[c] = NoCommand
             /\ cmd' \in [Commands -> CommandTypes]
             /\ \A d \in Commands :
                  /\ cmd'[d].kind = "none" => cmd'[d] = NoCommand
                  /\ cmd'[d].kind = "deploy" => cmd'[d].at \in DeployLabels /\ cmd'[d].number > 0
                  /\ cmd'[d].kind = "select" => cmd'[d].at = "activate"
                  /\ cmd'[d].kind = "undeploy" => cmd'[d].at \in UndeployLabels
                  /\ cmd'[d].kind # "none" => cmd'[d].wf \in Workflows
  BY <1>2, Ended, SMTT(60) DEF DeskTypes
<1>3. CASE TestWhetherEmpty(c)
  <2>1. cmd[c].kind = "deploy"
    BY <1>0, <1>3 DEF TestWhetherEmpty, DeskTypes, DeployLabels, UndeployLabels
  <2>2. /\ cmd' = [cmd EXCEPT ![c] = [cmd[c] EXCEPT !.at = "apply", !.empty = (Deployed = {})]]
        /\ UNCHANGED <<shelf, activeWf, deployedAt, pool, overlapped>>
    BY <1>3 DEF TestWhetherEmpty, DeskTypes
  <2>3. PICK b \in BOOLEAN : b <=> Deployed = {}
    OBVIOUS
  <2>4. cmd'[c] = [kind |-> cmd[c].kind, at |-> "apply", wf |-> cmd[c].wf, number |-> cmd[c].number,
                   empty |-> (Deployed = {}), before |-> cmd[c].before, fallback |-> cmd[c].fallback]
    BY <1>0, <2>2 DEF DeskTypes, CommandTypes
  <2>5. cmd'[c] \in CommandTypes
    BY <1>0, <2>4 DEF CommandTypes, DeployLabels
  <2> QED BY <1>0, <2>1, <2>2, <2>4, <2>5 DEF DeskTypes, DeployLabels
<1>4. CASE ApplyDefinitions(c)
  <2>1. cmd[c].kind = "deploy" /\ Goto(c, "build") /\ UNCHANGED <<shelf, activeWf, deployedAt, overlapped>>
    BY <1>0, <1>4 DEF ApplyDefinitions, DeskTypes, DeployLabels, UndeployLabels
  <2>2. pool' \subseteq Workflows
    BY <1>0, <1>4, <2>1 DEF ApplyDefinitions
  <2> QED BY <1>0, <1>1, <2>1, <2>2 DEF DeskTypes, DeployLabels
<1>5. CASE BuildFails(c)
  BY <1>0, <1>2, <1>5 DEF BuildFails, DeskTypes
<1>6. CASE TakeExisting(c)
  <2>1. cmd[c].kind = "deploy" /\ Goto(c, "shutdown") /\ UNCHANGED <<activeWf, deployedAt, pool, overlapped>>
    BY <1>0, <1>6 DEF TakeExisting, DeskTypes, DeployLabels, UndeployLabels
  <2>2. shelf' \in [Workflows -> Nat]
    BY <1>0, <1>6 DEF TakeExisting
  <2> QED BY <1>0, <1>1, <2>1, <2>2 DEF DeskTypes, DeployLabels
<1>7. CASE InsertWorkflow(c)
  <2>1. cmd[c].kind = "deploy" /\ Goto(c, "activate") /\ UNCHANGED <<activeWf, deployedAt, pool, overlapped>>
    BY <1>0, <1>7 DEF InsertWorkflow, DeskTypes, DeployLabels, UndeployLabels
  <2>2. shelf' \in [Workflows -> Nat]
    BY <1>0, <1>7 DEF InsertWorkflow
  <2> QED BY <1>0, <1>1, <2>1, <2>2 DEF DeskTypes, DeployLabels
<1>8. CASE Activate(c)
  <2>1. cmd[c].kind # "none"
    BY <1>0, <1>8 DEF Activate, DeskTypes
  <2> QED BY <1>0, <1>2, <1>8, <2>1 DEF Activate, DeskTypes
<1>9. CASE ReadActive(c)
  <2>1. cmd[c].kind = "undeploy"
    BY <1>0, <1>9 DEF ReadActive, DeskTypes, DeployLabels, UndeployLabels
  <2>2. /\ cmd' = [cmd EXCEPT ![c] = [cmd[c] EXCEPT !.at = "remove", !.before = activeWf]]
        /\ UNCHANGED <<shelf, activeWf, deployedAt, pool, overlapped>>
    BY <1>9 DEF ReadActive, DeskTypes
  <2>4. cmd'[c] = [kind |-> cmd[c].kind, at |-> "remove", wf |-> cmd[c].wf, number |-> cmd[c].number,
                   empty |-> cmd[c].empty, before |-> activeWf, fallback |-> cmd[c].fallback]
    BY <1>0, <2>2 DEF DeskTypes, CommandTypes
  <2>5. cmd'[c] \in CommandTypes
    <3>1. PICK l \in DeployLabels \cup UndeployLabels : l = "remove"
      BY DEF UndeployLabels
    <3> QED BY <1>0, <2>4, <3>1 DEF CommandTypes
  <2> QED BY <1>0, <2>1, <2>2, <2>4, <2>5 DEF DeskTypes, UndeployLabels
<1>10. CASE RemoveWorkflow(c)
  <2>1. cmd[c].kind = "undeploy" /\ Goto(c, "count") /\ UNCHANGED <<activeWf, deployedAt, pool, overlapped>>
    BY <1>0, <1>10 DEF RemoveWorkflow, DeskTypes, DeployLabels, UndeployLabels
  <2>2. shelf' \in [Workflows -> Nat]
    BY <1>0, <1>10 DEF RemoveWorkflow
  <2> QED BY <1>0, <1>1, <2>1, <2>2 DEF DeskTypes, UndeployLabels
<1>11. CASE CountRemaining(c)
  <2>1. PICK label \in {"idle all", "choose"} : Goto(c, label)
    BY <1>11 DEF CountRemaining
  <2>2. cmd[c].kind = "undeploy" /\ UNCHANGED <<shelf, activeWf, deployedAt, pool, overlapped>>
    BY <1>0, <1>11 DEF CountRemaining, DeskTypes, DeployLabels, UndeployLabels
  <2> QED BY <1>0, <1>1, <2>1, <2>2 DEF DeskTypes, UndeployLabels
<1>12. CASE MarkAllIdle(c)
  <2>1. cmd[c].kind = "undeploy" /\ Goto(c, "choose") /\ UNCHANGED <<shelf, activeWf, deployedAt, pool, overlapped>>
    BY <1>0, <1>12 DEF MarkAllIdle, DeskTypes, DeployLabels, UndeployLabels
  <2> QED BY <1>0, <1>1, <2>1 DEF DeskTypes, UndeployLabels
<1>13. CASE ChooseFallback(c)
  <2>1. cmd[c].kind = "undeploy" /\ UNCHANGED <<shelf, activeWf, deployedAt, pool, overlapped>>
    BY <1>0, <1>13 DEF ChooseFallback, DeskTypes, DeployLabels, UndeployLabels
  <2>2. CASE End(c)
    BY <1>0, <1>2, <2>1, <2>2 DEF DeskTypes
  <2>3. CASE ~End(c)
    <3>1. PICK w \in Workflows \cup {"none"} :
            cmd' = [cmd EXCEPT ![c] = [cmd[c] EXCEPT !.at = "fall back", !.fallback = w]]
      BY <1>13, <2>3 DEF ChooseFallback, Newest, Deployed, DeskTypes
    <3>2. cmd'[c] = [kind |-> cmd[c].kind, at |-> "fall back", wf |-> cmd[c].wf, number |-> cmd[c].number,
                     empty |-> cmd[c].empty, before |-> cmd[c].before, fallback |-> w]
      BY <1>0, <3>1 DEF DeskTypes, CommandTypes
    <3>3. w \in Workflows \cup {"none"}
      BY <3>1
    <3>4. cmd'[c] \in CommandTypes
      <4>1. cmd'[c] = [cmd[c] EXCEPT !.at = "fall back", !.fallback = w]
        BY <3>1 DEF DeskTypes
      <4>2. \A v \in Workflows \cup {"none"} :
              [cmd[c] EXCEPT !.at = "fall back", !.fallback = v] \in CommandTypes
        BY <1>0, Filled, Blank
      <4> QED BY <3>3, <4>1, <4>2
    <3> QED BY <1>0, <2>1, <3>1, <3>2, <3>4 DEF DeskTypes, UndeployLabels
  <2> QED BY <2>2, <2>3
<1>14. CASE FallBack(c)
  BY <1>0, <1>2, <1>14 DEF FallBack, DeskTypes
<1> QED BY <1>3, <1>4, <1>5, <1>6, <1>7, <1>8, <1>9, <1>10, <1>11, <1>12, <1>13, <1>14 DEF CommandStep

\* What a command begins with.
LEMMA NewDeployment ==
  ASSUME DeskTypes, NEW c \in Commands, NEW w \in Workflows, RequestDeploy(c, w)
  PROVE  \E k \in CommandTypes : /\ k.kind = "deploy" /\ k.at = "resolved" /\ k.wf = w /\ k.number > 0
                                 /\ Begin(c, k)
<1>1. PICK k : k = [NoCommand EXCEPT !.kind = "deploy", !.at = "resolved", !.wf = w, !.number = deployedAt + 1]
  OBVIOUS
<1>2. k \in CommandTypes
  <2>1. PICK r \in CommandTypes, a \in DeployLabels : r = NoCommand /\ a = "resolved"
    BY Blank DEF DeployLabels
  <2>2. PICK n \in Nat : n = deployedAt + 1
    BY DEF DeskTypes
  <2>3. k = [r EXCEPT !.kind = "deploy", !.at = a, !.wf = w, !.number = n]
    BY <1>1, <2>1, <2>2
  <2> QED BY <2>3 DEF CommandTypes
<1>3. k.kind = "deploy" /\ k.at = "resolved" /\ k.wf = w /\ k.number = deployedAt + 1
  BY <1>1 DEF NoCommand
<1>4. Begin(c, k)
  BY <1>1 DEF RequestDeploy
<1> QED BY <1>2, <1>3, <1>4 DEF DeskTypes

LEMMA NewUndeployment ==
  ASSUME DeskTypes, NEW c \in Commands, ResolveId(c)
  PROVE  \E k \in CommandTypes : /\ k.kind = "undeploy" /\ k.at = "undeploy" /\ k.wf \in Workflows
                                 /\ Begin(c, k)
<1>0. PICK w \in Deployed \cup ({activeWf} \ {"none"}) :
        Begin(c, [NoCommand EXCEPT !.kind = "undeploy", !.at = "undeploy", !.wf = w])
  BY DEF ResolveId
<1>1. PICK k : k = [NoCommand EXCEPT !.kind = "undeploy", !.at = "undeploy", !.wf = w]
  OBVIOUS
<1>2. w \in Workflows
  BY DEF Deployed, DeskTypes
<1>3. k \in CommandTypes
  <2>1. PICK r \in CommandTypes, a \in UndeployLabels : r = NoCommand /\ a = "undeploy"
    BY Blank DEF UndeployLabels
  <2>2. k = [r EXCEPT !.kind = "undeploy", !.at = a, !.wf = w]
    BY <1>1, <2>1
  <2> QED BY <1>2, <2>2 DEF CommandTypes
<1>4. k.kind = "undeploy" /\ k.at = "undeploy" /\ k.wf = w
  BY <1>1 DEF NoCommand
<1> QED BY <1>0, <1>1, <1>2, <1>3, <1>4

LEMMA NewSelection ==
  ASSUME DeskTypes, NEW c \in Commands, LookUp(c)
  PROVE  \E k \in CommandTypes : /\ k.kind = "select" /\ k.at = "activate" /\ k.wf \in Workflows
                                 /\ k.wf \in Deployed /\ Begin(c, k)
<1>0. PICK w \in Deployed :
        Begin(c, [NoCommand EXCEPT !.kind = "select", !.at = "activate", !.wf = w])
  BY DEF LookUp
<1>1. PICK k : k = [NoCommand EXCEPT !.kind = "select", !.at = "activate", !.wf = w]
  OBVIOUS
<1>2. w \in Workflows
  BY DEF Deployed
<1>3. k \in CommandTypes
  <2>1. PICK r \in CommandTypes, a \in DeployLabels : r = NoCommand /\ a = "activate"
    BY Blank DEF DeployLabels
  <2>2. k = [r EXCEPT !.kind = "select", !.at = a, !.wf = w]
    BY <1>1, <2>1
  <2> QED BY <1>2, <2>2 DEF CommandTypes
<1>4. k.kind = "select" /\ k.at = "activate" /\ k.wf = w
  BY <1>1 DEF NoCommand
<1> QED BY <1>0, <1>1, <1>2, <1>3, <1>4

\* Types after any step.
LEMMA DeskTypesKept ==
  ASSUME DeskTypes, [DeskNext]_deskVars
  PROVE  DeskTypes'
<1>1. CASE \E c \in Commands : CommandStep(c)
  BY <1>1, CommandMoves
<1>2. CASE \E c \in Commands, w \in Workflows : RequestDeploy(c, w)
  <2>1. PICK c \in Commands, w \in Workflows : RequestDeploy(c, w)
    BY <1>2
  <2>2. PICK k \in CommandTypes :
          k.kind = "deploy" /\ k.at = "resolved" /\ k.wf = w /\ k.number > 0 /\ Begin(c, k)
    BY <2>1, NewDeployment
  <2>3. UNCHANGED <<shelf, activeWf, pool>> /\ deployedAt' \in Nat
    BY <2>1 DEF RequestDeploy, DeskTypes
  <2>4. /\ cmd' \in [Commands -> CommandTypes] /\ cmd'[c] = k
        /\ \A d \in Commands : d # c => cmd'[d] = cmd[d]
    BY <2>2, Begun
  <2> QED BY <2>2, <2>3, <2>4 DEF DeskTypes, DeployLabels
<1>3. CASE \E c \in Commands : ResolveId(c)
  <2>1. PICK c \in Commands : ResolveId(c)
    BY <1>3
  <2>2. PICK k \in CommandTypes :
          k.kind = "undeploy" /\ k.at = "undeploy" /\ k.wf \in Workflows /\ Begin(c, k)
    BY <2>1, NewUndeployment
  <2>3. UNCHANGED <<shelf, activeWf, pool, deployedAt>>
    BY <2>1 DEF ResolveId
  <2>4. /\ cmd' \in [Commands -> CommandTypes] /\ cmd'[c] = k
        /\ \A d \in Commands : d # c => cmd'[d] = cmd[d]
    BY <2>2, Begun
  <2> QED BY <2>2, <2>3, <2>4 DEF DeskTypes, UndeployLabels
<1>4. CASE \E c \in Commands : LookUp(c)
  <2>1. PICK c \in Commands : LookUp(c)
    BY <1>4
  <2>2. PICK k \in CommandTypes :
          k.kind = "select" /\ k.at = "activate" /\ k.wf \in Workflows /\ Begin(c, k)
    BY <2>1, NewSelection
  <2>3. UNCHANGED <<shelf, activeWf, pool, deployedAt>>
    BY <2>1 DEF LookUp
  <2>4. /\ cmd' \in [Commands -> CommandTypes] /\ cmd'[c] = k
        /\ \A d \in Commands : d # c => cmd'[d] = cmd[d]
    BY <2>2, Begun
  <2> QED BY <2>2, <2>3, <2>4 DEF DeskTypes
<1>5. CASE NodeBorrows \/ NodeReleases \/ UNCHANGED deskVars
  BY <1>5 DEF NodeBorrows, NodeReleases, deskVars, DeskTypes
<1> QED BY <1>1, <1>2, <1>3, <1>4, <1>5 DEF DeskNext

\* The two flags.
LEMMA FlagsKept ==
  ASSUME DeskTypes, UndeployIsAlone, DeployIsAlone, [DeskNext]_deskVars
  PROVE  UndeployIsAlone' /\ DeployIsAlone'
<1>0. NoCommand.kind = "none"
  BY DEF NoCommand
<1>1. CASE \E c \in Commands : CommandStep(c)
  <2>1. PICK c \in Commands : CommandStep(c)
    BY <1>1
  <2>2. /\ overlapped' = overlapped /\ cmd[c].kind # "none"
        /\ \A d \in Commands : d # c => cmd'[d] = cmd[d]
        /\ cmd'[c] = NoCommand \/ cmd'[c].kind = cmd[c].kind
    BY <2>1, CommandMoves
  <2> QED BY <1>0, <2>2 DEF UndeployIsAlone, DeployIsAlone, UndeploysAlone
<1>2. ASSUME NEW c \in Commands, NEW k \in CommandTypes, k.kind # "none", Begin(c, k)
      PROVE  UndeployIsAlone' /\ DeployIsAlone'
  <2>1. /\ cmd'[c] = k /\ cmd[c] = NoCommand
        /\ \A d \in Commands : d # c => cmd'[d] = cmd[d]
        /\ overlapped \subseteq overlapped'
        /\ \A d \in Commands \ {c} :
             cmd[d] # NoCommand /\ (k.kind = "undeploy" \/ cmd[d].kind = "undeploy") =>
               "undeploy" \in overlapped'
        /\ \A d \in Commands \ {c} :
             k.kind = "deploy" /\ cmd[d].kind = "deploy" => "deploys" \in overlapped'
    BY <1>2, Begun
  <2>2. UndeployIsAlone'
    BY <1>0, <2>1 DEF UndeployIsAlone, UndeploysAlone
  <2>3. DeployIsAlone'
    BY <1>0, <2>1 DEF DeployIsAlone
  <2> QED BY <2>2, <2>3
<1>3. CASE \E c \in Commands, w \in Workflows : RequestDeploy(c, w)
  BY <1>2, <1>3, NewDeployment
<1>4. CASE \E c \in Commands : ResolveId(c)
  BY <1>2, <1>4, NewUndeployment
<1>5. CASE \E c \in Commands : LookUp(c)
  BY <1>2, <1>5, NewSelection
<1>6. CASE NodeBorrows \/ NodeReleases \/ UNCHANGED deskVars
  BY <1>6 DEF NodeBorrows, NodeReleases, deskVars, UndeployIsAlone, DeployIsAlone, UndeploysAlone
<1> QED BY <1>1, <1>3, <1>4, <1>5, <1>6 DEF DeskNext

\* Deployments and selections leave an active id that is deployed or will be
\* again; nothing is undeployed meanwhile.
LEMMA DeployingKeeps ==
  ASSUME DeskTypes, DeskTypes', UndeployIsAlone, ActiveWhileDeploying, UndeploysAlone,
         NEW c \in Commands, CommandStep(c), cmd[c].kind # "undeploy"
  PROVE  ActiveWhileDeploying' /\ ActiveWhileUndeploying'
<1>0. /\ overlapped' = overlapped /\ \A d \in Commands : d # c => cmd'[d] = cmd[d]
      /\ cmd[c].kind \in {"deploy", "select"} /\ cmd[c].wf \in Workflows
      /\ cmd'[c] = NoCommand \/ (cmd'[c].kind = cmd[c].kind /\ cmd'[c].wf = cmd[c].wf)
      /\ NoCommand.kind = "none" /\ NoCommand.at = "idle"
      /\ cmd[c].kind = "deploy" => cmd[c].number > 0
  BY CommandMoves DEF DeskTypes, CommandTypes, NoCommand
<1>1. \A d \in Commands : cmd[d].kind # "undeploy" /\ cmd'[d].kind # "undeploy"
  BY <1>0 DEF UndeployIsAlone
<1>2. /\ activeWf = "none" \/ activeWf \in Coming
      /\ \A d \in Commands : cmd[d].at = "activate" => cmd[d].wf \in Coming
      /\ activeWf = "none" => Deployed = {} \/ \E d \in Commands : cmd[d].at = "activate"
  BY <1>1 DEF ActiveWhileDeploying
<1>3. ActiveWhileUndeploying'
  BY <1>1 DEF ActiveWhileUndeploying
<1>4. ASSUME activeWf' = "none" \/ activeWf' \in Coming',
             \A d \in Commands : cmd'[d].at = "activate" => cmd'[d].wf \in Coming',
             activeWf' = "none" => Deployed' = {} \/ \E d \in Commands : cmd'[d].at = "activate"
      PROVE  ActiveWhileDeploying' /\ ActiveWhileUndeploying'
  BY <1>3, <1>4 DEF ActiveWhileDeploying
<1>5. ASSUME UNCHANGED <<shelf, activeWf>>, cmd[c].at \notin {"shutdown", "activate"},
             cmd'[c].at \notin {"shutdown", "activate"}
      PROVE  ActiveWhileDeploying' /\ ActiveWhileUndeploying'
  <2>1. Deployed' = Deployed /\ Coming' = Coming
    BY <1>0, <1>5 DEF Deployed, Coming
  <2> QED BY <1>0, <1>2, <1>4, <1>5, <2>1
<1>6. CASE TestWhetherEmpty(c)
  <2>1. cmd'[c].at = "apply" /\ UNCHANGED <<shelf, activeWf>> /\ cmd[c].at = "resolved"
    BY <1>6 DEF TestWhetherEmpty, DeskTypes, CommandTypes
  <2> QED BY <1>5, <2>1
<1>7. CASE ApplyDefinitions(c)
  BY <1>5, <1>7, Went DEF ApplyDefinitions
<1>8. CASE BuildFails(c)
  BY <1>5, <1>8, Ended DEF BuildFails
<1>9. CASE TakeExisting(c)
  <2>1. /\ cmd[c].at = "build" /\ cmd'[c].at = "shutdown" /\ cmd'[c].wf = cmd[c].wf
        /\ shelf' = [shelf EXCEPT ![cmd[c].wf] = 0] /\ activeWf' = activeWf
    BY <1>9, Went DEF TakeExisting
  <2>2. Deployed' \subseteq Deployed /\ \A w \in Deployed : w # cmd[c].wf => w \in Deployed'
    BY <2>1 DEF Deployed, DeskTypes
  <2>3. Coming \subseteq Coming'
    <3>1. cmd[c].wf \in Coming'
      BY <2>1 DEF Coming
    <3> QED BY <1>0, <2>1, <2>2, <3>1 DEF Coming
  <2> QED BY <1>0, <1>2, <1>4, <2>1, <2>2, <2>3
<1>10. CASE InsertWorkflow(c)
  <2>1. /\ cmd[c].at = "shutdown" /\ cmd'[c].at = "activate" /\ cmd'[c].wf = cmd[c].wf
        /\ shelf' = [shelf EXCEPT ![cmd[c].wf] = cmd[c].number] /\ activeWf' = activeWf
    BY <1>10, Went DEF InsertWorkflow
  <2>2. Deployed' = Deployed \cup {cmd[c].wf}
    <3>1. cmd[c].number > 0
      BY <1>0, <2>1 DEF DeskTypes
    <3> QED BY <1>0, <2>1, <3>1 DEF Deployed, DeskTypes
  <2>3. Coming \subseteq Coming' /\ cmd[c].wf \in Coming'
    BY <1>0, <2>1, <2>2 DEF Coming
  <2> QED BY <1>0, <1>2, <1>4, <2>1, <2>2, <2>3
<1>11. CASE Activate(c)
  <2>1. /\ cmd[c].at = "activate" /\ activeWf' = cmd[c].wf /\ shelf' = shelf /\ cmd'[c].at = "idle"
    BY <1>11, Ended DEF Activate
  <2>2. Coming' = Coming /\ Deployed' = Deployed
    BY <1>0, <2>1 DEF Coming, Deployed
  <2>3. activeWf' # "none"
    BY <1>0, <2>1, DesktopDeployAssumption
  <2> QED BY <1>0, <1>2, <1>4, <2>1, <2>2, <2>3
<1>12. cmd[c].at \in DeployLabels
  BY <1>0 DEF DeskTypes, DeployLabels
<1>13. ~(ReadActive(c) \/ RemoveWorkflow(c) \/ CountRemaining(c) \/ MarkAllIdle(c) \/ ChooseFallback(c) \/ FallBack(c))
  BY <1>12 DEF DeployLabels, ReadActive, RemoveWorkflow, CountRemaining, MarkAllIdle, ChooseFallback, FallBack
<1> QED BY <1>6, <1>7, <1>8, <1>9, <1>10, <1>11, <1>13 DEF CommandStep

\* An undeployment, alone, leaves an active id that is deployed.
LEMMA UndeployingKeeps ==
  ASSUME DeskTypes, DeskTypes', UndeployIsAlone, ActiveWhileUndeploying, UndeploysAlone,
         NEW c \in Commands, CommandStep(c), cmd[c].kind = "undeploy"
  PROVE  ActiveWhileDeploying' /\ ActiveWhileUndeploying'
<1>0. /\ overlapped' = overlapped /\ cmd[c].wf \in Workflows
      /\ cmd[c].at \in UndeployLabels
      /\ \A d \in Commands : d # c => cmd'[d] = cmd[d] /\ cmd[d] = NoCommand
      /\ cmd'[c] = NoCommand \/ (cmd'[c].kind = "undeploy" /\ cmd'[c].wf = cmd[c].wf)
      /\ NoCommand.kind = "none" /\ NoCommand.at = "idle"
  BY CommandMoves DEF DeskTypes, CommandTypes, NoCommand, UndeployIsAlone
<1>1. /\ cmd[c].at \in {"undeploy", "remove"} => Fits(activeWf)
      /\ cmd[c].at # "undeploy" => cmd[c].before = activeWf
      /\ cmd[c].before # cmd[c].wf /\ cmd[c].at \in {"count", "idle all", "choose"} => Fits(activeWf)
      /\ cmd[c].at = "fall back" => Fits(cmd[c].fallback)
  BY DEF ActiveWhileUndeploying
<1>2. ASSUME cmd'[c] = NoCommand, Fits(activeWf)'
      PROVE  ActiveWhileDeploying' /\ ActiveWhileUndeploying'
  <2>1. \A d \in Commands : cmd'[d] = NoCommand
    BY <1>0, <1>2
  <2>2. ActiveWhileUndeploying'
    BY <1>0, <2>1 DEF ActiveWhileUndeploying
  <2>3. ActiveWhileDeploying'
    <3>1. \A d \in Commands : cmd'[d].at # "activate" /\ cmd'[d].kind # "undeploy"
      BY <1>0, <2>1
    <3>2. IF Deployed' = {} THEN activeWf' = "none" ELSE activeWf' \in Deployed' /\ activeWf' \in Workflows
      BY <1>2 DEF Fits, Deployed
    <3>3. activeWf' = "none" \/ activeWf' \in Coming'
      BY <3>2 DEF Coming
    <3>4. activeWf' = "none" => Deployed' = {}
      BY <3>2, DesktopDeployAssumption
    <3> QED BY <3>1, <3>3, <3>4 DEF ActiveWhileDeploying
  <2> QED BY <2>2, <2>3
<1>3. ASSUME cmd'[c].kind = "undeploy",
             cmd'[c].at \in {"undeploy", "remove"} => Fits(activeWf)',
             cmd'[c].at # "undeploy" => cmd'[c].before = activeWf',
             cmd'[c].before # cmd'[c].wf /\ cmd'[c].at \in {"count", "idle all", "choose"} => Fits(activeWf)',
             cmd'[c].at = "fall back" => Fits(cmd[c].fallback)'
      PROVE  ActiveWhileDeploying' /\ ActiveWhileUndeploying'
  <2>2. ActiveWhileUndeploying'
    BY <1>0, <1>3 DEF ActiveWhileUndeploying
  <2>3. ActiveWhileDeploying'
    BY <1>3 DEF ActiveWhileDeploying
  <2> QED BY <2>2, <2>3
<1>4. shelf' = shelf => Deployed' = Deployed
  BY DEF Deployed
<1>5. shelf' = shelf /\ activeWf' = activeWf => (Fits(activeWf)' <=> Fits(activeWf))
  BY <1>4 DEF Fits
<1>6. CASE ReadActive(c)
  <2>1. /\ cmd[c].at = "undeploy" /\ cmd'[c].at = "remove" /\ cmd'[c].before = activeWf
        /\ cmd'[c].kind = "undeploy" /\ shelf' = shelf /\ activeWf' = activeWf
    BY <1>6 DEF ReadActive, DeskTypes, CommandTypes
  <2> QED BY <1>1, <1>3, <1>5, <2>1
<1>7. CASE RemoveWorkflow(c)
  <2>1. /\ cmd[c].at = "remove" /\ cmd'[c].at = "count" /\ cmd'[c].before = cmd[c].before
        /\ cmd'[c].kind = "undeploy" /\ cmd'[c].wf = cmd[c].wf
        /\ shelf' = [shelf EXCEPT ![cmd[c].wf] = 0] /\ activeWf' = activeWf
    BY <1>7, Went DEF RemoveWorkflow
  <2>2. Deployed' = Deployed \ {cmd[c].wf}
    BY <2>1 DEF Deployed, DeskTypes
  <2>3. cmd[c].before # cmd[c].wf => Fits(activeWf)'
    BY <1>1, <2>1, <2>2 DEF Fits
  <2> QED BY <1>1, <1>3, <2>1, <2>3
<1>8. CASE CountRemaining(c)
  <2>1. PICK label \in {"idle all", "choose"} : Goto(c, label)
    BY <1>8 DEF CountRemaining
  <2>2. /\ cmd[c].at = "count" /\ cmd'[c].at \in {"idle all", "choose"} /\ cmd'[c].before = cmd[c].before
        /\ cmd'[c].kind = "undeploy" /\ cmd'[c].wf = cmd[c].wf /\ shelf' = shelf /\ activeWf' = activeWf
    BY <1>8, <2>1, Went DEF CountRemaining
  <2> QED BY <1>1, <1>3, <1>5, <2>2
<1>9. CASE MarkAllIdle(c)
  <2>1. /\ cmd[c].at = "idle all" /\ cmd'[c].at = "choose" /\ cmd'[c].before = cmd[c].before
        /\ cmd'[c].kind = "undeploy" /\ cmd'[c].wf = cmd[c].wf /\ shelf' = shelf /\ activeWf' = activeWf
    BY <1>9, Went DEF MarkAllIdle
  <2> QED BY <1>1, <1>3, <1>5, <2>1
<1>10. CASE ChooseFallback(c)
  <2>1. cmd[c].at = "choose" /\ shelf' = shelf /\ activeWf' = activeWf
    BY <1>10 DEF ChooseFallback
  <2>2. CASE cmd[c].before # cmd[c].wf
    BY <1>1, <1>2, <1>5, <1>10, <2>1, <2>2, Ended DEF ChooseFallback
  <2>3. CASE cmd[c].before = cmd[c].wf
    <3>1. PICK w \in IF Deployed = {} THEN {"none"} ELSE Newest(Deployed) :
            cmd' = [cmd EXCEPT ![c].at = "fall back", ![c].fallback = w]
      BY <1>10, <2>3 DEF ChooseFallback
    <3>2. /\ cmd'[c].at = "fall back" /\ cmd'[c].fallback = w /\ cmd'[c].before = cmd[c].before
          /\ cmd'[c].kind = "undeploy"
      <4>1. cmd'[c] = [cmd[c] EXCEPT !.at = "fall back", !.fallback = w]
        BY <3>1 DEF DeskTypes
      <4> QED BY <4>1 DEF DeskTypes, CommandTypes
    <3>3. w \in IF Deployed' = {} THEN {"none"} ELSE Deployed'
      BY <1>4, <2>1, <3>1 DEF Newest
    <3>4. ActiveWhileUndeploying'
      BY <1>0, <1>1, <2>1, <3>2, <3>3 DEF ActiveWhileUndeploying, Fits
    <3>5. ActiveWhileDeploying'
      BY <3>2 DEF ActiveWhileDeploying
    <3> QED BY <3>4, <3>5
  <2> QED BY <2>2, <2>3
<1>11. CASE FallBack(c)
  <2>1. cmd[c].at = "fall back" /\ shelf' = shelf /\ activeWf' = cmd[c].fallback /\ cmd'[c] = NoCommand
    BY <1>11, Ended DEF FallBack
  <2>2. Fits(activeWf)'
    BY <1>1, <1>4, <2>1 DEF Fits
  <2> QED BY <1>2, <2>1, <2>2
<1>12. ~(TestWhetherEmpty(c) \/ ApplyDefinitions(c) \/ BuildFails(c) \/ TakeExisting(c)
         \/ InsertWorkflow(c) \/ Activate(c))
  BY <1>0 DEF UndeployLabels, TestWhetherEmpty, ApplyDefinitions, BuildFails, TakeExisting, InsertWorkflow, Activate
<1> QED BY <1>6, <1>7, <1>8, <1>9, <1>10, <1>11, <1>12 DEF CommandStep

\* What a command begins with is as the active id was.
LEMMA ActiveKept ==
  ASSUME DeskTypes, UndeployIsAlone, ActiveWhileDeploying, ActiveWhileUndeploying, [DeskNext]_deskVars
  PROVE  ActiveWhileDeploying' /\ ActiveWhileUndeploying'
<1>0. NoCommand.kind = "none" /\ NoCommand.at = "idle" /\ DeskTypes'
  BY DeskTypesKept DEF NoCommand
<1> SUFFICES ASSUME UndeploysAlone' PROVE ActiveWhileDeploying' /\ ActiveWhileUndeploying'
  BY DEF ActiveWhileDeploying, ActiveWhileUndeploying
<1>1. CASE \E c \in Commands : CommandStep(c)
  <2>1. PICK c \in Commands : CommandStep(c)
    BY <1>1
  <2>2. UndeploysAlone
    BY <2>1, CommandMoves DEF UndeploysAlone
  <2> QED BY <1>0, <2>1, <2>2, DeployingKeeps, UndeployingKeeps
<1>2. ASSUME NEW c \in Commands, NEW k \in CommandTypes, k.kind # "none", Begin(c, k)
      PROVE  /\ UndeploysAlone /\ cmd'[c] = k /\ cmd[c] = NoCommand
             /\ \A d \in Commands : d # c => cmd'[d] = cmd[d]
             /\ \A d \in Commands \ {c} :
                  cmd[d] # NoCommand => k.kind # "undeploy" /\ cmd[d].kind # "undeploy"
  BY <1>2, Begun DEF UndeploysAlone
\* A deployment or a selection begins: nothing is being undeployed.
<1>3. ASSUME NEW c \in Commands, NEW k \in CommandTypes, k.kind \in {"deploy", "select"}, Begin(c, k),
             UNCHANGED <<shelf, activeWf>>, k.at # "shutdown", k.at = "activate" => k.wf \in Deployed
      PROVE  ActiveWhileDeploying' /\ ActiveWhileUndeploying'
  <2>1. \A d \in Commands : cmd[d].kind # "undeploy" /\ cmd'[d].kind # "undeploy"
    BY <1>0, <1>2, <1>3
  <2>2. /\ activeWf = "none" \/ activeWf \in Coming
        /\ \A d \in Commands : cmd[d].at = "activate" => cmd[d].wf \in Coming
        /\ activeWf = "none" => Deployed = {} \/ \E d \in Commands : cmd[d].at = "activate"
    BY <1>2, <1>3, <2>1 DEF ActiveWhileDeploying
  <2>3. Deployed' = Deployed
    BY <1>3 DEF Deployed
  <2>4. Coming' = Coming
    BY <1>0, <1>2, <1>3, <2>3 DEF Coming
  <2>5. ActiveWhileUndeploying'
    BY <2>1 DEF ActiveWhileUndeploying
  <2>6. \A d \in Commands : cmd'[d].at = "activate" => cmd'[d].wf \in Coming'
    BY <1>2, <1>3, <2>2, <2>4 DEF Coming
  <2>7. activeWf' = "none" => Deployed' = {} \/ \E d \in Commands : cmd'[d].at = "activate"
    BY <1>0, <1>2, <1>3, <2>2, <2>3
  <2> QED BY <1>3, <2>2, <2>4, <2>5, <2>6, <2>7 DEF ActiveWhileDeploying
<1>4. CASE \E c \in Commands, w \in Workflows : RequestDeploy(c, w)
  <2>1. PICK c \in Commands, w \in Workflows : RequestDeploy(c, w)
    BY <1>4
  <2>2. PICK k \in CommandTypes :
          k.kind = "deploy" /\ k.at = "resolved" /\ k.wf = w /\ k.number > 0 /\ Begin(c, k)
    BY <2>1, NewDeployment
  <2> QED BY <1>3, <2>1, <2>2 DEF RequestDeploy
<1>5. CASE \E c \in Commands : LookUp(c)
  <2>1. PICK c \in Commands : LookUp(c)
    BY <1>5
  <2>2. PICK k \in CommandTypes :
          k.kind = "select" /\ k.at = "activate" /\ k.wf \in Deployed /\ Begin(c, k)
    BY <2>1, NewSelection
  <2> QED BY <1>3, <2>1, <2>2 DEF LookUp
\* An undeployment begins: nothing else is in flight.
<1>6. CASE \E c \in Commands : ResolveId(c)
  <2>1. PICK c \in Commands : ResolveId(c)
    BY <1>6
  <2>2. PICK k \in CommandTypes :
          k.kind = "undeploy" /\ k.at = "undeploy" /\ k.wf \in Workflows /\ Begin(c, k)
    BY <2>1, NewUndeployment
  <2>3. \A d \in Commands : cmd[d] = NoCommand
    BY <1>2, <2>2
  <2>4. \A d \in Commands : d # c => cmd'[d] = NoCommand
    BY <1>2, <2>2, <2>3
  <2>5. Coming = Deployed
    BY <1>0, <2>3 DEF Coming
  <2>6. Fits(activeWf)
    <3>1. \A d \in Commands : cmd[d].kind # "undeploy" /\ cmd[d].at # "activate"
      BY <1>0, <2>3
    <3>2. UndeploysAlone
      BY <1>2, <2>2
    <3> QED BY <2>5, <3>1, <3>2 DEF ActiveWhileDeploying, Fits
  <2>7. Fits(activeWf)'
    BY <2>1, <2>6 DEF ResolveId, Fits, Deployed
  <2>8. cmd'[c].kind = "undeploy" /\ cmd'[c].at = "undeploy" /\ cmd'[c].wf \in Workflows
    BY <1>2, <2>2
  <2>9. ActiveWhileUndeploying'
    BY <1>0, <2>4, <2>7, <2>8 DEF ActiveWhileUndeploying
  <2>10. ActiveWhileDeploying'
    BY <2>8 DEF ActiveWhileDeploying
  <2> QED BY <2>9, <2>10
<1>7. CASE NodeBorrows \/ NodeReleases \/ UNCHANGED deskVars
  <2>1. UNCHANGED <<shelf, activeWf, cmd, overlapped>>
    BY <1>7 DEF NodeBorrows, NodeReleases, deskVars
  <2> QED BY <2>1, ZenonT(90) DEF ActiveWhileDeploying, ActiveWhileUndeploying, UndeploysAlone, Coming, Deployed, Fits
<1> QED BY <1>1, <1>4, <1>5, <1>6, <1>7 DEF DeskNext

\* A deployment on its own finds its definition in the pool, or was refused it,
\* and nothing takes away those of the others.
LEMMA DefinitionsKept ==
  ASSUME DeskTypes, DeployIsAlone, DeployHasDefinition, DeployedKeepConnections, [DeskNext]_deskVars
  PROVE  DeployHasDefinition' /\ DeployedKeepConnections'
<1>0. NoCommand.kind = "none" /\ NoCommand.at = "idle" /\ DeskTypes'
  BY DeskTypesKept DEF NoCommand
<1> SUFFICES ASSUME "deploys" \notin overlapped' PROVE DeployHasDefinition' /\ DeployedKeepConnections'
  BY DEF DeployHasDefinition, DeployedKeepConnections
\* A step that takes no definition away and no deployment forth.
<1>1. ASSUME NEW c \in Commands, "deploys" \notin overlapped,
             \A d \in Commands : d # c => cmd'[d] = cmd[d],
             pool \subseteq pool', refused \subseteq refused',
             \A w \in Workflows : shelf'[w] \in {0, shelf[w]},
             cmd'[c].kind = "deploy" /\ cmd'[c].at \in {"build", "shutdown"} =>
               cmd'[c].wf \in pool' \/ cmd'[c].number \in refused',
             cmd'[c].kind = "deploy" => ~(cmd'[c].at = "apply" /\ cmd'[c].empty /\ Deployed' # {})
      PROVE  DeployHasDefinition' /\ DeployedKeepConnections'
  <2>1. Deployed' \subseteq Deployed /\ \A w \in Deployed' : shelf'[w] = shelf[w]
    BY <1>1 DEF Deployed
  <2>2. DeployedKeepConnections'
    BY <1>1, <2>1 DEF DeployedKeepConnections
  <2>3. DeployHasDefinition'
    BY <1>1, <2>1 DEF DeployHasDefinition
  <2> QED BY <2>2, <2>3
<1>2. CASE \E c \in Commands : CommandStep(c)
  <2>1. PICK c \in Commands : CommandStep(c)
    BY <1>2
  <2>2. /\ "deploys" \notin overlapped /\ cmd[c].kind # "none"
        /\ \A d \in Commands : d # c => cmd'[d] = cmd[d]
        /\ \A w \in Workflows : shelf[w] \in Nat
        /\ cmd[c].wf \in Workflows
    BY <2>1, CommandMoves DEF DeskTypes
  <2>3. cmd[c].kind = "deploy" =>
          /\ cmd[c].at = "apply" /\ cmd[c].empty => Deployed = {}
          /\ cmd[c].at \in {"build", "shutdown"} => cmd[c].wf \in pool \/ cmd[c].number \in refused
    BY <2>2 DEF DeployHasDefinition
  <2>4. CASE TestWhetherEmpty(c)
    <3>1. /\ cmd'[c].at = "apply" /\ cmd'[c].empty = (Deployed = {})
          /\ UNCHANGED <<shelf, pool, refused>>
      BY <2>4 DEF TestWhetherEmpty, DeskTypes, CommandTypes
    <3>2. Deployed' = Deployed
      BY <3>1 DEF Deployed
    <3> QED BY <1>1, <2>2, <3>1, <3>2
  <2>5. CASE ApplyDefinitions(c)
    <3>1. /\ cmd[c].at = "apply" /\ cmd'[c].at = "build" /\ cmd'[c].kind = cmd[c].kind
          /\ cmd'[c].wf = cmd[c].wf /\ cmd'[c].number = cmd[c].number /\ shelf' = shelf
      BY <2>5, Went DEF ApplyDefinitions
    <3>2. cmd[c].kind = "deploy"
      <4>1. cmd[c].kind \in {"none", "deploy", "undeploy", "select"}
        BY DEF DeskTypes, CommandTypes
      <4> QED BY <2>2, <3>1, <4>1 DEF DeskTypes, UndeployLabels
    <3>3. refused \subseteq refused' /\ (cmd[c].wf \in pool' \/ cmd[c].number \in refused')
      BY <2>5 DEF ApplyDefinitions
    <3>4. pool \subseteq pool' \/ Deployed = {}
      BY <2>3, <2>5, <3>1, <3>2 DEF ApplyDefinitions
    <3>5. Deployed' = Deployed
      BY <3>1 DEF Deployed
    <3>6. \A d \in Commands : d # c => cmd'[d].kind # "deploy"
      BY <2>2, <3>2 DEF DeployIsAlone
    <3>7. DeployHasDefinition'
      BY <3>1, <3>3, <3>6 DEF DeployHasDefinition
    <3>8. DeployedKeepConnections'
      BY <2>2, <3>1, <3>3, <3>4, <3>5 DEF DeployedKeepConnections
    <3> QED BY <3>7, <3>8
  <2>6. CASE BuildFails(c)
    BY <1>0, <1>1, <2>2, <2>6, Ended DEF BuildFails
  <2>7. CASE TakeExisting(c)
    <3>1. /\ cmd[c].at = "build" /\ cmd'[c].at = "shutdown" /\ cmd'[c].kind = cmd[c].kind
          /\ cmd'[c].wf = cmd[c].wf /\ cmd'[c].number = cmd[c].number
          /\ \A w \in Workflows : shelf'[w] \in {0, shelf[w]}
          /\ UNCHANGED <<pool, refused>>
      BY <2>7, Went DEF TakeExisting, DeskTypes
    <3> QED BY <1>1, <2>2, <2>3, <3>1
  <2>8. CASE InsertWorkflow(c)
    <3>1. /\ cmd[c].at = "shutdown" /\ cmd'[c].at = "activate" /\ cmd'[c].kind = cmd[c].kind
          /\ shelf' = [shelf EXCEPT ![cmd[c].wf] = cmd[c].number]
          /\ UNCHANGED <<pool, refused>>
      BY <2>8, Went DEF InsertWorkflow
    <3>2. cmd[c].kind = "deploy"
      <4>1. cmd[c].kind \in {"none", "deploy", "undeploy", "select"}
        BY DEF DeskTypes, CommandTypes
      <4> QED BY <2>2, <3>1, <4>1 DEF DeskTypes, UndeployLabels
    <3>3. \A d \in Commands : d # c => cmd'[d].kind # "deploy"
      BY <2>2, <3>2 DEF DeployIsAlone
    <3>4. DeployHasDefinition'
      BY <3>1, <3>3 DEF DeployHasDefinition
    <3>5. \A w \in Workflows : shelf'[w] = IF w = cmd[c].wf THEN cmd[c].number ELSE shelf[w]
      BY <3>1 DEF DeskTypes
    <3>6. DeployedKeepConnections'
      BY <2>2, <2>3, <3>1, <3>2, <3>5 DEF DeployedKeepConnections, Deployed
    <3> QED BY <3>4, <3>6
  <2>9. CASE Activate(c)
    BY <1>0, <1>1, <2>2, <2>9, Ended DEF Activate
  <2>10. CASE RemoveWorkflow(c)
    <3>1. /\ cmd'[c].at = "count" /\ \A w \in Workflows : shelf'[w] \in {0, shelf[w]}
          /\ UNCHANGED <<pool, refused>>
      BY <2>10, Went DEF RemoveWorkflow, DeskTypes
    <3> QED BY <1>1, <2>2, <3>1
  <2>11. CASE ReadActive(c) \/ CountRemaining(c) \/ MarkAllIdle(c) \/ ChooseFallback(c) \/ FallBack(c)
    <3>1. UNCHANGED <<shelf, pool, refused>>
      BY <2>11 DEF ReadActive, CountRemaining, MarkAllIdle, ChooseFallback, FallBack
    <3>2. cmd[c].at \notin DeployLabels
      BY <2>11 DEF DeployLabels, ReadActive, CountRemaining, MarkAllIdle, ChooseFallback, FallBack
    <3>3. cmd[c].kind # "deploy"
      BY <3>2 DEF DeskTypes
    <3>4. cmd'[c].kind # "deploy"
      BY <1>0, <2>1, <3>3, CommandMoves
    <3> QED BY <1>1, <2>2, <3>1, <3>4
  <2> QED BY <2>1, <2>4, <2>5, <2>6, <2>7, <2>8, <2>9, <2>10, <2>11 DEF CommandStep
<1>3. ASSUME NEW c \in Commands, NEW k \in CommandTypes, k.kind # "none", Begin(c, k),
             k.at \in {"resolved", "undeploy", "activate"}, UNCHANGED <<shelf, pool, refused>>
      PROVE  DeployHasDefinition' /\ DeployedKeepConnections'
  <2>1. /\ cmd'[c] = k /\ overlapped \subseteq overlapped'
        /\ \A d \in Commands : d # c => cmd'[d] = cmd[d]
    BY <1>3, Begun
  <2> QED BY <1>1, <1>3, <2>1
<1>4. CASE \E c \in Commands, w \in Workflows : RequestDeploy(c, w)
  <2>1. PICK c \in Commands, w \in Workflows : RequestDeploy(c, w)
    BY <1>4
  <2>2. PICK k \in CommandTypes :
          k.kind = "deploy" /\ k.at = "resolved" /\ k.wf = w /\ k.number > 0 /\ Begin(c, k)
    BY <2>1, NewDeployment
  <2> QED BY <1>3, <2>1, <2>2 DEF RequestDeploy
<1>5. CASE \E c \in Commands : ResolveId(c)
  <2>1. PICK c \in Commands : ResolveId(c)
    BY <1>5
  <2>2. PICK k \in CommandTypes : k.kind = "undeploy" /\ k.at = "undeploy" /\ Begin(c, k)
    BY <2>1, NewUndeployment
  <2> QED BY <1>3, <2>1, <2>2 DEF ResolveId
<1>6. CASE \E c \in Commands : LookUp(c)
  <2>1. PICK c \in Commands : LookUp(c)
    BY <1>6
  <2>2. PICK k \in CommandTypes : k.kind = "select" /\ k.at = "activate" /\ Begin(c, k)
    BY <2>1, NewSelection
  <2> QED BY <1>3, <2>1, <2>2 DEF LookUp
<1>7. CASE NodeBorrows \/ NodeReleases \/ UNCHANGED deskVars
  <2>1. UNCHANGED <<shelf, pool, refused, cmd, overlapped>>
    BY <1>7 DEF NodeBorrows, NodeReleases, deskVars
  <2> QED BY <2>1 DEF DeployHasDefinition, DeployedKeepConnections, Deployed
<1> QED BY <1>2, <1>4, <1>5, <1>6, <1>7 DEF DeskNext

\* Nothing is deployed and no command is in flight.
LEMMA DeskAtFirst == DeskInit => DeskInv
<1> SUFFICES ASSUME DeskInit PROVE DeskInv
  OBVIOUS
<1>1. /\ NoCommand \in CommandTypes /\ NoCommand.kind = "none" /\ NoCommand.at = "idle"
      /\ \A c \in Commands : cmd[c] = NoCommand
      /\ Deployed = {} /\ activeWf = "none" /\ cmd = [c \in Commands |-> NoCommand]
  BY Blank DEF DeskInit, NoCommand, Deployed
<1>2. DeskTypes
  BY <1>1 DEF DeskInit, DeskTypes
<1>3. UndeployIsAlone /\ DeployIsAlone /\ DeployHasDefinition /\ DeployedKeepConnections
  BY <1>1 DEF UndeployIsAlone, DeployIsAlone, DeployHasDefinition, DeployedKeepConnections
<1>4. ActiveWhileDeploying /\ ActiveWhileUndeploying
  BY <1>1 DEF ActiveWhileDeploying, ActiveWhileUndeploying
<1> QED BY <1>2, <1>3, <1>4 DEF DeskInv

\* Whenever no command is in flight the active id is that of a deployed
\* workflow, as long as no undeployment overlapped another command, and each
\* deployed workflow has its definition in the pool or was refused it, as long
\* as no deployments overlapped (workflow_deploy.rs, workflow_undeploy.rs,
\* runtime.rs): for any workflows, commands and deployments.
THEOREM ShellIsSound == DeskSpec => []ShellSound
<1>1. DeskInv /\ [DeskNext]_deskVars => DeskInv'
  BY DeskTypesKept, FlagsKept, ActiveKept, DefinitionsKept DEF DeskInv
<1>2. DeskInv => ShellSound
  <2> SUFFICES ASSUME DeskInv PROVE ActiveFollowsCommands
    BY DEF DeskInv, ShellSound
  <2> SUFFICES ASSUME UndeploysAlone, \A c \in Commands : cmd[c] = NoCommand
               PROVE  IF Deployed = {} THEN activeWf = "none" ELSE activeWf \in Deployed
    BY DEF ActiveFollowsCommands
  <2>1. \A c \in Commands : cmd[c].kind # "undeploy" /\ cmd[c].at \notin {"shutdown", "activate"}
    BY DEF NoCommand
  <2>2. Coming = Deployed
    BY <2>1 DEF Coming
  <2>3. activeWf = "none" \/ activeWf \in Deployed
    BY <2>1, <2>2 DEF DeskInv, ActiveWhileDeploying
  <2>4. activeWf = "none" => Deployed = {}
    BY <2>1 DEF DeskInv, ActiveWhileDeploying
  <2> QED BY <2>3, <2>4
<1> QED BY <1>1, <1>2, DeskAtFirst, PTL DEF DeskSpec

(***************************************************************************)
(* Versions and rollbacks of an asset (AssetLibrary).                      *)
(***************************************************************************)
Bounded(D) == D \subseteq Nat /\ \E k \in Nat : \A d \in D : d <= k

LEMMA LeastNatural ==
  ASSUME NEW T, T \subseteq Nat, T # {}
  PROVE  \E x \in T : \A y \in T : x <= y
<1>1. ASSUME NEW R, IsWellFoundedOn(R, Nat) PROVE \E x \in T : \A y \in T : <<y, x>> \notin R
  BY <1>1, WFMin, Zenon
<1>2. IsWellFoundedOn(OpToRel(<, Nat), Nat)
  BY NatLessThanWellFounded, Zenon
<1>3. \E x \in T : \A y \in T : <<y, x>> \notin OpToRel(<, Nat)
  BY <1>1, <1>2, Zenon
<1>4. PICK x \in T : \A y \in T : <<y, x>> \notin OpToRel(<, Nat)
  BY <1>3
<1>5. \A y \in T : x \in Nat /\ y \in Nat /\ ~(y < x)
  BY <1>4 DEF OpToRel
<1> QED BY <1>5

\* Numbers that are bounded have a least bound, which is the greatest of them.
LEMMA GreatestThere ==
  ASSUME NEW D, Bounded(D), D # {}
  PROVE  \E m \in D : \A d \in D : d <= m
<1> DEFINE Bounds == {k \in Nat : \A d \in D : d <= k}
<1>1. Bounds \subseteq Nat /\ Bounds # {}
  BY DEF Bounded
<1>2. PICK m \in Bounds : \A k \in Bounds : m <= k
  BY <1>1, LeastNatural
<1>3. \A d \in D : d \in Nat /\ d <= m
  BY DEF Bounded
<1>4. m \in D
  <2> SUFFICES ASSUME m \notin D PROVE FALSE
    OBVIOUS
  <2>1. \A d \in D : d < m
    BY <1>3
  <2>2. m # 0 /\ m \in Nat
    BY <1>3, <2>1
  <2>3. m - 1 \in Bounds
    BY <1>3, <2>1, <2>2
  <2> QED BY <1>2, <2>2, <2>3
<1> QED BY <1>3, <1>4

LEMMA NextVersionIsNew ==
  ASSUME NEW versions, Bounded(DOMAIN versions)
  PROVE  NextVersion(versions) \in Nat /\ NextVersion(versions) \notin DOMAIN versions
<1> DEFINE D == DOMAIN versions
           g == Greatest(versions)
<1>1. CASE D = {}
  BY <1>1 DEF NextVersion
<1>2. CASE D # {}
  <2>1. \E m \in D : \A d \in D : d <= m
    BY <1>2, GreatestThere
  <2>2. g \in D /\ \A d \in D : d <= g
    BY <2>1, Zenon DEF Greatest
  <2>3. NextVersion(versions) = g + 1
    BY <1>2 DEF NextVersion
  <2> HIDE DEF g
  <2> QED BY <2>2, <2>3 DEF Bounded
<1> QED BY <1>1, <1>2

\* A plan writes a version right after the latest file, for which it has taken a
\* number; and a rollback executes the stages of its plan one by one.
WellOrdered(p) ==
  \A i \in 2..Len(p) :
    /\ p[i] = "version" => p[i - 1] = "latest"
    /\ p[i] = "latest" /\ i < Len(p) => p[i - 1] = "number"
RollbackStages == <<"number", "latest", "version", "list", "append", "load",
                    "number", "latest", "version", "list", "append">>
InRollback(p) == Len(p) <= 11 /\ \A i \in 1..Len(p) : p[i] = RollbackStages[11 - Len(p) + i]

\* The number of a plan is still to be written to.
Numbered(p) ==
  \/ Len(p) >= 1 /\ p[1] = "version"
  \/ Len(p) >= 2 /\ p[1] = "latest" /\ p[2] = "version"

Stages == {"number", "latest", "version", "list", "append", "drop", "load", "sources", "rmLatest", "dir",
           "rmVersions", "rmSources", "rmSnaps"}

\* What is always so of the files of an asset and of the command of an editor.
FilesOk(d) ==
  /\ d = [latest |-> d.latest, versions |-> d.versions, snaps |-> d.snaps, sources |-> d.sources]
  /\ Bounded(DOMAIN d.versions)
JobOk(j) ==
  /\ j = [op |-> j.op, plan |-> j.plan, ws |-> j.ws, text |-> j.text,
          version |-> j.version, target |-> j.target, listed |-> j.listed]
  /\ j.plan \in Seq(Stages) /\ j.ws \in Workspaces /\ j.version \in Nat
  /\ WellOrdered(j.plan)
  /\ j.op = "rollback" => j.plan # <<>> /\ InRollback(j.plan)

\* A command that is alone on its files: its number is free until it writes to
\* it, and a rollback keeps the latest text in a version until it replaces it.
NumberIsFree(j, d) == Numbered(j.plan) => j.version \notin DOMAIN d.versions
HasVersion(d) == \E v \in DOMAIN d.versions : d.versions[v] = d.latest
Guards(n, text, d) ==
  /\ n >= 6 => text = d.latest
  /\ n \in 4..8 => HasVersion(d)
Protects(j, d) == j.op = "rollback" => Guards(Len(j.plan), j.text, d)
Alone(j, d) == NumberIsFree(j, d) /\ Protects(j, d)

AssetInv ==
  /\ kind \in {"device", "capability", "connection"}
  /\ disk = [w \in Workspaces |-> disk[w]] /\ job = [e \in Editors |-> job[e]]
  /\ \A w \in Workspaces : FilesOk(disk[w])
  /\ \A e \in Editors : JobOk(job[e])
  /\ \A e \in Editors : job[e].plan # <<>> /\ job[e].ws \notin tangled => Alone(job[e], disk[job[e].ws])
  /\ \A e1, e2 \in Editors :
       job[e1].plan # <<>> /\ job[e2].plan # <<>> /\ job[e1].ws = job[e2].ws /\ job[e1].ws \notin tangled
         => e1 = e2

\* What a stage may do to the files d of a command j.
Keeps(d, f) == \A v \in DOMAIN d.versions \cap DOMAIN f.versions : f.versions[v] = d.versions[v]
Saves(j, d, f) ==
  j.op = "rollback" /\ "load" \notin {j.plan[i] : i \in DOMAIN j.plan} /\ f.latest # d.latest => HasVersion(d)

\* One editor goes on, and only its files change.
LEMMA OneMoves ==
  ASSUME AssetInv, NEW e \in Editors, job[e].plan # <<>>, NEW f, NEW j,
         disk' = [disk EXCEPT ![job[e].ws] = f], job' = [job EXCEPT ![e] = j],
         tangled' = tangled, kind' = kind, FilesOk(f), JobOk(j),
         j.plan = <<>> \/ j.ws = job[e].ws,
         job[e].ws \notin tangled =>
           /\ j.plan # <<>> => Alone(j, f)
           /\ Keeps(disk[job[e].ws], f) /\ Saves(job[e], disk[job[e].ws], f)
  PROVE  AssetInv' /\ VersionsStay /\ ReplacedTextHasVersion
<1> DEFINE w == job[e].ws
<1>0. w \in Workspaces
  BY DEF AssetInv, JobOk
<1>1. /\ \A x \in Editors : job'[x] = IF x = e THEN j ELSE job[x]
      /\ \A x \in Workspaces : disk'[x] = IF x = w THEN f ELSE disk[x]
      /\ disk' = [x \in Workspaces |-> disk'[x]] /\ job' = [x \in Editors |-> job'[x]]
  BY <1>0 DEF AssetInv
<1> HIDE DEF w
<1>2. /\ kind' \in {"device", "capability", "connection"}
      /\ \A x \in Workspaces : FilesOk(disk'[x])
      /\ \A x \in Editors : JobOk(job'[x])
  BY <1>1 DEF AssetInv
<1>3. ASSUME NEW x \in Editors, job'[x].plan # <<>>, job'[x].ws \notin tangled
      PROVE  Alone(job'[x], disk'[job'[x].ws])
  <2>1. CASE x = e
    BY <1>0, <1>1, <1>3, <2>1 DEF w
  <2>2. CASE x # e
    <3>1. job'[x] = job[x] /\ job[x].ws \in Workspaces
      BY <1>1, <2>2 DEF AssetInv, JobOk
    <3>2. job[x].ws # w
      BY <1>3, <2>2, <3>1 DEF AssetInv, w
    <3> QED BY <1>1, <1>3, <3>1, <3>2 DEF AssetInv
  <2> QED BY <2>1, <2>2
<1>4. ASSUME NEW x \in Editors, NEW y \in Editors, job'[x].plan # <<>>, job'[y].plan # <<>>,
             job'[x].ws = job'[y].ws, job'[x].ws \notin tangled
      PROVE  x = y
  <2>1. /\ job[x].plan # <<>> /\ job[x].ws = job'[x].ws
        /\ job[y].plan # <<>> /\ job[y].ws = job'[y].ws
    BY <1>1, <1>4 DEF w
  <2> QED BY <1>4, <2>1 DEF AssetInv
<1>5. AssetInv'
  BY <1>1, <1>2, <1>3, <1>4 DEF AssetInv
<1>6. VersionsStay
  BY <1>0, <1>1 DEF VersionsStay, Keeps, w
<1>7. ReplacedTextHasVersion
  <2> SUFFICES ASSUME NEW x \in Editors, job[x].op = "rollback",
                      "load" \notin {job[x].plan[i] : i \in DOMAIN job[x].plan},
                      job[x].ws \notin tangled, disk'[job[x].ws].latest # disk[job[x].ws].latest
               PROVE  HasVersion(disk[job[x].ws])
    BY DEF ReplacedTextHasVersion, HasVersion
  <2>1. job[x].plan # <<>> /\ job[x].ws \in Workspaces
    BY DEF AssetInv, JobOk
  <2>2. job[x].ws = w
    BY <1>1, <2>1
  <2>3. x = e
    BY <2>1, <2>2 DEF AssetInv, w
  <2>4. disk'[w] = f
    BY <1>0, <1>1
  <2> QED BY <2>2, <2>3, <2>4 DEF Saves, w
<1> QED BY <1>5, <1>6, <1>7

\* One file of the asset is written.
LEMMA FileWritten ==
  ASSUME NEW d, FilesOk(d), NEW x
  PROVE  /\ FilesOk([d EXCEPT !.latest = x]) /\ FilesOk([d EXCEPT !.snaps = x]) /\ FilesOk([d EXCEPT !.sources = x])
         /\ [d EXCEPT !.latest = x].latest = x /\ [d EXCEPT !.latest = x].versions = d.versions
         /\ [d EXCEPT !.snaps = x].latest = d.latest /\ [d EXCEPT !.snaps = x].versions = d.versions
         /\ [d EXCEPT !.sources = x].latest = d.latest /\ [d EXCEPT !.sources = x].versions = d.versions
<1>1. d = [latest |-> d.latest, versions |-> d.versions, snaps |-> d.snaps, sources |-> d.sources]
  BY DEF FilesOk
<1>2. /\ [d EXCEPT !.latest = x] = [latest |-> x, versions |-> d.versions, snaps |-> d.snaps, sources |-> d.sources]
      /\ [d EXCEPT !.snaps = x] = [latest |-> d.latest, versions |-> d.versions, snaps |-> x, sources |-> d.sources]
      /\ [d EXCEPT !.sources = x] = [latest |-> d.latest, versions |-> d.versions, snaps |-> d.snaps, sources |-> x]
  BY <1>1
<1> QED BY <1>2 DEF FilesOk

\* The files of the versions change.
LEMMA VersionsWritten ==
  ASSUME NEW d, FilesOk(d), NEW vs, Bounded(DOMAIN vs)
  PROVE  /\ FilesOk([d EXCEPT !.versions = vs])
         /\ [d EXCEPT !.versions = vs].latest = d.latest /\ [d EXCEPT !.versions = vs].versions = vs
<1>1. [d EXCEPT !.versions = vs] = [latest |-> d.latest, versions |-> vs, snaps |-> d.snaps, sources |-> d.sources]
  BY DEF FilesOk
<1> QED BY <1>1 DEF FilesOk

LEMMA BoundedWith ==
  ASSUME NEW versions, Bounded(DOMAIN versions), NEW n \in Nat, NEW text
  PROVE  Bounded(DOMAIN With(versions, n, text)) /\ DOMAIN With(versions, n, text) = DOMAIN versions \cup {n}
<1>1. DOMAIN With(versions, n, text) = DOMAIN versions \cup {n}
  BY DEF With
<1>2. PICK k \in Nat : \A d \in DOMAIN versions : d <= k
  BY DEF Bounded
<1>3. Bounded(DOMAIN versions \cup {n})
  <2>1. CASE k <= n
    <3>1. \A d \in DOMAIN versions \cup {n} : d \in Nat /\ d <= n
      BY <1>2, <2>1 DEF Bounded
    <3> QED BY <3>1 DEF Bounded
  <2>2. CASE n <= k
    BY <1>2, <2>2 DEF Bounded
  <2> QED BY <2>1, <2>2
<1> QED BY <1>1, <1>3

\* The command that is left when a stage is over.
Onward(now) == IF Len(now.plan) = 1 THEN Idle ELSE [now EXCEPT !.plan = Tail(@)]

LEMMA IdleIsOk ==
  JobOk(Idle) /\ Idle.plan = <<>> /\ Idle.op = "none"
BY DEF JobOk, Idle, Workspaces, WellOrdered

LEMMA SomePlan ==
  ASSUME NEW S, NEW s \in Seq(S), s # <<>>
  PROVE  Len(s) \in Nat /\ Len(s) >= 1 /\ DOMAIN s = 1..Len(s)
OBVIOUS

LEMMA TailOfPlan ==
  ASSUME NEW S, NEW s \in Seq(S), Len(s) > 1
  PROVE  /\ Tail(s) \in Seq(S) /\ Len(Tail(s)) = Len(s) - 1 /\ Len(Tail(s)) >= 1 /\ Tail(s) # <<>>
         /\ \A i \in 1..Len(Tail(s)) : Tail(s)[i] = s[i + 1]
<1>1. Len(s) \in Nat
  OBVIOUS
<1>2. Tail(s) \in Seq(S) /\ Len(Tail(s)) = Len(s) - 1
  OBVIOUS
<1>3. \A i \in 1..Len(Tail(s)) : Tail(s)[i] = s[i + 1]
  BY <1>1, <1>2
<1>4. Tail(s) # <<>>
  <2>1. Len(<<>>) = 0
    OBVIOUS
  <2>2. ASSUME Tail(s) = <<>> PROVE Len(Tail(s)) = 0
    BY <2>1, <2>2, Zenon
  <2> QED BY <1>1, <1>2, <2>2
<1> QED BY <1>1, <1>2, <1>3, <1>4

LEMMA Goes ==
  ASSUME NEW now, JobOk(now), now.plan # <<>>
  PROVE  LET j == Onward(now)
         IN  /\ JobOk(j) /\ (j.plan = <<>> \/ j.ws = now.ws)
             /\ j.plan # <<>> =>
                  /\ j.op = now.op /\ j.text = now.text /\ j.version = now.version
                  /\ Len(j.plan) = Len(now.plan) - 1 /\ \A i \in 1..Len(j.plan) : j.plan[i] = now.plan[i + 1]
<1> DEFINE p == now.plan
           t == Tail(p)
           j == Onward(now)
<1>1. p \in Seq(Stages) /\ Len(p) \in Nat /\ Len(p) >= 1
  BY DEF JobOk
<1>2. CASE Len(p) = 1
  BY <1>2, IdleIsOk DEF Onward
<1>3. CASE Len(p) # 1
  <2>1. /\ t \in Seq(Stages) /\ Len(t) = Len(p) - 1 /\ t # <<>> /\ Len(t) >= 1
        /\ \A i \in 1..Len(t) : t[i] = p[i + 1]
    <3>1. Len(p) > 1
      <4> DEFINE n == Len(p)
      <4>1. n \in Nat /\ n >= 1 /\ n # 1
        BY <1>1, <1>3
      <4> HIDE DEF n
      <4>2. n > 1
        BY <4>1
      <4> QED BY <4>2 DEF n
    <3> QED BY <1>1, <3>1, TailOfPlan
  <2>2. j = [op |-> now.op, plan |-> t, ws |-> now.ws, text |-> now.text,
             version |-> now.version, target |-> now.target, listed |-> now.listed]
    BY <1>3 DEF Onward, JobOk
  <2>3. /\ WellOrdered(p) /\ now.ws \in Workspaces /\ now.version \in Nat
        /\ now.op = "rollback" => InRollback(p)
    BY DEF JobOk
  <2> HIDE DEF p, t, j
  <2>4. WellOrdered(t)
    <3> SUFFICES ASSUME NEW i \in 2..Len(t)
                 PROVE  /\ t[i] = "version" => t[i - 1] = "latest"
                        /\ t[i] = "latest" /\ i < Len(t) => t[i - 1] = "number"
      BY DEF WellOrdered
    <3>1. i \in Nat /\ i - 1 \in 1..Len(t) /\ i + 1 \in 2..Len(p) /\ (i - 1) + 1 = i /\ (i + 1) - 1 = i
      BY <1>1, <2>1, SMTT(60)
    <3>2. t[i] = p[i + 1] /\ t[i - 1] = p[i]
      BY <2>1, <3>1
    <3>3. /\ p[i + 1] = "version" => p[i] = "latest"
          /\ p[i + 1] = "latest" /\ i + 1 < Len(p) => p[i] = "number"
      BY <2>3, <3>1 DEF WellOrdered
    <3> QED BY <1>1, <2>1, <3>1, <3>2, <3>3
  <2>5. InRollback(p) => InRollback(t)
    <3> SUFFICES ASSUME InRollback(p) PROVE InRollback(t)
      OBVIOUS
    <3>1. \A i \in 1..Len(t) : i + 1 \in 1..Len(p) /\ 11 - Len(p) + (i + 1) = 11 - Len(t) + i
      BY <1>1, <2>1
    <3>2. \A i \in 1..Len(t) : t[i] = RollbackStages[11 - Len(t) + i]
      BY <2>1, <3>1 DEF InRollback
    <3> QED BY <1>1, <2>1, <3>2 DEF InRollback
  <2>6. JobOk(j)
    BY <2>1, <2>2, <2>3, <2>4, <2>5 DEF JobOk
  <2> QED BY <2>1, <2>2, <2>6 DEF p, j
<1> QED BY <1>2, <1>3 DEF p, j

\* A plan that is about to write to its number has just taken it, or was about
\* to before.
LEMMA NumberStays ==
  ASSUME NEW now, JobOk(now), now.plan # <<>>, Onward(now).plan # <<>>, Numbered(Onward(now).plan)
  PROVE  now.plan[1] = "number" \/ (now.plan[1] = "latest" /\ Numbered(now.plan))
<1> DEFINE p == now.plan
           t == Onward(now).plan
<1>1. p \in Seq(Stages) /\ Len(p) \in Nat /\ Len(p) >= 1 /\ WellOrdered(p)
  BY DEF JobOk
<1>2. Len(t) = Len(p) - 1 /\ \A i \in 1..Len(t) : t[i] = p[i + 1]
  BY Goes
<1> HIDE DEF p, t
<1>3. CASE Len(t) >= 1 /\ t[1] = "version"
  <2>1. p[2] = "version" /\ 2 \in 2..Len(p)
    BY <1>1, <1>2, <1>3
  <2>2. p[1] = "latest"
    BY <2>1, <1>1 DEF WellOrdered
  <2> QED BY <1>1, <2>1, <2>2 DEF Numbered, p
<1>4. CASE Len(t) >= 2 /\ t[1] = "latest" /\ t[2] = "version"
  <2>1. p[2] = "latest" /\ 2 \in 2..Len(p) /\ 2 < Len(p)
    BY <1>1, <1>2, <1>4
  <2> QED BY <1>1, <2>1 DEF WellOrdered, p
<1> QED BY <1>3, <1>4 DEF Numbered, t

\* Where a rollback stands.
LEMMA RollbackStands ==
  ASSUME NEW j, JobOk(j), j.op = "rollback"
  PROVE  /\ Len(j.plan) \in 1..11
         /\ j.plan[1] = RollbackStages[12 - Len(j.plan)]
         /\ j.plan[1] \in {"number", "latest", "version", "list", "append", "load"}
         /\ j.plan[1] = "number" => Len(j.plan) \in {11, 5}
         /\ j.plan[1] = "latest" => Len(j.plan) \in {10, 4}
         /\ j.plan[1] = "version" => Len(j.plan) \in {9, 3}
         /\ j.plan[1] = "load" <=> Len(j.plan) = 6
         /\ Len(j.plan) >= 6 => "load" \in {j.plan[i] : i \in DOMAIN j.plan}
<1> DEFINE p == j.plan
           n == Len(p)
<1>1. p \in Seq(Stages) /\ p # <<>> /\ InRollback(p)
  BY DEF JobOk
<1> HIDE DEF p
<1>2. n \in 1..11 /\ DOMAIN p = 1..n
  <2>1. n <= 11
    BY <1>1, Zenon DEF InRollback
  <2>2. n \in Nat /\ n >= 1 /\ DOMAIN p = 1..n
    BY <1>1, SomePlan
  <2> HIDE DEF n
  <2> QED BY <2>1, <2>2
<1>3. \A i \in 1..n : p[i] = RollbackStages[11 - n + i]
  BY <1>1, Zenon DEF InRollback
<1> HIDE DEF n
<1>4. p[1] = RollbackStages[12 - n]
  <2>1. 11 - n + 1 = 12 - n /\ 1 \in 1..n
    BY <1>2
  <2> QED BY <1>3, <2>1
<1>5. ASSUME n >= 6 PROVE "load" \in {p[i] : i \in DOMAIN p}
  <2>1. n - 5 \in 1..n /\ 11 - n + (n - 5) = 6
    BY <1>2, <1>5
  <2>2. p[n - 5] = RollbackStages[6]
    BY <1>3, <2>1
  <2>3. p[n - 5] = "load"
    BY <2>2 DEF RollbackStages
  <2> QED BY <1>2, <2>1, <2>3
<1>6. \/ n = 1 \/ n = 2 \/ n = 3 \/ n = 4 \/ n = 5 \/ n = 6 \/ n = 7 \/ n = 8 \/ n = 9 \/ n = 10 \/ n = 11
  BY <1>2
<1>7. /\ p[1] \in {"number", "latest", "version", "list", "append", "load"}
      /\ p[1] = "number" => n \in {11, 5}
      /\ p[1] = "latest" => n \in {10, 4}
      /\ p[1] = "version" => n \in {9, 3}
      /\ p[1] = "load" <=> n = 6
  BY <1>4, <1>6 DEF RollbackStages
<1> QED BY <1>2, <1>4, <1>5, <1>7 DEF n, p

\* A command notes something that is not on a file.
LEMMA JobChanged ==
  ASSUME NEW j, JobOk(j), NEW x, NEW n \in Nat
  PROVE  /\ JobOk([j EXCEPT !.listed = x]) /\ JobOk([j EXCEPT !.text = x]) /\ JobOk([j EXCEPT !.version = n])
         /\ LET k == [j EXCEPT !.listed = x]
            IN  k.op = j.op /\ k.plan = j.plan /\ k.ws = j.ws /\ k.text = j.text /\ k.version = j.version
         /\ LET k == [j EXCEPT !.text = x]
            IN  k.op = j.op /\ k.plan = j.plan /\ k.ws = j.ws /\ k.version = j.version
         /\ LET k == [j EXCEPT !.version = n]
            IN  k.op = j.op /\ k.plan = j.plan /\ k.ws = j.ws /\ k.text = j.text /\ k.version = n
<1>1. j = [op |-> j.op, plan |-> j.plan, ws |-> j.ws, text |-> j.text,
           version |-> j.version, target |-> j.target, listed |-> j.listed]
  BY DEF JobOk
<1>2. /\ [j EXCEPT !.listed = x] = [op |-> j.op, plan |-> j.plan, ws |-> j.ws, text |-> j.text,
           version |-> j.version, target |-> j.target, listed |-> x]
      /\ [j EXCEPT !.text = x] = [op |-> j.op, plan |-> j.plan, ws |-> j.ws, text |-> x,
           version |-> j.version, target |-> j.target, listed |-> j.listed]
      /\ [j EXCEPT !.version = n] = [op |-> j.op, plan |-> j.plan, ws |-> j.ws, text |-> j.text,
           version |-> n, target |-> j.target, listed |-> j.listed]
  BY <1>1
<1> QED BY <1>2 DEF JobOk

\* What is known of an editor that is in a stage.
LEMMA StageIs ==
  ASSUME AssetInv, NEW e \in Editors, NEW s, Stage(e) = s, s # "none"
  PROVE  /\ job[e].plan # <<>> /\ job[e].plan[1] = s /\ JobOk(job[e])
         /\ job[e].ws \in Workspaces /\ FilesOk(Here(e))
         /\ job[e].ws \notin tangled => Alone(job[e], Here(e))
<1>1. job[e].plan # <<>> /\ Head(job[e].plan) = s
  BY DEF Stage
<1>2. JobOk(job[e]) /\ job[e].ws \in Workspaces
  BY DEF AssetInv, JobOk
<1>3. job[e].plan[1] = s
  BY <1>1
<1> QED BY <1>1, <1>2, <1>3 DEF AssetInv, Here

\* A stage ends well: what is left to show is that the command stays alone.
LEMMA Advanced ==
  ASSUME AssetInv, NEW e \in Editors, job[e].plan # <<>>,
         NEW now, JobOk(now), now.plan = job[e].plan, now.ws = job[e].ws,
         NEW f, FilesOk(f), Store(e, f), Advance(e, now), tangled' = tangled, kind' = kind,
         job[e].ws \notin tangled =>
           /\ Onward(now).plan # <<>> => Alone(Onward(now), f)
           /\ Keeps(Here(e), f) /\ Saves(job[e], Here(e), f)
  PROVE  AssetInv' /\ VersionsStay /\ ReplacedTextHasVersion
<1>1. disk' = [disk EXCEPT ![job[e].ws] = f] /\ job' = [job EXCEPT ![e] = Onward(now)]
  BY DEF Store, Advance, Onward
<1>2. JobOk(Onward(now)) /\ (Onward(now).plan = <<>> \/ Onward(now).ws = now.ws)
  BY Goes
<1> QED BY <1>1, <1>2, OneMoves DEF Here

\* The files stay as they are.
LEMMA SameFiles ==
  ASSUME AssetInv, NEW e \in Editors, job[e].ws \in Workspaces, disk' = disk
  PROVE  Store(e, Here(e))
BY DEF AssetInv, Store, Here

\* A stage that takes no number, and writes neither the latest file nor a version.
LEMMA QuietStage ==
  ASSUME NEW j, JobOk(j), j.plan # <<>>, j.plan[1] \notin {"number", "latest", "version", "load"},
         NEW d, Alone(j, d), NEW f, DOMAIN f.versions \subseteq DOMAIN d.versions, Keeps(d, f),
         j.op = "rollback" => f.latest = d.latest /\ f.versions = d.versions,
         NEW now, JobOk(now), now.plan = j.plan, now.op = j.op, now.text = j.text
  PROVE  /\ Onward(now).plan # <<>> => Alone(Onward(now), f)
         /\ Saves(j, d, f)
<1>1. Saves(j, d, f)
  BY DEF Saves
<1>2. ASSUME Onward(now).plan # <<>> PROVE Alone(Onward(now), f)
  <2>1. ~Numbered(Onward(now).plan)
    BY <1>2, NumberStays
  <2>2. ASSUME Onward(now).op = "rollback" PROVE Protects(Onward(now), f)
    <3>1. /\ Onward(now).op = j.op /\ Onward(now).text = j.text
          /\ Len(Onward(now).plan) = Len(j.plan) - 1
      BY <1>2, Goes
    <3>2. Len(j.plan) \in 1..11 /\ Len(j.plan) \notin {11, 10, 9, 6, 5}
      <4>1. /\ Len(j.plan) \in 1..11
            /\ j.plan[1] = RollbackStages[12 - Len(j.plan)]
        BY <2>2, <3>1, RollbackStands
      <4> DEFINE n == Len(j.plan)
      <4> HIDE DEF n
      <4>2. /\ n = 11 => 12 - n = 1
            /\ n = 10 => 12 - n = 2
            /\ n = 9 => 12 - n = 3
            /\ n = 6 => 12 - n = 6
            /\ n = 5 => 12 - n = 7
        OBVIOUS
      <4>3. /\ RollbackStages[1] = "number" /\ RollbackStages[2] = "latest" /\ RollbackStages[3] = "version"
            /\ RollbackStages[6] = "load" /\ RollbackStages[7] = "number"
        BY DEF RollbackStages
      <4>4. j.plan[1] = RollbackStages[12 - n] /\ n \in 1..11
        BY <4>1 DEF n
      <4>5. n # 11 /\ n # 10 /\ n # 9 /\ n # 6 /\ n # 5
        BY <4>2, <4>3, <4>4
      <4> QED BY <4>4, <4>5 DEF n
    <3>3. HasVersion(d) => HasVersion(f)
      BY <2>2, <3>1 DEF HasVersion
    <3> DEFINE n == Len(j.plan)
               m == Len(Onward(now).plan)
    <3>4. (n >= 6 => j.text = d.latest) /\ (n \in 4..8 => HasVersion(d))
      BY <2>2, <3>1 DEF Alone, Protects, Guards
    <3>5. (m >= 6 => j.text = f.latest) /\ (m \in 4..8 => HasVersion(f))
      <4>1. n \in 1..11 /\ n \notin {11, 10, 9, 6, 5} /\ m = n - 1 /\ f.latest = d.latest
        BY <2>2, <3>1, <3>2
      <4> HIDE DEF n, m
      <4> QED BY <3>3, <3>4, <4>1
    <3> QED BY <3>1, <3>5 DEF Protects, Guards
  <2> QED BY <2>1, <2>2 DEF Alone, NumberIsFree, Protects
<1> QED BY <1>1, <1>2

\* What a rollback guards, from one stage to the next.
LEMMA GuardsAtFirst ==
  ASSUME NEW n, n = 11, NEW d
  PROVE  Guards(n, d.latest, d)
BY DEF Guards

LEMMA GuardsAfterNumber ==
  ASSUME NEW n \in {11, 5}, NEW m, m = n - 1, NEW text, NEW d, Guards(n, text, d)
  PROVE  Guards(m, text, d)
BY DEF Guards

LEMMA GuardsAfterLatest ==
  ASSUME NEW n \in {10, 4}, NEW m, m = n - 1, NEW f
  PROVE  Guards(m, f.latest, f)
BY DEF Guards

LEMMA GuardsAfterVersion ==
  ASSUME NEW n \in {9, 3}, NEW m, m = n - 1, NEW text, NEW d, Guards(n, text, d),
         NEW f, f.latest = d.latest, text = d.latest => HasVersion(f)
  PROVE  Guards(m, text, f)
BY DEF Guards

LEMMA GuardsAtLatest ==
  ASSUME NEW n \in {10, 4}, ~(n >= 6), NEW text, NEW d, Guards(n, text, d)
  PROVE  HasVersion(d)
BY DEF Guards

Kept == AssetInv' /\ VersionsStay /\ ReplacedTextHasVersion

\* A number is taken: no version has it.
LEMMA Numbers ==
  ASSUME AssetInv, NEW e \in Editors, Number(e)
  PROVE  Kept
<1> DEFINE j == job[e]
           d == Here(e)
           n == NextVersion(d.versions)
           now == [j EXCEPT !.version = n]
<1>1. /\ Stage(e) = "number" /\ Advance(e, now) /\ disk' = disk
      /\ tangled' = tangled /\ kind' = kind
  BY DEF Number, Step
<1>2. /\ j.plan # <<>> /\ j.plan[1] = "number" /\ JobOk(j) /\ j.ws \in Workspaces /\ FilesOk(d)
      /\ j.ws \notin tangled => Alone(j, d)
  BY <1>1, StageIs
<1>3. n \in Nat /\ n \notin DOMAIN d.versions
  BY <1>2, NextVersionIsNew DEF FilesOk
<1>4. JobOk(now) /\ now.op = j.op /\ now.plan = j.plan /\ now.ws = j.ws /\ now.text = j.text /\ now.version = n
  BY <1>2, <1>3, JobChanged
<1>5. Store(e, d)
  BY <1>1, <1>2, SameFiles
<1>6. Keeps(d, d) /\ Saves(j, d, d)
  BY DEF Keeps, Saves
<1> DEFINE o == Onward(now)
<1> HIDE DEF j, d, n, now, o
<1>7. ASSUME j.ws \notin tangled, o.plan # <<>> PROVE Alone(o, d)
  <2>1. o.op = j.op /\ o.text = j.text /\ o.version = n /\ Len(o.plan) = Len(j.plan) - 1
    BY <1>2, <1>4, <1>7, Goes DEF o
  <2>2. NumberIsFree(o, d)
    BY <1>3, <2>1 DEF NumberIsFree
  <2>3. Protects(o, d)
    <3> SUFFICES ASSUME j.op = "rollback" PROVE Protects(o, d)
      BY <2>1 DEF Protects
    <3>1. Len(j.plan) \in {11, 5}
      BY <1>2, RollbackStands
    <3>2. Guards(Len(j.plan), j.text, d)
      BY <1>2, <1>7 DEF Alone, Protects
    <3>3. Guards(Len(o.plan), j.text, d)
      BY <2>1, <3>1, <3>2, GuardsAfterNumber
    <3> QED BY <2>1, <3>3 DEF Protects
  <2> QED BY <2>2, <2>3 DEF Alone
<1> QED BY <1>1, <1>2, <1>4, <1>5, <1>6, <1>7, Advanced DEF Kept, j, d, o

\* A rollback that replaces the latest text has it in a version.
LEMMA SavedFirst ==
  ASSUME NEW j, JobOk(j), j.plan # <<>>, j.plan[1] = "latest", NEW d, Alone(j, d), NEW f
  PROVE  Saves(j, d, f)
<1> SUFFICES ASSUME j.op = "rollback", "load" \notin {j.plan[i] : i \in DOMAIN j.plan} PROVE HasVersion(d)
  BY DEF Saves
<1>1. Len(j.plan) \in {10, 4} /\ ~(Len(j.plan) >= 6)
  BY RollbackStands
<1>2. Guards(Len(j.plan), j.text, d)
  BY DEF Alone, Protects
<1> QED BY <1>1, <1>2, GuardsAtLatest

\* The latest file is written.
LEMMA LatestIsWritten ==
  ASSUME AssetInv, NEW e \in Editors, WriteLatest(e)
  PROVE  Kept
<1> DEFINE j == job[e]
           d == Here(e)
           f == [d EXCEPT !.latest = j.text]
           o == Onward(j)
<1>1. /\ Stage(e) = "latest" /\ Advance(e, j) /\ Store(e, f)
      /\ tangled' = tangled /\ kind' = kind
  BY DEF WriteLatest, Step
<1>2. /\ j.plan # <<>> /\ j.plan[1] = "latest" /\ JobOk(j) /\ j.ws \in Workspaces /\ FilesOk(d)
      /\ j.ws \notin tangled => Alone(j, d)
  BY <1>1, StageIs
<1>3. FilesOk(f) /\ f.latest = j.text /\ f.versions = d.versions
  BY <1>2, FileWritten
<1> HIDE DEF j, d, f, o
<1>4. Keeps(d, f)
  BY <1>3 DEF Keeps
<1>5. j.ws \notin tangled => Saves(j, d, f)
  BY <1>2, SavedFirst
<1>6. ASSUME j.ws \notin tangled, o.plan # <<>> PROVE Alone(o, f)
  <2>1. o.op = j.op /\ o.text = j.text /\ o.version = j.version /\ Len(o.plan) = Len(j.plan) - 1
    BY <1>2, <1>6, Goes DEF o
  <2>2. Numbered(o.plan) => Numbered(j.plan)
    BY <1>2, <1>6, NumberStays DEF o
  <2>3. NumberIsFree(o, f)
    BY <1>2, <1>3, <1>6, <2>1, <2>2 DEF NumberIsFree, Alone
  <2>4. Protects(o, f)
    <3> SUFFICES ASSUME j.op = "rollback" PROVE Protects(o, f)
      BY <2>1 DEF Protects
    <3>1. Len(j.plan) \in {10, 4}
      BY <1>2, RollbackStands
    <3>2. Guards(Len(o.plan), f.latest, f)
      BY <2>1, <3>1, GuardsAfterLatest
    <3> QED BY <1>3, <2>1, <3>2 DEF Protects
  <2> QED BY <2>3, <2>4 DEF Alone
<1> QED BY <1>1, <1>2, <1>3, <1>4, <1>5, <1>6, Advanced DEF Kept, j, d, o

LEMMA VersionAdded ==
  ASSUME NEW d, FilesOk(d), NEW n \in Nat, NEW text
  PROVE  LET f == [d EXCEPT !.versions = With(@, n, text)]
         IN  /\ FilesOk(f) /\ f.latest = d.latest /\ n \in DOMAIN f.versions /\ f.versions[n] = text
             /\ n \notin DOMAIN d.versions => Keeps(d, f)
<1> DEFINE ver == d.versions
           vs == With(ver, n, text)
           f == [d EXCEPT !.versions = vs]
<1>1. Bounded(DOMAIN ver)
  BY DEF FilesOk
<1>2. /\ Bounded(DOMAIN vs) /\ vs[n] = text /\ DOMAIN vs = DOMAIN ver \cup {n}
      /\ \A v \in DOMAIN ver \ {n} : vs[v] = ver[v]
  <2>1. Bounded(DOMAIN vs) /\ DOMAIN vs = DOMAIN ver \cup {n}
    BY <1>1, BoundedWith
  <2>2. vs[n] = text /\ \A v \in DOMAIN ver \ {n} : vs[v] = ver[v]
    BY DEF With
  <2> QED BY <2>1, <2>2
<1> HIDE DEF vs
<1>3. FilesOk(f) /\ f.latest = d.latest /\ f.versions = vs
  BY <1>2, VersionsWritten
<1>4. n \notin DOMAIN d.versions => Keeps(d, f)
  BY <1>2, <1>3 DEF Keeps
<1> QED BY <1>2, <1>3, <1>4 DEF vs

\* A version file is written, under a number no file had.
LEMMA VersionIsWritten ==
  ASSUME AssetInv, NEW e \in Editors, WriteVersion(e)
  PROVE  Kept
<1> DEFINE j == job[e]
           d == Here(e)
           f == [d EXCEPT !.versions = With(@, j.version, j.text)]
           o == Onward(j)
<1>1. /\ Stage(e) = "version" /\ Advance(e, j) /\ Store(e, f)
      /\ tangled' = tangled /\ kind' = kind
  BY DEF WriteVersion, Step
<1>2. /\ j.plan # <<>> /\ j.plan[1] = "version" /\ JobOk(j) /\ j.ws \in Workspaces /\ FilesOk(d)
      /\ j.ws \notin tangled => Alone(j, d)
  BY <1>1, StageIs
<1>3. j.version \in Nat
  BY <1>2 DEF JobOk
<1> HIDE DEF j, d
<1>4. /\ FilesOk(f) /\ f.latest = d.latest /\ j.version \in DOMAIN f.versions /\ f.versions[j.version] = j.text
      /\ j.version \notin DOMAIN d.versions => Keeps(d, f)
  BY <1>2, <1>3, VersionAdded
<1> HIDE DEF f, o
<1>5. j.ws \notin tangled => Keeps(d, f)
  <2>1. ASSUME j.ws \notin tangled PROVE j.version \notin DOMAIN d.versions
    <3>1. Len(j.plan) >= 1
      BY <1>2, SomePlan DEF JobOk
    <3> QED BY <1>2, <2>1, <3>1 DEF Alone, NumberIsFree, Numbered
  <2> QED BY <1>4, <2>1
<1>6. Saves(j, d, f)
  BY <1>4 DEF Saves
<1>7. ASSUME j.ws \notin tangled, o.plan # <<>> PROVE Alone(o, f)
  <2>1. o.op = j.op /\ o.text = j.text /\ Len(o.plan) = Len(j.plan) - 1 /\ ~Numbered(o.plan)
    BY <1>2, <1>7, Goes, NumberStays DEF o
  <2>2. Protects(o, f)
    <3> SUFFICES ASSUME j.op = "rollback" PROVE Protects(o, f)
      BY <2>1 DEF Protects
    <3>1. Len(j.plan) \in {9, 3}
      BY <1>2, RollbackStands
    <3>2. Guards(Len(j.plan), j.text, d)
      BY <1>2, <1>7 DEF Alone, Protects
    <3>3. j.text = d.latest => HasVersion(f)
      BY <1>4 DEF HasVersion
    <3>4. Guards(Len(o.plan), j.text, f)
      BY <1>4, <2>1, <3>1, <3>2, <3>3, GuardsAfterVersion
    <3> QED BY <2>1, <3>4 DEF Protects
  <2> QED BY <2>1, <2>2 DEF Alone, NumberIsFree
<1> QED BY <1>1, <1>2, <1>4, <1>5, <1>6, <1>7, Advanced DEF Kept, j, d, o

\* A stage that takes no number and writes neither the latest file nor a version.
LEMMA QuietlyAdvanced ==
  ASSUME AssetInv, NEW e \in Editors, NEW s, Stage(e) = s,
         s \notin {"none", "number", "latest", "version", "load"},
         NEW now, JobOk(now), now.plan = job[e].plan, now.ws = job[e].ws, now.op = job[e].op,
         now.text = job[e].text, Advance(e, now),
         NEW f, FilesOk(f), Store(e, f), DOMAIN f.versions \subseteq DOMAIN Here(e).versions, Keeps(Here(e), f),
         s \in {"list", "append"} => f.latest = Here(e).latest /\ f.versions = Here(e).versions,
         tangled' = tangled, kind' = kind
  PROVE  Kept
<1>1. /\ job[e].plan # <<>> /\ job[e].plan[1] = s /\ JobOk(job[e])
      /\ job[e].ws \notin tangled => Alone(job[e], Here(e))
  BY StageIs
<1>2. job[e].op = "rollback" => s \in {"list", "append"}
  BY <1>1, RollbackStands
<1>3. job[e].ws \notin tangled =>
        /\ Onward(now).plan # <<>> => Alone(Onward(now), f)
        /\ Saves(job[e], Here(e), f)
  BY <1>1, <1>2, QuietStage
<1> QED BY <1>1, <1>3, Advanced DEF Kept

LEMMA FilesKept ==
  ASSUME NEW d
  PROVE  DOMAIN d.versions \subseteq DOMAIN d.versions /\ Keeps(d, d)
BY DEF Keeps

\* An editor is idle again, and the files are as they were or as f.
LEMMA EndsHere ==
  ASSUME AssetInv, NEW e \in Editors, job[e].plan # <<>>, job' = [job EXCEPT ![e] = Idle],
         NEW f, FilesOk(f), Store(e, f), tangled' = tangled, kind' = kind,
         job[e].ws \notin tangled => Keeps(Here(e), f) /\ Saves(job[e], Here(e), f)
  PROVE  Kept
BY IdleIsOk, OneMoves DEF Kept, Store, Here

LEMMA ReadsList ==
  ASSUME AssetInv, NEW e \in Editors, ReadList(e)
  PROVE  Kept
<1> DEFINE now == [job[e] EXCEPT !.listed = ReadSnapshots(Here(e).snaps)]
<1>1. /\ Stage(e) = "list" /\ disk' = disk /\ tangled' = tangled /\ kind' = kind
      /\ job' = [job EXCEPT ![e] = Idle] \/ Advance(e, now)
  BY DEF ReadList, Step
<1>2. /\ job[e].plan # <<>> /\ JobOk(job[e]) /\ job[e].ws \in Workspaces /\ FilesOk(Here(e))
  BY <1>1, StageIs
<1>3. /\ JobOk(now) /\ now.op = job[e].op /\ now.plan = job[e].plan /\ now.ws = job[e].ws
      /\ now.text = job[e].text
  BY <1>2, JobChanged, ZenonT(90)
<1>4. Store(e, Here(e))
  BY <1>1, <1>2, SameFiles
<1>5. Keeps(Here(e), Here(e)) /\ Saves(job[e], Here(e), Here(e))
  BY DEF Keeps, Saves
<1> HIDE DEF now
<1>6. CASE Advance(e, now)
  BY <1>1, <1>2, <1>3, <1>4, <1>6, FilesKept, QuietlyAdvanced
<1>7. CASE job' = [job EXCEPT ![e] = Idle]
  BY <1>1, <1>2, <1>4, <1>5, <1>7, EndsHere
<1> QED BY <1>1, <1>6, <1>7

\* The list of snapshots, the sources or the latest file are written or removed.
LEMMA WritesBeside ==
  ASSUME AssetInv, NEW e \in Editors,
         AppendSnapshot(e) \/ DropSnapshot(e) \/ WriteSources(e) \/ RemoveSources(e) \/ RemoveSnapshots(e)
         \/ RemoveLatest(e)
  PROVE  Kept
<1> DEFINE d == Here(e)
<1>1. /\ tangled' = tangled /\ kind' = kind /\ Advance(e, job[e])
      /\ Stage(e) \in {"append", "drop", "sources", "rmSources", "rmSnaps", "rmLatest"}
      /\ \/ \E x : Store(e, [d EXCEPT !.snaps = x])
         \/ \E x : Store(e, [d EXCEPT !.sources = x])
         \/ Stage(e) = "rmLatest" /\ \E x : Store(e, [d EXCEPT !.latest = x])
  BY DEF AppendSnapshot, DropSnapshot, WriteSources, RemoveSources, RemoveSnapshots, RemoveLatest, Step
<1>2. JobOk(job[e]) /\ FilesOk(d)
  BY <1>1, StageIs
<1> HIDE DEF d
<1>3. ASSUME NEW f, Store(e, f), FilesOk(f), f.versions = d.versions,
             Stage(e) # "rmLatest" => f.latest = d.latest
      PROVE  Kept
  <2>1. DOMAIN f.versions \subseteq DOMAIN d.versions /\ Keeps(d, f)
    BY <1>3 DEF Keeps
  <2> QED BY <1>1, <1>2, <1>3, <2>1, QuietlyAdvanced DEF d
<1>4. ASSUME NEW x, Store(e, [d EXCEPT !.snaps = x]) PROVE Kept
  BY <1>2, <1>3, <1>4, FileWritten
<1>5. ASSUME NEW x, Store(e, [d EXCEPT !.sources = x]) PROVE Kept
  BY <1>2, <1>3, <1>5, FileWritten
<1>6. ASSUME NEW x, Store(e, [d EXCEPT !.latest = x]), Stage(e) = "rmLatest" PROVE Kept
  BY <1>2, <1>3, <1>6, FileWritten
<1> QED BY <1>1, <1>4, <1>5, <1>6

LEMMA OpensVersions ==
  ASSUME AssetInv, NEW e \in Editors, OpenVersions(e)
  PROVE  Kept
<1> DEFINE now == [job[e] EXCEPT !.listed = SeqExt!SetToSeq(DOMAIN Here(e).versions)]
<1>1. Stage(e) = "dir" /\ disk' = disk /\ tangled' = tangled /\ kind' = kind /\ Advance(e, now)
  BY DEF OpenVersions, Step
<1>2. /\ JobOk(job[e]) /\ job[e].ws \in Workspaces /\ FilesOk(Here(e))
  BY <1>1, StageIs
<1>3. /\ JobOk(now) /\ now.op = job[e].op /\ now.plan = job[e].plan /\ now.ws = job[e].ws
      /\ now.text = job[e].text
  BY <1>2, JobChanged, ZenonT(90)
<1>4. Store(e, Here(e))
  BY <1>1, <1>2, SameFiles
<1> HIDE DEF now
<1> QED BY <1>1, <1>2, <1>3, <1>4, FilesKept, QuietlyAdvanced

\* A version file is removed.
LEMMA VersionRemoved ==
  ASSUME NEW d, FilesOk(d), NEW n
  PROVE  LET f == [d EXCEPT !.versions = [u \in DOMAIN @ \ {n} |-> @[u]]]
         IN  FilesOk(f) /\ f.latest = d.latest /\ DOMAIN f.versions \subseteq DOMAIN d.versions /\ Keeps(d, f)
<1> DEFINE ver == d.versions
           vs == [u \in DOMAIN ver \ {n} |-> ver[u]]
           f == [d EXCEPT !.versions = vs]
<1>1. Bounded(DOMAIN ver)
  BY DEF FilesOk
<1>2. Bounded(DOMAIN vs) /\ DOMAIN vs = DOMAIN ver \ {n} /\ \A v \in DOMAIN ver \ {n} : vs[v] = ver[v]
  BY <1>1 DEF Bounded
<1> HIDE DEF vs
<1>3. FilesOk(f) /\ f.latest = d.latest /\ f.versions = vs
  BY <1>2, VersionsWritten
<1>4. Keeps(d, f)
  BY <1>2, <1>3 DEF Keeps
<1> QED BY <1>2, <1>3, <1>4 DEF vs

\* A command that is no rollback, in a stage that takes no number, has nothing to guard.
LEMMA NothingToGuard ==
  ASSUME NEW j, JobOk(j), j.plan # <<>>, j.plan[1] \notin {"latest", "version"}, j.op # "rollback", NEW d
  PROVE  Alone(j, d)
BY DEF Alone, NumberIsFree, Protects, Numbered

LEMMA RemovesVersions ==
  ASSUME AssetInv, NEW e \in Editors, RemoveVersions(e)
  PROVE  Kept
<1>1. Stage(e) = "rmVersions" /\ tangled' = tangled /\ kind' = kind
  BY DEF RemoveVersions, Step
<1>2. /\ job[e].plan # <<>> /\ job[e].plan[1] = "rmVersions" /\ JobOk(job[e]) /\ job[e].ws \in Workspaces
      /\ FilesOk(Here(e))
  BY <1>1, StageIs
<1>3. CASE job[e].listed = <<>>
  <2>1. Advance(e, job[e]) /\ Store(e, Here(e))
    BY <1>2, <1>3, SameFiles DEF RemoveVersions
  <2> QED BY <1>1, <1>2, <2>1, FilesKept, QuietlyAdvanced
<1>4. CASE job[e].listed # <<>>
  <2>1. PICK x, n : /\ job' = [job EXCEPT ![e].listed = x]
                    /\ Store(e, [Here(e) EXCEPT !.versions = [u \in DOMAIN @ \ {n} |-> @[u]]])
    BY <1>4 DEF RemoveVersions
  <2> DEFINE j == [job[e] EXCEPT !.listed = x]
             f == [Here(e) EXCEPT !.versions = [u \in DOMAIN @ \ {n} |-> @[u]]]
  <2>2. job' = [job EXCEPT ![e] = j]
    BY <2>1
  <2>3. FilesOk(f) /\ Keeps(Here(e), f)
    BY <1>2, VersionRemoved
  <2>4. JobOk(j) /\ j.op = job[e].op /\ j.plan = job[e].plan /\ j.ws = job[e].ws
    BY <1>2, JobChanged, ZenonT(90)
  <2>5. job[e].op # "rollback"
    BY <1>2, RollbackStands
  <2>6. disk' = [disk EXCEPT ![job[e].ws] = f]
    BY <2>1 DEF Store
  <2> HIDE DEF f, j
  <2>7. Alone(j, f) /\ Saves(job[e], Here(e), f)
    BY <1>2, <2>4, <2>5, NothingToGuard DEF Saves
  <2> QED BY <1>1, <1>2, <2>2, <2>3, <2>4, <2>6, <2>7, OneMoves DEF Kept, Here
<1> QED BY <1>3, <1>4

\* The target of a rollback is read, after the protection.
LEMMA LoadsTarget ==
  ASSUME AssetInv, NEW e \in Editors, LoadTarget(e)
  PROVE  Kept
<1> DEFINE j == job[e]
           d == Here(e)
           text == d.versions[j.target]
           now == [j EXCEPT !.text = text]
           o == Onward(now)
<1>1. /\ Stage(e) = "load" /\ disk' = disk /\ tangled' = tangled /\ kind' = kind
      /\ job' = [job EXCEPT ![e] = Idle] \/ Advance(e, now)
  BY DEF LoadTarget, Step
<1>2. /\ j.plan # <<>> /\ j.plan[1] = "load" /\ JobOk(j) /\ j.ws \in Workspaces /\ FilesOk(d)
      /\ j.ws \notin tangled => Alone(j, d)
  BY <1>1, StageIs
<1>3. JobOk(now) /\ now.op = j.op /\ now.plan = j.plan /\ now.ws = j.ws
  BY <1>2, JobChanged, ZenonT(90)
<1>4. Store(e, d) /\ Keeps(d, d) /\ Saves(j, d, d)
  BY <1>1, <1>2, SameFiles DEF Keeps, Saves
<1> HIDE DEF j, d, text, now, o
<1>5. ASSUME j.ws \notin tangled, o.plan # <<>> PROVE Alone(o, d)
  <2>1. o.op = j.op /\ Len(o.plan) = Len(j.plan) - 1 /\ ~Numbered(o.plan)
    BY <1>2, <1>3, <1>5, Goes, NumberStays DEF o
  <2>2. ASSUME j.op = "rollback" PROVE Guards(Len(o.plan), o.text, d)
    <3>1. Len(j.plan) = 6 /\ Guards(Len(j.plan), j.text, d)
      BY <1>2, <1>5, <2>2, RollbackStands DEF Alone, Protects
    <3>2. HasVersion(d) /\ Len(o.plan) = 5
      BY <2>1, <3>1 DEF Guards
    <3> QED BY <3>2 DEF Guards
  <2> QED BY <2>1, <2>2 DEF Alone, NumberIsFree, Protects
<1>6. CASE Advance(e, now)
  BY <1>1, <1>2, <1>3, <1>4, <1>5, <1>6, Advanced DEF Kept, j, d, o
<1>7. CASE job' = [job EXCEPT ![e] = Idle]
  BY <1>1, <1>2, <1>4, <1>7, EndsHere DEF j, d
<1> QED BY <1>1, <1>6, <1>7

\* A stage fails: the file it was to write is as it was, or spoilt.
LEMMA StageFails ==
  ASSUME AssetInv, NEW e \in Editors, FailStage(e)
  PROVE  Kept
<1> DEFINE j == job[e]
           d == Here(e)
<1>1. /\ j.plan # <<>> /\ job' = [job EXCEPT ![e] = Idle] /\ tangled' = tangled /\ kind' = kind
      /\ Store(e, d) \/ Store(e, Spoiled(e))
  BY DEF FailStage
<1>2. /\ JobOk(j) /\ j.ws \in Workspaces /\ FilesOk(d)
      /\ j.ws \notin tangled => Alone(j, d)
  BY <1>1 DEF AssetInv, Here, JobOk
<1>3. j.plan[1] = Stage(e) /\ Len(j.plan) >= 1
  <2>1. Len(j.plan) >= 1 /\ Head(j.plan) = j.plan[1]
    BY <1>1, <1>2, SomePlan DEF JobOk
  <2> QED BY <1>1, <2>1 DEF Stage
<1>4. /\ Stage(e) = "latest" => Spoiled(e) = [d EXCEPT !.latest = Spoilt]
      /\ Stage(e) = "version" => Spoiled(e) = [d EXCEPT !.versions = With(@, j.version, Spoilt)]
      /\ Stage(e) \in {"append", "drop"} => Spoiled(e) = [d EXCEPT !.snaps = Spoilt]
      /\ Stage(e) \notin {"latest", "version", "append", "drop"} => Spoiled(e) = d
  BY DEF Spoiled
<1> HIDE DEF j, d
<1>5. ASSUME NEW f, FilesOk(f), Store(e, f), j.ws \notin tangled => Keeps(d, f) /\ Saves(j, d, f)
      PROVE  Kept
  BY <1>1, <1>5, EndsHere DEF j, d
<1>6. CASE Store(e, d)
  BY <1>2, <1>5, <1>6 DEF Keeps, Saves
<1>7. CASE Store(e, Spoiled(e)) /\ Stage(e) = "latest"
  <2> DEFINE f == [d EXCEPT !.latest = Spoilt]
  <2>1. FilesOk(f) /\ f.versions = d.versions
    BY <1>2, FileWritten
  <2> HIDE DEF f
  <2>2. Keeps(d, f)
    BY <2>1 DEF Keeps
  <2>3. j.ws \notin tangled => Saves(j, d, f)
    BY <1>1, <1>2, <1>3, <1>7, SavedFirst DEF j
  <2>4. Store(e, f)
    BY <1>4, <1>7 DEF f
  <2> QED BY <1>5, <2>1, <2>2, <2>3, <2>4
<1>8. CASE Store(e, Spoiled(e)) /\ Stage(e) = "version"
  <2> DEFINE f == [d EXCEPT !.versions = With(@, j.version, Spoilt)]
  <2>1. FilesOk(f) /\ f.latest = d.latest /\ (j.version \notin DOMAIN d.versions => Keeps(d, f))
    <3>1. j.version \in Nat
      BY <1>2 DEF JobOk
    <3> QED BY <1>2, <3>1, VersionAdded
  <2>2. Store(e, f)
    BY <1>4, <1>8
  <2> HIDE DEF f
  <2>3. j.ws \notin tangled => j.version \notin DOMAIN d.versions
    BY <1>2, <1>3, <1>8 DEF Alone, NumberIsFree, Numbered
  <2> QED BY <1>5, <2>1, <2>2, <2>3 DEF Saves
<1>9. CASE Store(e, Spoiled(e)) /\ Stage(e) \in {"append", "drop"}
  <2> DEFINE f == [d EXCEPT !.snaps = Spoilt]
  <2>1. FilesOk(f) /\ f.latest = d.latest /\ f.versions = d.versions
    BY <1>2, FileWritten
  <2>2. Store(e, f)
    BY <1>4, <1>9
  <2> HIDE DEF f
  <2> QED BY <1>5, <2>1, <2>2 DEF Keeps, Saves
<1> QED BY <1>1, <1>4, <1>6, <1>7, <1>8, <1>9 DEF d

\* The shell restarts: nobody is at work.
LEMMA Restarts ==
  ASSUME AssetInv, Restart
  PROVE  Kept
<1>1. /\ disk' = disk /\ tangled' = tangled /\ kind' = kind
      /\ job' = [e \in Editors |-> Idle]
  BY DEF Restart
<1>2. \A e \in Editors : job'[e] = Idle
  BY <1>1
<1>3. AssetInv'
  BY <1>1, <1>2, IdleIsOk DEF AssetInv
<1> QED BY <1>1, <1>3 DEF Kept, VersionsStay, ReplacedTextHasVersion

(***************************************************************************)
(* The plans.                                                              *)
(***************************************************************************)
PlanOk(p) == p \in Seq(Stages) /\ p # <<>> /\ WellOrdered(p) /\ ~Numbered(p)

\* Two plans, one after the other.
At(p, i) == p[i]
Cat(s, t) == s \o t
LEMMA Joined ==
  ASSUME NEW S, NEW s \in Seq(S), NEW t \in Seq(S)
  PROVE  Cat(s, t) \in Seq(S) /\ Len(Cat(s, t)) = Len(s) + Len(t)
BY DEF Cat

LEMMA JoinedFirst ==
  ASSUME NEW S, NEW s \in Seq(S), NEW t \in Seq(S), NEW i \in 1..Len(s)
  PROVE  At(Cat(s, t), i) = At(s, i)
BY DEF At, Cat

LEMMA JoinedLast ==
  ASSUME NEW S, NEW s \in Seq(S), NEW t \in Seq(S), NEW i \in 1..Len(t)
  PROVE  At(Cat(s, t), Len(s) + i) = At(t, i)
<1>1. (s \o t)[Len(s) + i] = t[i]
  OBVIOUS
<1> QED BY <1>1 DEF At, Cat

LEMMA NotEmpty ==
  ASSUME NEW p, NEW n \in Nat, Len(p) = n, n > 0
  PROVE  p # <<>>
<1>1. Len(<<>>) = 0
  OBVIOUS
<1>2. ASSUME p = <<>> PROVE Len(p) = 0
  BY <1>1, <1>2, Zenon
<1> QED BY <1>2

\* The plans of the kinds that have no snapshots, and of those that have.
LEMMA SavesInOrder ==
  /\ SaveCapability \in Seq(Stages) /\ Len(SaveCapability) = 3
  /\ SaveCapability[1] = "number" /\ SaveCapability[2] = "latest" /\ SaveCapability[3] = "version"
  /\ SaveDevice \in Seq(Stages) /\ Len(SaveDevice) = 5
  /\ SaveDevice[1] = "number" /\ SaveDevice[2] = "latest" /\ SaveDevice[3] = "version"
  /\ SaveDevice[4] = "list" /\ SaveDevice[5] = "append"
<1> DEFINE a == <<"number">>
<1>1. a \in Seq(Stages) /\ Len(a) = 1 /\ a[1] = "number"
  BY DEF Stages
<1>2. Mirror \in Seq(Stages) /\ Len(Mirror) = 2 /\ Mirror[1] = "latest" /\ Mirror[2] = "version"
  BY DEF Mirror, Stages
<1>3. Note \in Seq(Stages) /\ Len(Note) = 2 /\ Note[1] = "list" /\ Note[2] = "append"
  BY DEF Note, Stages
<1> HIDE DEF a
<1> DEFINE b == Cat(a, Mirror)
<1>4. /\ b \in Seq(Stages) /\ Len(b) = 3
      /\ (\A i \in 1..1 : At(b, i) = At(a, i)) /\ \A i \in 1..2 : At(b, 1 + i) = At(Mirror, i)
  <2>1. a \in Seq(Stages) /\ Mirror \in Seq(Stages)
    BY <1>1, <1>2
  <2>2. Len(b) = Len(a) + Len(Mirror) /\ b \in Seq(Stages)
    BY <2>1, Joined, Zenon
  <2>3. \A i \in 1..Len(a) : At(b, i) = At(a, i)
    BY <2>1, JoinedFirst, Zenon
  <2>4. \A i \in 1..Len(Mirror) : At(b, Len(a) + i) = At(Mirror, i)
    BY <2>1, JoinedLast, Zenon
  <2> QED BY <1>1, <1>2, <2>2, <2>3, <2>4
<1> HIDE DEF b
<1>5. At(b, 1) = "number" /\ At(b, 2) = "latest" /\ At(b, 3) = "version"
  BY <1>1, <1>2, <1>4 DEF At
<1> DEFINE c == Cat(b, Note)
<1>6. /\ c \in Seq(Stages) /\ Len(c) = 5
      /\ (\A i \in 1..3 : At(c, i) = At(b, i)) /\ \A i \in 1..2 : At(c, 3 + i) = At(Note, i)
  <2>1. b \in Seq(Stages) /\ Note \in Seq(Stages)
    BY <1>3, <1>4
  <2>2. Len(c) = Len(b) + Len(Note) /\ c \in Seq(Stages)
    BY <2>1, Joined, Zenon
  <2>3. \A i \in 1..Len(b) : At(c, i) = At(b, i)
    BY <2>1, JoinedFirst, Zenon
  <2>4. \A i \in 1..Len(Note) : At(c, Len(b) + i) = At(Note, i)
    BY <2>1, JoinedLast, Zenon
  <2> QED BY <1>3, <1>4, <2>2, <2>3, <2>4
<1> HIDE DEF c
<1>7. c[1] = "number" /\ c[2] = "latest" /\ c[3] = "version" /\ c[4] = "list" /\ c[5] = "append"
  BY <1>3, <1>5, <1>6 DEF At
<1>8. SaveCapability = b /\ SaveDevice = c
  BY DEF SaveCapability, SaveDevice, a, b, c, Cat
<1> QED BY <1>4, <1>5, <1>6, <1>7, <1>8 DEF At

\* The plan of a rollback, stage by stage.
LEMMA RollsBackInOrder ==
  /\ RollbackPlan \in Seq(Stages) /\ Len(RollbackPlan) = 11
  /\ \A i \in 1..11 : RollbackPlan[i] = RollbackStages[i]
<1> DEFINE a == <<"load">>
           b == Cat(SaveDevice, a)
           c == Cat(b, SaveDevice)
<1>1. a \in Seq(Stages) /\ Len(a) = 1 /\ At(a, 1) = "load"
  BY DEF Stages, At
<1> HIDE DEF a, b, c
<1>2. /\ b \in Seq(Stages) /\ Len(b) = 6
      /\ (\A i \in 1..5 : At(b, i) = At(SaveDevice, i)) /\ \A i \in 1..1 : At(b, 5 + i) = At(a, i)
  <2>1. SaveDevice \in Seq(Stages) /\ a \in Seq(Stages)
    BY <1>1, SavesInOrder
  <2>2. Len(b) = Len(SaveDevice) + Len(a) /\ b \in Seq(Stages)
    BY <2>1, Joined, Zenon DEF b
  <2>3. \A i \in 1..Len(SaveDevice) : At(b, i) = At(SaveDevice, i)
    BY <2>1, JoinedFirst, Zenon DEF b
  <2>4. \A i \in 1..Len(a) : At(b, Len(SaveDevice) + i) = At(a, i)
    BY <2>1, JoinedLast, Zenon DEF b
  <2> QED BY <1>1, SavesInOrder, <2>2, <2>3, <2>4
<1>3. /\ c \in Seq(Stages) /\ Len(c) = 11
      /\ (\A i \in 1..6 : At(c, i) = At(b, i)) /\ \A i \in 1..5 : At(c, 6 + i) = At(SaveDevice, i)
  <2>1. b \in Seq(Stages) /\ SaveDevice \in Seq(Stages)
    BY <1>2, SavesInOrder
  <2>2. Len(c) = Len(b) + Len(SaveDevice) /\ c \in Seq(Stages)
    BY <2>1, Joined, Zenon DEF c
  <2>3. \A i \in 1..Len(b) : At(c, i) = At(b, i)
    BY <2>1, JoinedFirst, Zenon DEF c
  <2>4. \A i \in 1..Len(SaveDevice) : At(c, Len(b) + i) = At(SaveDevice, i)
    BY <2>1, JoinedLast, Zenon DEF c
  <2> QED BY <1>2, SavesInOrder, <2>2, <2>3, <2>4
<1>4. /\ At(SaveDevice, 1) = "number" /\ At(SaveDevice, 2) = "latest" /\ At(SaveDevice, 3) = "version"
      /\ At(SaveDevice, 4) = "list" /\ At(SaveDevice, 5) = "append"
  BY SavesInOrder DEF At
<1>5. /\ At(c, 1) = "number" /\ At(c, 2) = "latest" /\ At(c, 3) = "version"
      /\ At(c, 4) = "list" /\ At(c, 5) = "append" /\ At(c, 6) = "load"
      /\ At(c, 7) = "number" /\ At(c, 8) = "latest" /\ At(c, 9) = "version"
      /\ At(c, 10) = "list" /\ At(c, 11) = "append"
  BY <1>1, <1>2, <1>3, <1>4
<1>6. ASSUME NEW i \in 1..11 PROVE c[i] = RollbackStages[i]
  <2>1. \/ i = 1 \/ i = 2 \/ i = 3 \/ i = 4 \/ i = 5 \/ i = 6 \/ i = 7 \/ i = 8 \/ i = 9 \/ i = 10 \/ i = 11
    OBVIOUS
  <2> QED BY <1>5, <2>1 DEF RollbackStages, At
<1>7. RollbackPlan = c
  BY DEF RollbackPlan, a, b, c, Cat
<1> QED BY <1>3, <1>6, <1>7

\* A plan that is of a save, or that begins like one.
LEMMA SavesMayBegin ==
  ASSUME NEW p \in Seq(Stages), NEW n \in {3, 5}, Len(p) = n,
         p[1] = "number", p[2] = "latest", p[3] = "version", n = 5 => p[4] = "list" /\ p[5] = "append"
  PROVE  PlanOk(p)
<1>1. ASSUME NEW i \in 2..n
      PROVE  /\ p[i] = "version" => p[i - 1] = "latest"
             /\ p[i] = "latest" /\ i < n => p[i - 1] = "number"
  <2>1. i = 2 \/ i = 3 \/ (n = 5 /\ (i = 4 \/ i = 5))
    OBVIOUS
  <2>2. i - 1 = 1 \/ i # 2
    OBVIOUS
  <2>3. i - 1 = 2 \/ i # 3
    OBVIOUS
  <2> QED BY <2>1, <2>2, <2>3
<1>2. WellOrdered(p)
  BY <1>1 DEF WellOrdered
<1> QED BY <1>2, NotEmpty DEF PlanOk, Numbered

LEMMA RollbackMayBegin ==
  PlanOk(RollbackPlan) /\ InRollback(RollbackPlan)
<1> DEFINE p == RollbackPlan
<1>1. p \in Seq(Stages) /\ Len(p) = 11 /\ \A i \in 1..11 : p[i] = RollbackStages[i]
  BY RollsBackInOrder
<1> HIDE DEF p
<1>2. /\ p[1] = "number" /\ p[2] = "latest" /\ p[3] = "version" /\ p[4] = "list" /\ p[5] = "append"
      /\ p[6] = "load"
      /\ p[7] = "number" /\ p[8] = "latest" /\ p[9] = "version" /\ p[10] = "list" /\ p[11] = "append"
  BY <1>1 DEF RollbackStages
<1>3. ASSUME NEW i \in 2..11
      PROVE  /\ p[i] = "version" => p[i - 1] = "latest"
             /\ p[i] = "latest" /\ i < 11 => p[i - 1] = "number"
  <2>1. \/ i = 2 \/ i = 3 \/ i = 4 \/ i = 5 \/ i = 6 \/ i = 7 \/ i = 8 \/ i = 9 \/ i = 10 \/ i = 11
    OBVIOUS
  <2>2. (i = 2 => i - 1 = 1) /\ (i = 3 => i - 1 = 2) /\ (i = 8 => i - 1 = 7) /\ (i = 9 => i - 1 = 8)
    OBVIOUS
  <2> QED BY <1>2, <2>1, <2>2
<1>4. WellOrdered(p)
  BY <1>1, <1>3 DEF WellOrdered
<1>5. p # <<>> /\ ~Numbered(p)
  BY <1>1, <1>2, NotEmpty DEF Numbered
<1>6. \A i \in 1..11 : 11 - 11 + i = i
  OBVIOUS
<1>7. InRollback(p)
  BY <1>1, <1>6 DEF InRollback
<1> QED BY <1>1, <1>4, <1>5, <1>7 DEF PlanOk, p

\* A plan that writes neither the latest file nor a version.
LEMMA OtherPlans ==
  ASSUME NEW S, "latest" \notin S, "version" \notin S, NEW p \in Seq(S), p \in Seq(Stages), p # <<>>
  PROVE  PlanOk(p)
<1>1. Len(p) \in Nat /\ \A i \in 1..Len(p) : p[i] \in S
  OBVIOUS
<1>2. WellOrdered(p)
  BY <1>1 DEF WellOrdered
<1>3. ~Numbered(p)
  BY <1>1 DEF Numbered
<1> QED BY <1>1, <1>2, <1>3 DEF PlanOk

LEMMA BindMayBegin ==
  PlanOk(BindPlan)
<1>1. BindPlan \in Seq(Stages) /\ Len(BindPlan) = 1 /\ BindPlan[1] = "latest"
  BY DEF BindPlan, Stages
<1>2. WellOrdered(BindPlan) /\ ~Numbered(BindPlan)
  BY <1>1 DEF WellOrdered, Numbered
<1> QED BY <1>1, <1>2, NotEmpty, SMTT(60) DEF PlanOk

LEMMA DeletesInOrder ==
  ASSUME NEW k
  PROVE  PlanOk(DeletePlan(k)) /\ PlanOk(DropPlan) /\ PlanOk(SourcesPlan) /\ PlanOk(DeletePrefixPlan)
<1> DEFINE S == {"rmLatest", "dir", "rmVersions", "rmSources", "rmSnaps", "list", "drop", "sources"}
           a == <<"rmLatest", "dir", "rmVersions">>
           b == IF k = "connection" THEN <<>> ELSE <<"rmSources">>
           c == IF k = "device" THEN <<"rmSnaps">> ELSE <<>>
           ab == Cat(a, b)
           abc == Cat(ab, c)
<1>1. /\ a \in Seq(S) /\ Len(a) = 3 /\ <<>> \in Seq(S) /\ Len(<<>>) = 0
      /\ <<"rmSources">> \in Seq(S) /\ <<"rmSnaps">> \in Seq(S)
  OBVIOUS
<1>2. /\ a \in Seq(Stages) /\ <<>> \in Seq(Stages)
      /\ <<"rmSources">> \in Seq(Stages) /\ <<"rmSnaps">> \in Seq(Stages)
  BY DEF Stages
<1>3. /\ DropPlan \in Seq(S) /\ DropPlan \in Seq(Stages) /\ Len(DropPlan) = 2
      /\ SourcesPlan \in Seq(S) /\ SourcesPlan \in Seq(Stages) /\ Len(SourcesPlan) = 1
      /\ DeletePrefixPlan \in Seq(S) /\ DeletePrefixPlan \in Seq(Stages)
  BY DEF DropPlan, SourcesPlan, DeletePrefixPlan, Stages
<1>4. "latest" \notin S /\ "version" \notin S
  OBVIOUS
<1>5. DeletePlan(k) = abc
  BY DEF DeletePlan, Cat
<1> HIDE DEF S, a
<1>6. b \in Seq(S) /\ b \in Seq(Stages) /\ c \in Seq(S) /\ c \in Seq(Stages)
  BY <1>1, <1>2, Zenon
<1> HIDE DEF b, c
<1>7. ab \in Seq(S) /\ ab \in Seq(Stages) /\ Len(ab) = 3 + Len(b) /\ Len(b) \in Nat
  <2>1. ab \in Seq(S) /\ ab \in Seq(Stages) /\ Len(ab) = Len(a) + Len(b)
    BY <1>1, <1>2, <1>6, Joined, Zenon DEF ab
  <2> QED BY <1>1, <1>6, <2>1
<1> HIDE DEF ab
<1>8. abc \in Seq(S) /\ abc \in Seq(Stages) /\ Len(abc) = Len(ab) + Len(c) /\ Len(c) \in Nat
  <2>1. abc \in Seq(S) /\ abc \in Seq(Stages) /\ Len(abc) = Len(ab) + Len(c)
    BY <1>6, <1>7, Joined, Zenon
  <2> QED BY <1>6, <2>1
<1> HIDE DEF abc
<1>9. abc # <<>>
  <2>1. Len(abc) \in Nat /\ Len(abc) > 0
    BY <1>7, <1>8
  <2> QED BY <2>1, NotEmpty
<1>10. DropPlan # <<>> /\ SourcesPlan # <<>> /\ DeletePrefixPlan # <<>>
  BY DEF DropPlan, SourcesPlan, DeletePrefixPlan
<1> QED BY <1>3, <1>4, <1>5, <1>8, <1>9, <1>10, OtherPlans

LEMMA PlansInOrder ==
  ASSUME NEW op, kind \in {"device", "capability", "connection"}
  PROVE  PlanOk(Plan(op)) /\ (op = "rollback" => InRollback(Plan(op)) /\ Len(Plan(op)) = 11)
<1>1. CASE op = "rollback"
  <2>1. Plan(op) = RollbackPlan
    BY <1>1 DEF Plan
  <2> QED BY <2>1, RollbackMayBegin, RollsBackInOrder
<1>2. PlanOk(SaveDevice) /\ PlanOk(SaveCapability)
  BY SavesInOrder, SavesMayBegin
<1>3. SaveConnection = SaveCapability /\ SnapshotPlan = SaveDevice /\ SaveEdit = SaveDevice
  BY DEF SaveConnection, SaveCapability, SnapshotPlan, SaveEdit
<1>4. CASE op = "save"
  <2>1. Plan(op) \in {SaveDevice, SaveCapability, SaveConnection}
    BY <1>4 DEF Plan
  <2> QED BY <1>2, <1>3, <1>4, <2>1
<1>5. CASE op \notin {"save", "rollback"}
  <2>1. Plan(op) \in {DeletePlan(kind), DeletePrefixPlan, BindPlan, SnapshotPlan, DropPlan, SourcesPlan, SaveEdit}
    BY <1>5 DEF Plan
  <2> QED BY <1>2, <1>3, <1>5, <2>1, DeletesInOrder, BindMayBegin
<1> QED BY <1>1, <1>4, <1>5

(***************************************************************************)
(* The history of an asset.                                                *)
(***************************************************************************)
LEMMA AssetStarts ==
  AssetInit => AssetInv
<1> SUFFICES ASSUME AssetInit PROVE AssetInv
  OBVIOUS
<1>1. kind \in {"device", "capability", "connection"}
  BY AssetAssumption DEF AssetInit
<1>2. /\ disk = [w \in Workspaces |-> disk[w]] /\ job = [e \in Editors |-> job[e]]
      /\ \A e \in Editors : job[e] = Idle
  BY DEF AssetInit
<1>3. Bounded({}) /\ Bounded(1..1)
  <2>1. \A d \in {} : d <= 0
    OBVIOUS
  <2>2. 1 \in Nat /\ \A d \in 1..1 : d \in Nat /\ d <= 1
    OBVIOUS
  <2> QED BY <2>1, <2>2 DEF Bounded
<1>4. ASSUME NEW w \in Workspaces PROVE FilesOk(disk[w])
  <2>1. PICK x, y : disk[w] \in {[latest |-> x, versions |-> <<x>>, snaps |-> y, sources |-> FALSE], Empty}
    BY DEF AssetInit, Empty
  <2>2. DOMAIN <<>> = {} /\ DOMAIN <<x>> = 1..1
    OBVIOUS
  <2> QED BY <1>3, <2>1, <2>2 DEF FilesOk, Empty
<1> QED BY <1>1, <1>2, <1>4, IdleIsOk DEF AssetInv

\* A command begins on files nobody is at work on, or they are tangled from now on.
LEMMA Begins ==
  ASSUME AssetInv, NEW e \in Editors, NEW call, NEW w \in Workspaces, BeginCommand(e, call, w)
  PROVE  Kept
<1> DEFINE p == Plan(call.op)
           text == Changed(disk[w].latest, call)
           j == Started(e, call, w)
<1>1. /\ job[e].plan = <<>> /\ text # Rejected /\ job' = [job EXCEPT ![e] = j]
      /\ disk' = disk /\ kind' = kind
      /\ tangled' = IF Busy(w) = {} THEN tangled ELSE tangled \cup {w}
  BY DEF BeginCommand
<1>2. j = [op |-> call.op, plan |-> p, ws |-> w, text |-> text, version |-> 0, target |-> call.index,
            listed |-> <<>>]
  <2>1. j = [Idle EXCEPT !.op = call.op, !.plan = p, !.ws = w, !.text = text, !.target = call.index]
    BY DEF Started
  <2> HIDE DEF p, text, j
  <2> QED BY <2>1 DEF Idle
<1>3. PlanOk(p) /\ (call.op = "rollback" => InRollback(p) /\ Len(p) = 11)
  BY PlansInOrder DEF AssetInv
<1>4. call.op = "rollback" => text = disk[w].latest
  BY <1>1 DEF Changed
<1>5. /\ \A x \in Editors : job'[x] = IF x = e THEN j ELSE job[x]
      /\ job' = [x \in Editors |-> job'[x]]
  BY <1>1 DEF AssetInv
<1> HIDE DEF p, text, j
<1>6. /\ j.op = call.op /\ j.plan = p /\ j.ws = w /\ j.text = text /\ j.version = 0
  BY <1>2
<1>7. JobOk(j)
  BY <1>2, <1>3 DEF JobOk, PlanOk
<1>8. Alone(j, disk[w])
  <2>1. NumberIsFree(j, disk[w])
    BY <1>3, <1>6 DEF NumberIsFree, PlanOk
  <2>2. call.op = "rollback" => Guards(Len(p), text, disk[w])
    BY <1>3, <1>4, GuardsAtFirst
  <2> QED BY <1>6, <2>1, <2>2 DEF Alone, Protects
<1>9. \A x \in Workspaces : x \notin tangled' => x \notin tangled
  BY <1>1
<1>10. ASSUME NEW x \in Editors, job'[x].plan # <<>>, job'[x].ws \notin tangled'
       PROVE  Alone(job'[x], disk'[job'[x].ws])
  <2>1. CASE x = e
    BY <1>1, <1>5, <1>6, <1>8, <2>1
  <2>2. CASE x # e
    <3>1. job'[x] = job[x] /\ job[x].ws \in Workspaces
      BY <1>5, <2>2 DEF AssetInv, JobOk
    <3> QED BY <1>1, <1>9, <1>10, <3>1 DEF AssetInv
  <2> QED BY <2>1, <2>2
<1>11. ASSUME NEW x \in Editors, x # e, job[x].plan # <<>>, job[x].ws = w PROVE w \in tangled'
  BY <1>1, <1>11 DEF Busy
<1>12. ASSUME NEW x \in Editors, NEW y \in Editors, job'[x].plan # <<>>, job'[y].plan # <<>>,
              job'[x].ws = job'[y].ws, job'[x].ws \notin tangled'
       PROVE  x = y
  <2>1. CASE x # e /\ y # e
    <3>1. job'[x] = job[x] /\ job'[y] = job[y] /\ job[x].ws \in Workspaces
      BY <1>5, <2>1 DEF AssetInv, JobOk
    <3> QED BY <1>9, <1>12, <3>1 DEF AssetInv
  <2>2. CASE x = e /\ y # e
    BY <1>5, <1>6, <1>11, <1>12, <2>2
  <2>3. CASE x # e /\ y = e
    BY <1>5, <1>6, <1>11, <1>12, <2>3
  <2> QED BY <2>1, <2>2, <2>3
<1>13. AssetInv'
  <2>1. \A x \in Editors : JobOk(job'[x])
    BY <1>5, <1>7 DEF AssetInv
  <2>2. /\ kind' \in {"device", "capability", "connection"}
        /\ disk' = [x \in Workspaces |-> disk'[x]]
        /\ \A x \in Workspaces : FilesOk(disk'[x])
    BY <1>1 DEF AssetInv
  <2> QED BY <1>5, <1>10, <1>12, <2>1, <2>2 DEF AssetInv
<1> QED BY <1>1, <1>13 DEF Kept, VersionsStay, ReplacedTextHasVersion

\* The tokens, and a step that changes nothing.
LEMMA NobodyWorks ==
  ASSUME AssetInv, kind' = kind, disk' = disk, job' = job, tangled' = tangled
  PROVE  Kept
<1>1. AssetInv'
  BY DEF AssetInv, Workspaces
<1> QED BY <1>1 DEF Kept, VersionsStay, ReplacedTextHasVersion

LEMMA AssetStays ==
  AssetInv /\ [AssetNext]_assetVars => Kept
<1> SUFFICES ASSUME AssetInv, [AssetNext]_assetVars PROVE Kept
  OBVIOUS
<1>1. ASSUME NEW e \in Editors, JobStep(e) PROVE Kept
  BY <1>1, Numbers, LatestIsWritten, VersionIsWritten, ReadsList, WritesBeside, LoadsTarget, OpensVersions,
     RemovesVersions DEF JobStep
<1>2. ASSUME NEW e \in Editors, FailStage(e) PROVE Kept
  BY <1>2, StageFails
<1>3. ASSUME NEW e \in Editors, NEW call, Command(e, call) PROVE Kept
  BY <1>3, Begins DEF Command, Workspaces
<1>4. CASE Restart
  BY <1>4, Restarts
<1>5. ASSUME NEW t \in Tokens, NEW call, Ask(t, call) PROVE Kept
  BY <1>5, NobodyWorks DEF Ask
<1>6. ASSUME NEW t \in Tokens, NEW e \in Editors, Confirm(t, e) PROVE Kept
  <2>1. CASE BeginCommand(e, token[t].call, Home)
    BY <2>1, Begins DEF Workspaces
  <2>2. CASE UNCHANGED <<kind, disk, job, commands, faults, tangled, stripped>>
    BY <2>2, NobodyWorks
  <2> QED BY <1>6, <2>1, <2>2 DEF Confirm
<1>7. ASSUME NEW t \in Tokens, AgeToken(t) \/ CancelToken(t) PROVE Kept
  BY <1>7, NobodyWorks DEF AgeToken, CancelToken
<1>8. CASE UNCHANGED assetVars
  BY <1>8, NobodyWorks DEF assetVars
<1> QED BY <1>1, <1>2, <1>3, <1>4, <1>5, <1>6, <1>7, <1>8 DEF AssetNext

\* What an editor wrote is not lost by a later command on the asset.
THEOREM WorkIsKept == AssetSpec => WorkKept
<1>1. AssetInv /\ [AssetNext]_assetVars => AssetInv' /\ VersionsStay /\ ReplacedTextHasVersion
  BY AssetStays DEF Kept
<1> QED BY <1>1, AssetStarts, PTL DEF AssetSpec, WorkKept, HistoryKept, RollbackKeepsWork

\* Step by step from 0 to N.
LEMMA StepByStep ==
  ASSUME NEW N \in Nat, NEW S, 0 \in S, \A i \in 1..N : i - 1 \in S => i \in S
  PROVE  \A i \in 0..N : i \in S
<1> DEFINE T == {i \in 0..N : i \notin S}
<1> SUFFICES ASSUME T # {} PROVE FALSE
  OBVIOUS
<1>0. T \subseteq Nat
  OBVIOUS
<1>1. PICK x \in T : \A y \in T : x <= y
  <2> HIDE DEF T
  <2> QED BY <1>0, LeastNatural
<1>2. x \in 1..N
  BY <1>1
<1>3. x - 1 \in 0..N /\ ~(x <= x - 1)
  BY <1>2
<1>4. x - 1 \notin T
  BY <1>1, <1>3
<1> QED BY <1>1, <1>2, <1>3, <1>4

\* A recursion over 0..N whose steps stay in a set has a solution there.
Solution(f, N, A, a, g) ==
  f \in [0..N -> A] /\ f[0] = a /\ \A i \in 1..N : f[i] = g[<<i, f[i - 1]>>]
LEMMA Recursion ==
  ASSUME NEW N \in Nat, NEW A, NEW a \in A, NEW g \in [(1..N) \X A -> A]
  PROVE  \E f : Solution(f, N, A, a, g)
<1> DEFINE Solves(f, m) == f[0] = a /\ \A i \in 1..m : f[i] = g[<<i, f[i - 1]>>]
           S == {m \in 0..N : \E f \in [0..m -> A] : Solves(f, m)}
<1>1. 0 \in S
  <2> DEFINE h == [i \in 0..0 |-> a]
  <2>1. h \in [0..0 -> A] /\ Solves(h, 0)
    OBVIOUS
  <2> HIDE DEF h
  <2>2. \E f \in [0..0 -> A] : Solves(f, 0)
    BY <2>1
  <2> QED BY <2>2
<1>2. ASSUME NEW m \in 1..N, m - 1 \in S PROVE m \in S
  <2>1. PICK f \in [0..(m - 1) -> A] : Solves(f, m - 1)
    BY <1>2
  <2> DEFINE h == [i \in 0..m |-> IF i = m THEN g[<<m, f[m - 1]>>] ELSE f[i]]
  <2>2. h \in [0..m -> A]
    <3>1. f[m - 1] \in A /\ g[<<m, f[m - 1]>>] \in A
      BY <2>1
    <3>2. \A i \in 0..m : i # m => i \in 0..(m - 1)
      OBVIOUS
    <3> QED BY <2>1, <3>1, <3>2
  <2>3. Solves(h, m)
    <3>1. h[0] = a
      BY <2>1
    <3>2. ASSUME NEW i \in 1..m PROVE h[i] = g[<<i, h[i - 1]>>]
      <4>1. i - 1 \in 0..m /\ i - 1 # m /\ h[i - 1] = f[i - 1]
        OBVIOUS
      <4>2. CASE i = m
        BY <4>1, <4>2
      <4>3. CASE i # m
        <5>1. i \in 1..(m - 1) /\ h[i] = f[i]
          BY <4>3
        <5> QED BY <2>1, <4>1, <5>1
      <4> QED BY <4>2, <4>3
    <3> QED BY <3>1, <3>2
  <2> HIDE DEF h
  <2> QED BY <2>2, <2>3
<1> HIDE DEF S
<1>3. N \in S
  BY <1>1, <1>2, StepByStep
<1>4. PICK f \in [0..N -> A] : Solves(f, N)
  BY <1>3 DEF S
<1>5. Solution(f, N, A, a, g)
  BY <1>4 DEF Solution
<1> QED BY <1>5

(***************************************************************************)
(* The list of snapshots (AssetLibrary).                                   *)
(***************************************************************************)
\* The entries other than n, entry by entry.
Leaving(f, s, n) ==
  /\ f[0] = <<>> /\ OtherThan(s, n) = f[Len(s)]
  /\ \A i \in 1..Len(s) : f[i] = IF s[i] = n THEN f[i - 1] ELSE Append(f[i - 1], s[i])

LEMMA LeavingOut ==
  ASSUME NEW s \in Seq(Nat), NEW n
  PROVE  \E f : Leaving(f, s, n)
<1> DEFINE N == Len(s)
           A == Seq(Nat)
           Next(i, t) == IF s[i] = n THEN t ELSE Append(t, s[i])
           g == [p \in (1..N) \X A |-> Next(p[1], p[2])]
           Eq(h) == h = [k \in 0..N |->
                      IF k = 0 THEN <<>> ELSE IF s[k] = n THEN h[k - 1] ELSE Append(h[k - 1], s[k])]
           u == CHOOSE h : Eq(h)
<1>1. N \in Nat /\ \A i \in 1..N : s[i] \in Nat
  OBVIOUS
<1>2. <<>> \in A
  OBVIOUS
<1> HIDE DEF N
<1>3. \A i \in 1..N : \A t \in A : Next(i, t) \in A
  <2> SUFFICES ASSUME NEW i \in 1..N, NEW t \in A PROVE Next(i, t) \in A
    OBVIOUS
  <2>1. Append(t, s[i]) \in A
    BY <1>1
  <2> QED BY <2>1
<1> HIDE DEF Next, A
<1>4. g \in [(1..N) \X A -> A]
  BY <1>3
<1>5. \A i \in 1..N : \A t \in A : g[<<i, t>>] = Next(i, t)
  OBVIOUS
<1> HIDE DEF g
<1>6. PICK h \in [0..N -> A] : h[0] = <<>> /\ \A i \in 1..N : h[i] = g[<<i, h[i - 1]>>]
  <2>1. PICK h : Solution(h, N, A, <<>>, g)
    BY <1>1, <1>2, <1>4, Recursion, Zenon
  <2> QED BY <2>1 DEF Solution
<1>7. Eq(h)
  <2>1. ASSUME NEW k \in 0..N
        PROVE  h[k] = IF k = 0 THEN <<>> ELSE IF s[k] = n THEN h[k - 1] ELSE Append(h[k - 1], s[k])
    <3>1. CASE k = 0
      BY <1>6, <3>1
    <3>2. CASE k # 0
      <4>1. k \in 1..N /\ k - 1 \in 0..N
        BY <1>1, <3>2
      <4>2. h[k - 1] \in A
        BY <4>1
      <4>3. h[k] = Next(k, h[k - 1])
        BY <1>5, <1>6, <4>1, <4>2
      <4> QED BY <3>2, <4>3 DEF Next
    <3> QED BY <3>1, <3>2
  <2> QED BY <2>1
<1>8. Eq(u)
  BY <1>7, Zenon
<1> HIDE DEF u
<1>9. u[0] = <<>> /\ \A i \in 1..N : u[i] = IF s[i] = n THEN u[i - 1] ELSE Append(u[i - 1], s[i])
  <2>1. \A k \in 0..N :
          u[k] = IF k = 0 THEN <<>> ELSE IF s[k] = n THEN u[k - 1] ELSE Append(u[k - 1], s[k])
    BY <1>8, Zenon
  <2>2. 0 \in 0..N /\ \A i \in 1..N : i \in 0..N /\ i # 0
    BY <1>1
  <2> QED BY <2>1, <2>2, Zenon
<1>10. OtherThan(s, n) = u[N]
  BY DEF OtherThan, u, N
<1>11. Leaving(u, s, n)
  BY <1>9, <1>10 DEF N, Leaving
<1> QED BY <1>11

\* t consists of entries of s up to the place i other than n, in their order.
Taken(t, s, i, n) ==
  /\ t \in Seq(Nat) /\ Len(t) <= i
  /\ \A a \in 1..Len(t) : t[a] # n /\ \E k \in 1..i : t[a] = s[k]
  /\ \A a, b \in 1..Len(t) : a < b => \E k, m \in 1..i : k < m /\ t[a] = s[k] /\ t[b] = s[m]

LEMMA NothingTaken ==
  ASSUME NEW s, NEW n PROVE Taken(<<>>, s, 0, n)
<1>1. <<>> \in Seq(Nat) /\ Len(<<>>) = 0 /\ 1..0 = {}
  OBVIOUS
<1> QED BY <1>1 DEF Taken

LEMMA NoneTaken ==
  ASSUME NEW s, NEW n, NEW i \in Nat, NEW t, Taken(t, s, i - 1, n), i >= 1
  PROVE  Taken(t, s, i, n)
<1>1. \A k \in 1..(i - 1) : k \in 1..i
  OBVIOUS
<1> DEFINE L == Len(t)
<1>2. L \in Nat /\ L <= i - 1
  BY DEF Taken
<1> HIDE DEF L
<1>3. L <= i
  BY <1>2
<1> QED BY <1>1, <1>3, SMTT(60) DEF Taken, L

LEMMA OneTaken ==
  ASSUME NEW s, NEW n, NEW i \in Nat, NEW t, Taken(t, s, i - 1, n), i >= 1, s[i] # n, s[i] \in Nat
  PROVE  Taken(Append(t, s[i]), s, i, n)
<1> DEFINE L == Len(t)
           u == Append(t, s[i])
<1>1. L \in Nat /\ L <= i - 1 /\ t \in Seq(Nat)
  BY DEF Taken
<1>2. u \in Seq(Nat) /\ Len(u) = L + 1 /\ u[L + 1] = s[i] /\ \A a \in 1..L : u[a] = t[a]
  BY <1>1
<1>3. /\ \A a \in 1..L : t[a] # n /\ \E k \in 1..(i - 1) : t[a] = s[k]
      /\ \A a, b \in 1..L : a < b => \E k, m \in 1..(i - 1) : k < m /\ t[a] = s[k] /\ t[b] = s[m]
  BY DEF Taken
<1> HIDE DEF L, u
<1>4. \A k \in 1..(i - 1) : k \in 1..i /\ k < i
  OBVIOUS
<1>5. ASSUME NEW a \in 1..(L + 1) PROVE u[a] # n /\ \E k \in 1..i : u[a] = s[k]
  <2>1. CASE a = L + 1
    BY <1>2, <2>1
  <2>2. CASE a # L + 1
    <3>1. a \in 1..L
      BY <1>1, <2>2
    <3> QED BY <1>2, <1>3, <1>4, <3>1
  <2> QED BY <2>1, <2>2
<1>6. ASSUME NEW a \in 1..(L + 1), NEW b \in 1..(L + 1), a < b
      PROVE  \E k, m \in 1..i : k < m /\ u[a] = s[k] /\ u[b] = s[m]
  <2>1. a \in 1..L
    BY <1>1, <1>6
  <2>2. CASE b = L + 1
    <3>1. PICK k \in 1..(i - 1) : t[a] = s[k]
      BY <1>3, <2>1
    <3> QED BY <1>2, <1>4, <2>1, <2>2, <3>1
  <2>3. CASE b # L + 1
    <3>1. b \in 1..L
      BY <1>1, <2>3
    <3>2. PICK k \in 1..(i - 1), m \in 1..(i - 1) : k < m /\ t[a] = s[k] /\ t[b] = s[m]
      BY <1>3, <1>6, <2>1, <3>1
    <3>3. u[a] = t[a] /\ u[b] = t[b] /\ k \in 1..i /\ m \in 1..i
      BY <1>2, <1>4, <2>1, <3>1
    <3> QED BY <3>2, <3>3
  <2> QED BY <2>2, <2>3
<1>7. L + 1 <= i
  BY <1>1
<1>8. Taken(u, s, i, n)
  BY <1>2, <1>5, <1>6, <1>7 DEF Taken
<1> QED BY <1>8 DEF u

LEMMA OthersTaken ==
  ASSUME NEW s \in Seq(Nat), NEW n
  PROVE  Taken(OtherThan(s, n), s, Len(s), n)
<1> DEFINE N == Len(s)
<1>1. N \in Nat /\ \A i \in 1..N : s[i] \in Nat
  OBVIOUS
<1>2. PICK f : Leaving(f, s, n)
  BY LeavingOut
<1>3. /\ f[0] = <<>> /\ OtherThan(s, n) = f[N]
      /\ \A i \in 1..N : f[i] = IF s[i] = n THEN f[i - 1] ELSE Append(f[i - 1], s[i])
  BY <1>2 DEF Leaving
<1> HIDE DEF N
<1> DEFINE S == {i \in 0..N : Taken(f[i], s, i, n)}
<1>4. 0 \in S
  BY <1>1, <1>3, NothingTaken
<1>5. ASSUME NEW i \in 1..N, i - 1 \in S PROVE i \in S
  <2>1. Taken(f[i - 1], s, i - 1, n) /\ i \in Nat /\ i >= 1 /\ i \in 0..N /\ s[i] \in Nat
    BY <1>1, <1>5
  <2>2. CASE s[i] = n
    BY <1>3, <2>1, <2>2, NoneTaken
  <2>3. CASE s[i] # n
    BY <1>3, <2>1, <2>3, OneTaken
  <2> QED BY <2>2, <2>3
<1> HIDE DEF S
<1>6. \A i \in 0..N : i \in S
  BY <1>1, <1>4, <1>5, StepByStep
<1>7. N \in S
  BY <1>1, <1>6
<1> QED BY <1>3, <1>7 DEF S, N

\* A list as the editors are shown it, and one that can be rolled back to.
ListOk(list) ==
  /\ list \in Seq(Nat) /\ Len(list) <= MaxSnapshots
  /\ \A a, b \in 1..Len(list) : a < b => list[a] # list[b]
NewestFirst(list, D) ==
  /\ \A i \in 1..Len(list) : list[i] \in D
  /\ \A a, b \in 1..Len(list) : a < b => list[a] > list[b]

LEMMA NoListIsOk ==
  ASSUME NEW D
  PROVE  ListOk(<<>>) /\ NewestFirst(<<>>, D)
<1>1. <<>> \in Seq(Nat) /\ Len(<<>>) = 0 /\ 1..0 = {} /\ 0 <= MaxSnapshots
  BY AssetAssumption
<1> QED BY <1>1 DEF ListOk, NewestFirst

LEMMA DroppedIsOk ==
  ASSUME NEW list, ListOk(list), NEW n
  PROVE  ListOk(Dropped(list, n)) /\ \A D : NewestFirst(list, D) => NewestFirst(Dropped(list, n), D)
<1> DEFINE t == OtherThan(list, n)
           N == Len(list)
           L == Len(t)
<1>1. list \in Seq(Nat) /\ N \in Nat /\ N <= MaxSnapshots
  BY DEF ListOk
<1>2. Taken(t, list, N, n)
  BY <1>1, OthersTaken
<1>3. t \in Seq(Nat) /\ L <= N
  BY <1>2 DEF Taken
<1>4. /\ \A a \in 1..L : \E k \in 1..N : t[a] = list[k]
      /\ \A a, b \in 1..L : a < b => \E k, m \in 1..N : k < m /\ t[a] = list[k] /\ t[b] = list[m]
  BY <1>2 DEF Taken
<1>5. \A a, b \in 1..N : a < b => list[a] # list[b]
  BY DEF ListOk
<1>6. Dropped(list, n) = t
  BY DEF Dropped
<1> HIDE DEF t
<1>7. L \in Nat
  BY <1>3
<1> HIDE DEF N, L
<1>8. L <= MaxSnapshots
  BY <1>1, <1>3, <1>7, AssetAssumption
<1>9. \A a, b \in 1..L : a < b => t[a] # t[b]
  BY <1>4, <1>5
<1>10. ListOk(t)
  BY <1>3, <1>8, <1>9 DEF ListOk, L
<1>11. ASSUME NEW D, NewestFirst(list, D) PROVE NewestFirst(t, D)
  <2>1. /\ \A i \in 1..N : list[i] \in D
        /\ \A a, b \in 1..N : a < b => list[a] > list[b]
    BY <1>11 DEF NewestFirst, N
  <2>2. \A a \in 1..L : t[a] \in D
    BY <1>4, <2>1
  <2>3. \A a, b \in 1..L : a < b => t[a] > t[b]
    BY <1>4, <2>1
  <2> QED BY <2>2, <2>3 DEF NewestFirst, L
<1> QED BY <1>6, <1>10, <1>11

\* The newest entry is put in front, and the list is cut to its greatest length.
LEMMA AppendedIsOk ==
  ASSUME NEW list, ListOk(list), NEW n \in Nat
  PROVE  /\ ListOk(Appended(list, n))
         /\ \A D : NewestFirst(list, D) /\ n \in D /\ (\A v \in D : v <= n) /\ D \subseteq Nat
                     => NewestFirst(Appended(list, n), D)
<1> DEFINE t == OtherThan(list, n)
           N == Len(list)
           L == Len(t)
           all == <<n>> \o t
           m == IF Len(all) < MaxSnapshots THEN Len(all) ELSE MaxSnapshots
           r == SubSeq(all, 1, m)
<1>1. list \in Seq(Nat) /\ N \in Nat
  BY DEF ListOk
<1>2. Taken(t, list, N, n)
  BY <1>1, OthersTaken
<1>3. t \in Seq(Nat)
  BY <1>2 DEF Taken
<1>4. /\ \A a \in 1..L : t[a] # n /\ \E k \in 1..N : t[a] = list[k]
      /\ \A a, b \in 1..L : a < b => \E j, k \in 1..N : j < k /\ t[a] = list[j] /\ t[b] = list[k]
  BY <1>2 DEF Taken
<1>5. \A a, b \in 1..N : a < b => list[a] # list[b]
  BY DEF ListOk
<1>6. Appended(list, n) = r
  BY DEF Appended
<1> HIDE DEF t
<1>7. L \in Nat /\ all \in Seq(Nat) /\ Len(all) = L + 1 /\ all[1] = n /\ \A a \in 2..(L + 1) : all[a] = t[a - 1]
  BY <1>3
<1> HIDE DEF all, L, N
<1>8. m \in Nat /\ m <= MaxSnapshots /\ m <= L + 1
  <2> DEFINE x == Len(all)
  <2>1. x \in Nat /\ x = L + 1 /\ MaxSnapshots \in Nat
    BY <1>7, AssetAssumption
  <2> HIDE DEF x
  <2>2. LET y == IF x < MaxSnapshots THEN x ELSE MaxSnapshots
        IN  y \in Nat /\ y <= MaxSnapshots /\ y <= L + 1
    BY <1>7, <2>1
  <2> QED BY <2>2 DEF x
<1>9. m \in Nat /\ m <= MaxSnapshots /\ m <= L + 1
  <2> HIDE DEF m
  <2> QED BY <1>8
<1> HIDE DEF m
<1>10. \A i \in 1..m : all[i] \in Nat
  <2>1. \A i \in 1..(L + 1) : all[i] \in Nat
    BY <1>7, SMTT(60)
  <2>2. \A i \in 1..m : i \in 1..(L + 1)
    BY <1>7, <1>9
  <2> QED BY <2>1, <2>2
<1>11. r \in Seq(Nat) /\ Len(r) = m /\ \A i \in 1..m : r[i] = all[i]
  <2>1. /\ r \in Seq(Nat) /\ Len(r) = IF 1 <= m THEN m - 1 + 1 ELSE 0
        /\ \A i \in 1..(m - 1 + 1) : r[i] = all[1 + i - 1]
    <3>1. 1 \in Int /\ m \in Int
      BY <1>9
    <3> QED BY <1>10, <3>1, SubSeqProperties
  <2> HIDE DEF r
  <2>2. m - 1 + 1 = m /\ \A i \in 1..m : 1 + i - 1 = i
    BY <1>9
  <2>3. (IF 1 <= m THEN m - 1 + 1 ELSE 0) = m
    BY <1>9
  <2> QED BY <2>1, <2>2, <2>3
<1> HIDE DEF r
<1>12. ASSUME NEW a \in 1..m PROVE r[a] = n \/ \E k \in 1..N : r[a] = list[k]
  <2>1. CASE a = 1
    BY <1>7, <1>11, <2>1
  <2>2. CASE a # 1
    <3>1. a \in 2..(L + 1) /\ a - 1 \in 1..L
      BY <1>7, <1>9, <2>2
    <3>2. r[a] = t[a - 1]
      BY <1>7, <1>11, <3>1
    <3> QED BY <1>4, <3>1, <3>2
  <2> QED BY <2>1, <2>2
<1>13. ASSUME NEW a \in 1..m, NEW b \in 1..m, a < b
       PROVE  \/ r[a] = n /\ r[b] # n /\ \E k \in 1..N : r[b] = list[k]
              \/ \E j, k \in 1..N : j < k /\ r[a] = list[j] /\ r[b] = list[k]
  <2>1. b \in 2..(L + 1) /\ b - 1 \in 1..L /\ r[b] = t[b - 1]
    BY <1>7, <1>9, <1>11, <1>13
  <2>2. CASE a = 1
    BY <1>4, <1>7, <1>11, <2>1, <2>2
  <2>3. CASE a # 1
    <3>1. a \in 2..(L + 1) /\ a - 1 \in 1..L /\ a - 1 < b - 1
      BY <1>7, <1>9, <1>13, <2>3
    <3>2. r[a] = t[a - 1]
      BY <1>7, <1>11, <3>1
    <3>3. PICK j \in 1..N, k \in 1..N : j < k /\ t[a - 1] = list[j] /\ t[b - 1] = list[k]
      BY <1>4, <2>1, <3>1
    <3> QED BY <2>1, <3>2, <3>3
  <2> QED BY <2>2, <2>3
<1>14. ListOk(r)
  <2>1. \A a, b \in 1..m : a < b => r[a] # r[b]
    BY <1>5, <1>13
  <2> QED BY <1>9, <1>11, <2>1 DEF ListOk
<1>15. ASSUME NEW D, NewestFirst(list, D), n \in D, \A v \in D : v <= n, D \subseteq Nat PROVE NewestFirst(r, D)
  <2>1. /\ \A i \in 1..N : list[i] \in D
        /\ \A a, b \in 1..N : a < b => list[a] > list[b]
    BY <1>15 DEF NewestFirst, N
  <2>2. \A a \in 1..m : r[a] \in D
    BY <1>12, <1>15, <2>1
  <2>3. ASSUME NEW a \in 1..m, NEW b \in 1..m, a < b PROVE r[a] > r[b]
    <3>1. CASE r[a] = n /\ r[b] # n /\ \E k \in 1..N : r[b] = list[k]
      <4>1. r[b] \in D /\ r[b] <= n /\ r[b] \in Nat
        BY <1>15, <2>2
      <4> DEFINE x == r[a]
                 y == r[b]
      <4> HIDE DEF x, y
      <4>2. y \in Nat /\ y <= x /\ y # x /\ x \in Nat
        BY <3>1, <4>1 DEF x, y
      <4>3. x > y
        BY <4>2
      <4> QED BY <4>3 DEF x, y
    <3>2. CASE \E j, k \in 1..N : j < k /\ r[a] = list[j] /\ r[b] = list[k]
      BY <2>1, <3>2
    <3> QED BY <1>13, <2>3, <3>1, <3>2
  <2> QED BY <1>11, <2>2, <2>3 DEF NewestFirst
<1> QED BY <1>6, <1>14, <1>15

(***************************************************************************)
(* The shape of a plan.                                                    *)
(***************************************************************************)
Removals == {"rmLatest", "dir", "rmVersions", "rmSources", "rmSnaps"}
Deletions == {"delete", "deletePrefix"}

\* A list is read after a version was written, and written after it was read; a
\* latest file is followed by its version unless it is that of a binding; a
\* deletion of a device ends with the list.
Shape(op, p, k) ==
  /\ \A i \in 2..Len(p) :
       /\ p[i] = "list" => p[i - 1] = "version"
       /\ p[i] \in {"append", "drop"} => p[i - 1] = "list"
  /\ \A i \in 1..Len(p) :
       /\ p[i] = "latest" => op = "bind" \/ (i < Len(p) /\ p[i + 1] = "version")
       /\ op \in Deletions <=> p[i] \in Removals
       /\ k # "device" => p[i] \notin {"append", "drop"}
  /\ op = "bind" => Len(p) = 1 /\ p[1] = "latest"
  /\ op = "delete" /\ k = "device" => Len(p) >= 1 /\ p[Len(p)] = "rmSnaps"

\* The number of a plan has a file, which is to be noted in the list.
Noting(p) ==
  \/ Len(p) >= 1 /\ p[1] = "append"
  \/ Len(p) >= 2 /\ p[1] = "list" /\ p[2] = "append"

LEMMA IdleHasShape ==
  ASSUME NEW k PROVE Shape(Idle.op, Idle.plan, k) /\ Idle.plan = <<>>
<1>1. Idle.op = "none" /\ Idle.plan = <<>> /\ Len(<<>>) = 0
  BY DEF Idle
<1> QED BY <1>1 DEF Shape

\* What is left of a command, the noted list included.
LEMMA GoesOn ==
  ASSUME NEW now, JobOk(now), now.plan # <<>>, Onward(now).plan # <<>>
  PROVE  /\ Len(now.plan) \in Nat /\ Len(now.plan) >= 2
         /\ Len(Onward(now).plan) = Len(now.plan) - 1
         /\ \A i \in 1..Len(Onward(now).plan) : Onward(now).plan[i] = now.plan[i + 1]
         /\ Onward(now).listed = now.listed /\ Onward(now).op = now.op /\ Onward(now).text = now.text
         /\ Onward(now).version = now.version /\ Onward(now).ws = now.ws
<1> DEFINE p == now.plan
           n == Len(p)
<1>1. p \in Seq(Stages) /\ n \in Nat /\ n >= 1
  BY DEF JobOk
<1>2. n # 1
  <2>1. ASSUME n = 1 PROVE FALSE
    <3>1. Onward(now) = Idle
      BY <2>1 DEF Onward
    <3> QED BY <3>1, IdleIsOk
  <2> QED BY <2>1
<1>3. now = [op |-> now.op, plan |-> now.plan, ws |-> now.ws, text |-> now.text,
             version |-> now.version, target |-> now.target, listed |-> now.listed]
  BY DEF JobOk
<1>4. Onward(now) = [op |-> now.op, plan |-> Tail(p), ws |-> now.ws, text |-> now.text,
                     version |-> now.version, target |-> now.target, listed |-> now.listed]
  BY <1>2, <1>3 DEF Onward
<1>5. Onward(now).listed = now.listed /\ Onward(now).ws = now.ws
  BY <1>4
<1>6. n >= 2
  <2> HIDE DEF n
  <2> QED BY <1>1, <1>2
<1> QED BY <1>1, <1>5, <1>6, Goes DEF n, p

\* A plan is over when its last stage is.
LEMMA OverAtLast ==
  ASSUME NEW now, JobOk(now), now.plan # <<>>, Onward(now).plan = <<>>
  PROVE  Len(now.plan) = 1
<1> DEFINE p == now.plan
           n == Len(p)
<1> SUFFICES ASSUME n # 1 PROVE FALSE
  OBVIOUS
<1>1. n \in Nat /\ n >= 1
  BY SomePlan DEF JobOk
<1>2. n > 1
  <2> HIDE DEF n
  <2> QED BY <1>1
<1>3. Tail(p) # <<>>
  BY <1>2, TailOfPlan DEF JobOk
<1>4. now = [op |-> now.op, plan |-> now.plan, ws |-> now.ws, text |-> now.text,
             version |-> now.version, target |-> now.target, listed |-> now.listed]
  BY DEF JobOk
<1>5. Onward(now) = [now EXCEPT !.plan = Tail(@)]
  BY DEF Onward
<1>6. Onward(now).plan = Tail(p)
  BY <1>4, <1>5
<1> QED BY <1>3, <1>6

LEMMA ShapeStays ==
  ASSUME NEW now, JobOk(now), now.plan # <<>>, NEW k, Shape(now.op, now.plan, k)
  PROVE  Shape(Onward(now).op, Onward(now).plan, k)
<1> DEFINE p == now.plan
           q == Onward(now).plan
           op == now.op
<1>1. CASE q = <<>>
  <2>1. Onward(now).op = "none"
    <3>3. Len(p) = 1
      BY <1>1, OverAtLast
    <3> QED BY <3>3, IdleIsOk DEF Onward
  <2>2. Len(q) = 0
    BY <1>1
  <2> HIDE DEF q
  <2> QED BY <2>1, <2>2 DEF Shape, q
<1>2. CASE q # <<>>
  <2> DEFINE n == Len(p)
             m == Len(q)
  <2>1. /\ n \in Nat /\ n >= 2 /\ m = n - 1 /\ \A i \in 1..m : q[i] = p[i + 1]
        /\ Onward(now).op = op
    BY <1>2, GoesOn
  <2> HIDE DEF p, q
  <2>2. /\ \A i \in 2..n : /\ p[i] = "list" => p[i - 1] = "version"
                           /\ p[i] \in {"append", "drop"} => p[i - 1] = "list"
        /\ \A i \in 1..n : /\ p[i] = "latest" => op = "bind" \/ (i < n /\ p[i + 1] = "version")
                           /\ op \in Deletions <=> p[i] \in Removals
                           /\ k # "device" => p[i] \notin {"append", "drop"}
        /\ op = "bind" => n = 1 /\ p[1] = "latest"
        /\ op = "delete" /\ k = "device" => n >= 1 /\ p[n] = "rmSnaps"
    BY DEF Shape, p
  <2> HIDE DEF n, m, op
  <2>3. op # "bind"
    BY <2>1, <2>2
  <2>4. ASSUME NEW i \in 2..m
        PROVE  /\ q[i] = "list" => q[i - 1] = "version"
               /\ q[i] \in {"append", "drop"} => q[i - 1] = "list"
    <3>1. i + 1 \in 2..n /\ i - 1 \in 1..m /\ (i - 1) + 1 = i /\ (i + 1) - 1 = i /\ i \in 1..m
      BY <2>1
    <3>2. q[i] = p[i + 1] /\ q[i - 1] = p[i]
      BY <2>1, <3>1
    <3>3. /\ p[i + 1] = "list" => p[i] = "version"
          /\ p[i + 1] \in {"append", "drop"} => p[i] = "list"
      BY <2>2, <3>1
    <3> QED BY <3>2, <3>3
  <2>5. ASSUME NEW i \in 1..m
        PROVE  /\ q[i] = "latest" => op = "bind" \/ (i < m /\ q[i + 1] = "version")
               /\ op \in Deletions <=> q[i] \in Removals
               /\ k # "device" => q[i] \notin {"append", "drop"}
    <3>1. i + 1 \in 1..n /\ q[i] = p[i + 1] /\ (i + 1 < n <=> i < m)
      BY <2>1
    <3>2. i < m => i + 1 \in 1..m /\ q[i + 1] = p[(i + 1) + 1]
      BY <2>1
    <3> QED BY <2>2, <2>3, <3>1, <3>2
  <2>6. op = "delete" /\ k = "device" => m >= 1 /\ q[m] = "rmSnaps"
    <3>1. m \in 1..m /\ m + 1 = n
      BY <2>1
    <3> QED BY <2>1, <2>2, <3>1
  <2> QED BY <2>1, <2>3, <2>4, <2>5, <2>6 DEF Shape, q, m, op
<1> QED BY <1>1, <1>2

\* What comes next in a plan, by what came before it.
LEMMA ComesNext ==
  ASSUME NEW now, JobOk(now), now.plan # <<>>, Onward(now).plan # <<>>, NEW k, Shape(now.op, now.plan, k)
  PROVE  LET p == now.plan
             q == Onward(now).plan
         IN  /\ Numbered(q) => p[1] = "number" \/ (p[1] = "latest" /\ Numbered(p))
             /\ Noting(q) => p[1] = "version" \/ (p[1] = "list" /\ Noting(p))
             /\ q[1] \in {"append", "drop"} => p[1] = "list"
             /\ q[1] = "version" => p[1] = "latest"
             /\ now.op # "bind"
<1> DEFINE p == now.plan
           q == Onward(now).plan
           n == Len(p)
           m == Len(q)
<1>1. n \in Nat /\ n >= 2 /\ m = n - 1 /\ \A i \in 1..m : q[i] = p[i + 1]
  BY GoesOn
<1>2. Numbered(q) => p[1] = "number" \/ (p[1] = "latest" /\ Numbered(p))
  BY NumberStays
<1>3. WellOrdered(p)
  BY DEF JobOk
<1>4. /\ \A i \in 2..n : /\ p[i] = "list" => p[i - 1] = "version"
                         /\ p[i] \in {"append", "drop"} => p[i - 1] = "list"
                         /\ p[i] = "version" => p[i - 1] = "latest"
      /\ now.op = "bind" => n = 1
  BY <1>3 DEF Shape, WellOrdered
<1> HIDE DEF p, q
<1>5. (m >= 2 => q[2] = p[3]) /\ q[1] = p[2]
  <2> HIDE DEF n, m
  <2> QED BY <1>1
<1>6. 2 \in 2..n
  <2> HIDE DEF n, m
  <2> QED BY <1>1
<1>7. /\ p[2] = "list" => p[1] = "version"
      /\ p[2] \in {"append", "drop"} => p[1] = "list"
      /\ p[2] = "version" => p[1] = "latest"
  BY <1>4, <1>6
<1>8. Noting(q) => p[1] = "version" \/ (p[1] = "list" /\ Noting(p))
  BY <1>1, <1>5, <1>7 DEF Noting
<1>9. now.op # "bind"
  <2> HIDE DEF n, m
  <2> QED BY <1>1, <1>4
<1> QED BY <1>2, <1>5, <1>7, <1>8, <1>9 DEF p, q

LEMMA SaveHasShape ==
  ASSUME NEW p, NEW n \in {3, 5}, Len(p) = n, NEW op, op \notin Deletions, op # "bind", NEW k,
         p[1] = "number", p[2] = "latest", p[3] = "version",
         n = 5 => p[4] = "list" /\ p[5] = "append" /\ k = "device"
  PROVE  Shape(op, p, k)
<1>1. ASSUME NEW i \in 2..n
      PROVE  /\ p[i] = "list" => p[i - 1] = "version"
             /\ p[i] \in {"append", "drop"} => p[i - 1] = "list"
  <2>1. i = 2 \/ i = 3 \/ (n = 5 /\ (i = 4 \/ i = 5))
    OBVIOUS
  <2>2. (i = 4 => i - 1 = 3) /\ (i = 5 => i - 1 = 4)
    OBVIOUS
  <2> QED BY <2>1, <2>2
<1>2. ASSUME NEW i \in 1..n
      PROVE  /\ p[i] = "latest" => i < n /\ p[i + 1] = "version"
             /\ p[i] \notin Removals
             /\ k # "device" => p[i] \notin {"append", "drop"}
  <2>1. i = 1 \/ i = 2 \/ i = 3 \/ (n = 5 /\ (i = 4 \/ i = 5))
    OBVIOUS
  <2>2. i = 2 => i + 1 = 3 /\ i < n
    OBVIOUS
  <2>3. /\ "number" \notin Removals /\ "latest" \notin Removals /\ "version" \notin Removals
        /\ "list" \notin Removals /\ "append" \notin Removals
    BY DEF Removals
  <2> QED BY <2>1, <2>2, <2>3
<1> QED BY <1>1, <1>2 DEF Shape, Deletions

LEMMA RollbackHasShape ==
  Shape("rollback", RollbackPlan, "device")
<1> DEFINE p == RollbackPlan
<1>1. Len(p) = 11 /\ \A i \in 1..11 : p[i] = RollbackStages[i]
  BY RollsBackInOrder
<1> HIDE DEF p
<1>2. /\ p[1] = "number" /\ p[2] = "latest" /\ p[3] = "version" /\ p[4] = "list" /\ p[5] = "append"
      /\ p[6] = "load"
      /\ p[7] = "number" /\ p[8] = "latest" /\ p[9] = "version" /\ p[10] = "list" /\ p[11] = "append"
  BY <1>1 DEF RollbackStages
<1>3. ASSUME NEW i \in 2..11
      PROVE  /\ p[i] = "list" => p[i - 1] = "version"
             /\ p[i] \in {"append", "drop"} => p[i - 1] = "list"
  <2>1. \/ i = 2 \/ i = 3 \/ i = 4 \/ i = 5 \/ i = 6 \/ i = 7 \/ i = 8 \/ i = 9 \/ i = 10 \/ i = 11
    OBVIOUS
  <2>2. (i = 4 => i - 1 = 3) /\ (i = 5 => i - 1 = 4) /\ (i = 10 => i - 1 = 9) /\ (i = 11 => i - 1 = 10)
    OBVIOUS
  <2> QED BY <1>2, <2>1, <2>2
<1>4. ASSUME NEW i \in 1..11
      PROVE  p[i] \notin Removals /\ (p[i] = "latest" => i < 11 /\ p[i + 1] = "version")
  <2>1. \/ i = 1 \/ i = 2 \/ i = 3 \/ i = 4 \/ i = 5 \/ i = 6 \/ i = 7 \/ i = 8 \/ i = 9 \/ i = 10 \/ i = 11
    OBVIOUS
  <2>2. (i = 2 => i + 1 = 3 /\ i < 11) /\ (i = 8 => i + 1 = 9 /\ i < 11)
    OBVIOUS
  <2>3. /\ "number" \notin Removals /\ "latest" \notin Removals /\ "version" \notin Removals
        /\ "list" \notin Removals /\ "append" \notin Removals /\ "load" \notin Removals
    BY DEF Removals
  <2> QED BY <1>2, <2>1, <2>2, <2>3
<1> QED BY <1>1, <1>3, <1>4 DEF Shape, Deletions, p

LEMMA ShortHasShape ==
  /\ Shape("dropSnapshot", DropPlan, "device") /\ Shape("bind", BindPlan, "device")
  /\ \A k : Shape("sources", SourcesPlan, k) /\ Shape("deletePrefix", DeletePrefixPlan, k)
<1>1. Shape("dropSnapshot", DropPlan, "device")
  <2>1. Len(DropPlan) = 2 /\ DropPlan[1] = "list" /\ DropPlan[2] = "drop"
    BY DEF DropPlan
  <2>2. /\ \A i \in 2..2 : i = 2 /\ i - 1 = 1
        /\ \A i \in 1..2 : i = 1 \/ i = 2
    OBVIOUS
  <2> QED BY <2>1, <2>2 DEF Shape, Removals, Deletions
<1>2. Shape("bind", BindPlan, "device")
  <2>1. Len(BindPlan) = 1 /\ BindPlan[1] = "latest"
    BY DEF BindPlan
  <2>2. 2..1 = {} /\ \A i \in 1..1 : i = 1
    OBVIOUS
  <2> QED BY <2>1, <2>2 DEF Shape, Removals, Deletions
<1>3. ASSUME NEW k PROVE Shape("sources", SourcesPlan, k)
  <2>1. Len(SourcesPlan) = 1 /\ SourcesPlan[1] = "sources"
    BY DEF SourcesPlan
  <2>2. 2..1 = {} /\ \A i \in 1..1 : i = 1
    OBVIOUS
  <2> QED BY <2>1, <2>2 DEF Shape, Removals, Deletions
<1>4. ASSUME NEW k PROVE Shape("deletePrefix", DeletePrefixPlan, k)
  <2>1. Len(DeletePrefixPlan) = 2 /\ DeletePrefixPlan[1] = "dir" /\ DeletePrefixPlan[2] = "rmVersions"
    BY DEF DeletePrefixPlan
  <2>2. /\ \A i \in 2..2 : i = 2 /\ i - 1 = 1
        /\ \A i \in 1..2 : i = 1 \/ i = 2
    OBVIOUS
  <2> QED BY <2>1, <2>2 DEF Shape, Removals, Deletions
<1> QED BY <1>1, <1>2, <1>3, <1>4

LEMMA DeletionHasShape ==
  ASSUME NEW k PROVE Shape("delete", DeletePlan(k), k)
<1> DEFINE S == Removals
           a == <<"rmLatest", "dir", "rmVersions">>
           b == IF k = "connection" THEN <<>> ELSE <<"rmSources">>
           c == IF k = "device" THEN <<"rmSnaps">> ELSE <<>>
           ab == Cat(a, b)
           p == Cat(ab, c)
<1>1. /\ a \in Seq(S) /\ <<>> \in Seq(S) /\ <<"rmSources">> \in Seq(S) /\ <<"rmSnaps">> \in Seq(S)
  BY DEF Removals
<1>2. DeletePlan(k) = p
  BY DEF DeletePlan, Cat
<1> HIDE DEF a
<1>3. b \in Seq(S) /\ c \in Seq(S)
  BY <1>1, Zenon
<1>4. k = "device" => Len(c) = 1 /\ At(c, 1) = "rmSnaps"
  BY DEF At
<1> HIDE DEF b, c
<1>5. ab \in Seq(S)
  BY <1>1, <1>3, Joined, Zenon
<1> HIDE DEF ab
<1>6. p \in Seq(S) /\ Len(p) = Len(ab) + Len(c)
  BY <1>3, <1>5, Joined, Zenon
<1>7. ASSUME k = "device" PROVE Len(p) >= 1 /\ At(p, Len(p)) = "rmSnaps"
  <2>1. 1 \in 1..Len(c)
    BY <1>4, <1>7
  <2>2. At(p, Len(ab) + 1) = At(c, 1)
    BY <1>3, <1>5, <2>1, JoinedLast, Zenon
  <2>3. Len(p) = Len(ab) + 1
    BY <1>4, <1>6, <1>7
  <2>4. Len(ab) \in Nat
    BY <1>5
  <2>5. Len(p) >= 1
    BY <2>3, <2>4
  <2> QED BY <1>4, <1>7, <2>2, <2>3, <2>5, Zenon
<1> HIDE DEF p
<1>8. Len(p) \in Nat /\ \A i \in 1..Len(p) : p[i] \in Removals
  BY <1>6
<1>9. Shape("delete", p, k)
  <2>1. \A i \in 2..Len(p) : i \in 1..Len(p)
    BY <1>8
  <2>2. \A x \in Removals : x \notin {"list", "append", "drop", "latest"}
    BY DEF Removals
  <2> HIDE DEF S
  <2> QED BY <1>7, <1>8, <2>1, <2>2, Zenon DEF Shape, At, Deletions
<1> QED BY <1>2, <1>9

(* The commands of the kinds. *)
Operations == {"save", "delete", "deletePrefix", "sources", "addSignal", "removeSignal", "patch", "patchId", "bind",
               "addAlarm", "removeAlarm", "snapshot", "rollback", "dropSnapshot"}
Offered(op, k) ==
  op \in Operations /\ (k # "device" => op \in {"save", "delete", "deletePrefix", "sources"})

LEMMA CallsAreOffered ==
  ASSUME kind \in {"device", "capability", "connection"}, NEW call \in Writes \cup WindowCommands
  PROVE  Offered(call.op, kind)
<1>1. ASSUME NEW op, NEW x, NEW i PROVE Call(op, x, i).op = op
  BY DEF Call
<1>2. ASSUME NEW c \in CapabilityTools PROVE c.op = "save"
  BY <1>1 DEF CapabilityTools
<1>3. ASSUME NEW c \in SaveTools PROVE c.op \in {"save", "delete"}
  BY <1>1, <1>2 DEF SaveTools
<1>4. ASSUME NEW c \in EditTools PROVE c.op \in {"addSignal", "removeSignal", "patch", "patchId", "bind"}
  BY <1>1 DEF EditTools
<1>5. ASSUME NEW c \in Writes
      PROVE  /\ c.op \in {"save", "delete", "addSignal", "removeSignal", "patch", "patchId", "bind"}
             /\ kind # "device" => c.op \in {"save", "delete"}
  BY <1>3, <1>4 DEF Writes
<1>6. ASSUME NEW c \in WindowCommands, kind # "device"
      PROVE  c.op \in {"save", "delete", "deletePrefix", "sources"}
  BY <1>1, <1>2, <1>5, <1>6 DEF WindowCommands
<1>7. ASSUME NEW c \in WindowCommands PROVE c.op \in Operations
  BY <1>1, <1>2, <1>5, <1>7 DEF WindowCommands, Operations
<1> QED BY <1>5, <1>6, <1>7 DEF Offered, Operations

LEMMA PlanHasShape ==
  ASSUME kind \in {"device", "capability", "connection"}, NEW op, Offered(op, kind)
  PROVE  Shape(op, Plan(op), kind)
<1>1. /\ SaveConnection = SaveCapability /\ SnapshotPlan = SaveDevice /\ SaveEdit = SaveDevice
  BY DEF SaveConnection, SaveCapability, SnapshotPlan, SaveEdit
<1>2. ASSUME op \notin Deletions, op # "bind"
      PROVE  Shape(op, SaveCapability, kind) /\ (kind = "device" => Shape(op, SaveDevice, kind))
  BY <1>2, SavesInOrder, SaveHasShape
<1>3. CASE op = "save"
  <2>1. Plan(op) = CASE kind = "device" -> SaveDevice
                     [] kind = "capability" -> SaveCapability
                     [] kind = "connection" -> SaveConnection
    BY <1>3 DEF Plan
  <2>2. Plan(op) = SaveCapability \/ (kind = "device" /\ Plan(op) = SaveDevice)
    BY <1>1, <2>1
  <2> QED BY <1>2, <1>3, <2>2 DEF Deletions
<1>4. CASE op = "delete"
  BY <1>4, DeletionHasShape DEF Plan
<1>5. CASE op = "sources"
  BY <1>5, ShortHasShape DEF Plan
<1>6. CASE op \notin {"save", "delete", "deletePrefix", "sources"}
  <2>1. kind = "device" /\ op \in Operations
    BY <1>6 DEF Offered
  <2>2. CASE op = "bind"
    BY <2>1, <2>2, ShortHasShape DEF Plan
  <2>3. CASE op = "rollback"
    BY <2>1, <2>3, RollbackHasShape DEF Plan
  <2>4. CASE op = "dropSnapshot"
    BY <2>1, <2>4, ShortHasShape DEF Plan
  <2>5. CASE op \notin {"bind", "rollback", "dropSnapshot"}
    <3>1. Plan(op) = SaveDevice
      BY <1>1, <1>6, <2>5 DEF Plan
    <3> QED BY <1>2, <1>6, <2>1, <2>5, <3>1 DEF Deletions
  <2> QED BY <2>2, <2>3, <2>4, <2>5
<1>7. CASE op = "deletePrefix"
  BY <1>7, ShortHasShape DEF Plan
<1> QED BY <1>3, <1>4, <1>5, <1>6, <1>7

(***************************************************************************)
(* What the asset library shows.                                           *)
(***************************************************************************)
\* The latest text is, but for the binding, that of the version it is shown under.
SameText(a, b) == [a EXCEPT !.link = NoLink] = [b EXCEPT !.link = NoLink]
Shown(d) ==
  d.latest # Missing => DOMAIN d.versions # {} /\ SameText(d.latest, d.versions[Greatest(d.versions)])
Tidy(d) == NewestFirst(ReadSnapshots(d.snaps), DOMAIN d.versions)

Reading(j) == j.plan # <<>> /\ j.plan[1] \in {"append", "drop"}

\* A command alone on its files: its number is the greatest, and the list it has
\* read is the one there is.
Tracks(j, d) ==
  /\ Numbered(j.plan) => \A v \in DOMAIN d.versions : v < j.version
  /\ Noting(j.plan) => j.version \in DOMAIN d.versions /\ \A v \in DOMAIN d.versions : v <= j.version
  /\ Reading(j) => j.listed = ReadSnapshots(d.snaps)
Lists(j, d) == (j.plan # <<>> /\ j.op = "delete") \/ Tidy(d)
Texts(j, d) ==
  /\ j.plan[1] = "version" => d.latest = j.text
  /\ j.op = "bind" => d.latest # Missing /\ SameText(j.text, d.latest)
  /\ j.op = "delete" => j.plan[1] = "rmLatest" \/ d.latest = Missing
  /\ j.plan[1] # "version" /\ j.op # "delete" => Shown(d)
Leaves(j, d) == IF j.plan = <<>> THEN Shown(d) ELSE Texts(j, d)

\* A token that is not spent has run nothing.
TokenOk(t) ==
  /\ t = [status |-> t.status, call |-> t.call, ws |-> t.ws, age |-> t.age, ran |-> t.ran,
          cancelled |-> t.cancelled]
  /\ t.status \in {"new", "held"} => t.ran = <<>> /\ ~t.cancelled
  /\ Len(t.ran) <= 1
  /\ t.ran # <<>> => ~t.cancelled /\ t.age <= Lifetime
TokensOk ==
  /\ token = [t \in Tokens |-> token[t]]
  /\ \A t \in Tokens : TokenOk(token[t]) /\ (token[t].status = "held" => token[t].call \in Writes)

\* No stage has failed, and no other deletion has taken versions.
Calm(w) == faults = 0 /\ w \notin stripped

LibInv ==
  /\ \A e \in Editors : Shape(job[e].op, job[e].plan, kind) /\ (Reading(job[e]) => ListOk(job[e].listed))
  /\ \A w \in Workspaces :
       ListOk(ReadSnapshots(disk[w].snaps)) /\ (kind # "device" => disk[w].snaps = Missing)
  /\ \A e \in Editors : job[e].plan # <<>> /\ job[e].ws \notin tangled => Tracks(job[e], disk[job[e].ws])
  /\ \A w \in Workspaces \ (tangled \cup stripped \cup Deleting) : Tidy(disk[w])
  /\ faults \in Nat
  /\ \A e \in Editors :
       job[e].plan # <<>> /\ job[e].ws \notin tangled /\ Calm(job[e].ws) => Texts(job[e], disk[job[e].ws])
  /\ \A w \in Workspaces \ tangled : Calm(w) /\ Busy(w) = {} => Shown(disk[w])
  /\ \A e \in Editors : job[e].plan # <<>> /\ job[e].op = "deletePrefix" => job[e].ws \in stripped
  /\ TokensOk

\* The writes a copilot may ask for are those of the kind.
LEMMA WritesOfTheKind ==
  ASSUME kind' = kind PROVE Writes' = Writes
<1>1. CapabilityTools' = CapabilityTools /\ EditTools' = EditTools
  BY DEF CapabilityTools, EditTools, Call
<1>2. SaveTools' = SaveTools
  BY <1>1 DEF SaveTools, Call
<1> QED BY <1>1, <1>2 DEF Writes

LEMMA TokensStay ==
  ASSUME TokensOk, token' = token, kind' = kind
  PROVE  TokensOk'
BY WritesOfTheKind, Zenon DEF TokensOk, TokenOk

\* One editor goes on, and only its files change.
LEMMA LibMoves ==
  ASSUME AssetInv, LibInv, NEW e \in Editors, job[e].plan # <<>>, NEW f, NEW j,
         disk' = [disk EXCEPT ![job[e].ws] = f], job' = [job EXCEPT ![e] = j],
         tangled' = tangled, kind' = kind, token' = token, stripped \subseteq stripped',
         faults' \in Nat, faults' = 0 => faults = 0,
         j.plan = <<>> \/ (j.ws = job[e].ws /\ j.op = job[e].op),
         Shape(j.op, j.plan, kind), Reading(j) => ListOk(j.listed),
         ListOk(ReadSnapshots(f.snaps)), kind # "device" => f.snaps = Missing,
         job[e].ws \notin tangled =>
           /\ j.plan # <<>> => Tracks(j, f)
           /\ job[e].ws \notin stripped' => Lists(j, f)
           /\ faults' = 0 /\ job[e].ws \notin stripped' => Leaves(j, f)
  PROVE  LibInv'
<1> DEFINE w == job[e].ws
<1>0. w \in Workspaces
  BY DEF AssetInv, JobOk
<1>1. /\ \A x \in Editors : job'[x] = IF x = e THEN j ELSE job[x]
      /\ \A x \in Workspaces : disk'[x] = IF x = w THEN f ELSE disk[x]
  BY <1>0 DEF AssetInv
<1>2. \A x \in Editors : x # e /\ job[x].plan # <<>> /\ job[x].ws = w => w \in tangled
  BY DEF AssetInv
<1>3. \A x \in Editors : job[x].plan # <<>> => job[x].ws \in Workspaces
  BY DEF AssetInv, JobOk
<1> HIDE DEF w
<1>4. \A x \in Editors : Shape(job'[x].op, job'[x].plan, kind') /\ (Reading(job'[x]) => ListOk(job'[x].listed))
  BY <1>1 DEF LibInv
<1>5. \A x \in Workspaces :
        ListOk(ReadSnapshots(disk'[x].snaps)) /\ (kind' # "device" => disk'[x].snaps = Missing)
  BY <1>1 DEF LibInv
<1>6. ASSUME NEW x \in Editors, job'[x].plan # <<>>, job'[x].ws \notin tangled
      PROVE  Tracks(job'[x], disk'[job'[x].ws])
  <2>1. CASE x = e
    BY <1>0, <1>1, <1>6, <2>1 DEF w
  <2>2. CASE x # e
    <3>1. job'[x] = job[x] /\ job[x].ws \in Workspaces /\ job[x].ws # w
      BY <1>1, <1>2, <1>3, <1>6, <2>2
    <3> QED BY <1>1, <1>6, <3>1 DEF LibInv
  <2> QED BY <2>1, <2>2
<1>7. ASSUME NEW x \in Editors, job'[x].plan # <<>>, job'[x].ws \notin tangled, faults' = 0,
             job'[x].ws \notin stripped'
      PROVE  Texts(job'[x], disk'[job'[x].ws])
  <2>1. CASE x = e
    BY <1>0, <1>1, <1>7, <2>1 DEF w, Leaves
  <2>2. CASE x # e
    <3>1. job'[x] = job[x] /\ job[x].ws \in Workspaces /\ job[x].ws # w
      BY <1>1, <1>2, <1>3, <1>7, <2>2
    <3> QED BY <1>1, <1>7, <3>1 DEF LibInv, Calm
  <2> QED BY <2>1, <2>2
<1>8. ASSUME NEW x \in Workspaces, x \notin tangled, x \notin stripped', x \notin Deleting'
      PROVE  Tidy(disk'[x])
  <2>1. CASE x = w
    <3>1. Lists(j, f)
      BY <1>8, <2>1 DEF w
    <3>2. ~(j.plan # <<>> /\ j.op = "delete")
      <4> SUFFICES ASSUME j.plan # <<>>, j.op = "delete" PROVE FALSE
        OBVIOUS
      <4>1. job'[e].plan # <<>> /\ job'[e].op = "delete" /\ job'[e].ws = x
        BY <1>1, <2>1 DEF w
      <4> QED BY <1>8, <4>1 DEF Deleting, Busy
    <3> QED BY <1>1, <2>1, <3>1, <3>2 DEF Lists
  <2>2. CASE x # w
    <3>1. x \notin Deleting
      <4> SUFFICES ASSUME NEW y \in Editors, job[y].plan # <<>>, job[y].ws = x, job[y].op = "delete" PROVE FALSE
        BY DEF Deleting, Busy
      <4>1. job'[y] = job[y]
        BY <1>1, <2>2 DEF w
      <4> QED BY <1>8, <4>1 DEF Deleting, Busy
    <3>2. Tidy(disk[x])
      BY <1>8, <3>1 DEF LibInv
    <3> QED BY <1>1, <2>2, <3>2
  <2> QED BY <2>1, <2>2
<1>9. ASSUME NEW x \in Workspaces, x \notin tangled, faults' = 0, x \notin stripped', Busy(x)' = {}
      PROVE  Shown(disk'[x])
  <2>1. CASE x = w
    <3>1. j.plan = <<>>
      <4> SUFFICES ASSUME j.plan # <<>> PROVE FALSE
        OBVIOUS
      <4>1. job'[e].plan # <<>> /\ job'[e].ws = x
        BY <1>1, <2>1 DEF w
      <4> QED BY <1>9, <4>1 DEF Busy
    <3> QED BY <1>1, <1>9, <2>1, <3>1 DEF Leaves, w
  <2>2. CASE x # w
    <3>1. Busy(x) = {}
      <4> SUFFICES ASSUME NEW y \in Editors, job[y].plan # <<>>, job[y].ws = x PROVE FALSE
        BY DEF Busy
      <4>1. job'[y] = job[y]
        BY <1>1, <2>2 DEF w
      <4> QED BY <1>9, <4>1 DEF Busy
    <3>2. Shown(disk[x])
      BY <1>9, <3>1 DEF LibInv, Calm
    <3> QED BY <1>1, <2>2, <3>2
  <2> QED BY <2>1, <2>2
<1>10. TokensOk'
  BY TokensStay DEF LibInv
<1>11. \A x \in Editors : job'[x].plan # <<>> /\ job'[x].op = "deletePrefix" => job'[x].ws \in stripped'
  BY <1>1 DEF LibInv, w
<1>12. faults' \in Nat /\ kind' = kind /\ tangled' = tangled
  OBVIOUS
<1>13. /\ \A x \in Editors :
            job'[x].plan # <<>> /\ job'[x].ws \notin tangled' /\ Calm(job[x].ws)' => Texts(job'[x], disk'[job'[x].ws])
       /\ \A x \in Workspaces \ tangled' : Calm(x)' /\ Busy(x)' = {} => Shown(disk'[x])
  BY <1>7, <1>9, <1>12 DEF Calm
<1> QED BY <1>4, <1>5, <1>6, <1>8, <1>10, <1>11, <1>12, <1>13 DEF LibInv

\* What is known of an editor that is at work.
LEMMA AtWork ==
  ASSUME AssetInv, LibInv, NEW e \in Editors, job[e].plan # <<>>
  PROVE  /\ JobOk(job[e]) /\ FilesOk(Here(e)) /\ job[e].ws \in Workspaces
         /\ kind \in {"device", "capability", "connection"} /\ faults \in Nat
         /\ Shape(job[e].op, job[e].plan, kind) /\ (Reading(job[e]) => ListOk(job[e].listed))
         /\ ListOk(ReadSnapshots(Here(e).snaps)) /\ (kind # "device" => Here(e).snaps = Missing)
         /\ job[e].ws \notin tangled =>
              /\ Tracks(job[e], Here(e))
              /\ job[e].ws \notin stripped => Lists(job[e], Here(e))
              /\ Calm(job[e].ws) => Texts(job[e], Here(e))
         /\ job[e].op = "deletePrefix" => job[e].ws \in stripped
<1> DEFINE w == job[e].ws
<1>1. JobOk(job[e]) /\ w \in Workspaces /\ kind \in {"device", "capability", "connection"}
  BY DEF AssetInv, JobOk
<1>2. FilesOk(Here(e))
  BY <1>1 DEF AssetInv, Here
<1>3. ASSUME w \notin tangled, w \notin stripped PROVE Lists(job[e], Here(e))
  <2>1. CASE w \in Deleting
    <3>1. PICK x \in Editors : job[x].plan # <<>> /\ job[x].ws = w /\ job[x].op = "delete"
      BY <2>1 DEF Deleting, Busy
    <3>2. x = e
      BY <1>3, <3>1 DEF AssetInv
    <3> QED BY <3>1, <3>2 DEF Lists
  <2>2. CASE w \notin Deleting
    BY <1>1, <1>3, <2>2 DEF LibInv, Lists, Here
  <2> QED BY <2>1, <2>2
<1>4. ASSUME w \notin tangled PROVE Tracks(job[e], Here(e)) /\ (Calm(w) => Texts(job[e], Here(e)))
  BY <1>4 DEF LibInv, Here
<1>5. ListOk(ReadSnapshots(Here(e).snaps)) /\ (kind # "device" => Here(e).snaps = Missing)
  BY <1>1 DEF LibInv, Here
<1>6. Shape(job[e].op, job[e].plan, kind) /\ (Reading(job[e]) => ListOk(job[e].listed)) /\ faults \in Nat
  BY DEF LibInv
<1>7. job[e].op = "deletePrefix" => w \in stripped
  BY DEF LibInv
<1> QED BY <1>1, <1>2, <1>3, <1>4, <1>5, <1>6, <1>7

LEMMA NextVersionIsAbove ==
  ASSUME NEW versions, Bounded(DOMAIN versions)
  PROVE  \A v \in DOMAIN versions : v < NextVersion(versions)
<1> DEFINE D == DOMAIN versions
           g == Greatest(versions)
<1> SUFFICES ASSUME NEW v \in D PROVE v < NextVersion(versions)
  OBVIOUS
<1>1. \E m \in D : \A d \in D : d <= m
  BY GreatestThere
<1>2. g \in D /\ \A d \in D : d <= g
  BY <1>1, Zenon DEF Greatest
<1>3. NextVersion(versions) = g + 1
  BY DEF NextVersion
<1> HIDE DEF g
<1> QED BY <1>2, <1>3 DEF Bounded

LEMMA GreatestIs ==
  ASSUME NEW versions, DOMAIN versions \subseteq Nat, NEW n \in DOMAIN versions,
         \A v \in DOMAIN versions : v <= n
  PROVE  Greatest(versions) = n
<1> DEFINE D == DOMAIN versions
           g == Greatest(versions)
<1>1. g \in D /\ \A d \in D : d <= g
  BY Zenon DEF Greatest
<1> HIDE DEF g
<1>2. g <= n /\ n <= g /\ g \in Nat /\ n \in Nat
  BY <1>1
<1>3. g = n
  BY <1>2
<1> QED BY <1>3 DEF g

\* What is read of no list, or of one that is cut short.
LEMMA NoneRead ==
  ASSUME NEW f, f.snaps = Missing \/ f.snaps = Spoilt
  PROVE  ListOk(ReadSnapshots(f.snaps)) /\ Tidy(f)
<1>1. ReadSnapshots(f.snaps) = <<>>
  BY DEF ReadSnapshots
<1> QED BY <1>1, NoListIsOk DEF Tidy

\* A stage ends well.
LEMMA LibAdvances ==
  ASSUME AssetInv, LibInv, NEW e \in Editors, job[e].plan # <<>>,
         NEW now, JobOk(now), now.plan = job[e].plan, now.op = job[e].op, now.ws = job[e].ws,
         NEW f, Store(e, f), Advance(e, now), tangled' = tangled, kind' = kind, token' = token,
         stripped' = stripped, faults' = faults,
         ListOk(ReadSnapshots(f.snaps)), kind # "device" => f.snaps = Missing,
         job[e].plan[1] = "list" => ListOk(now.listed),
         job[e].ws \notin tangled =>
           /\ Onward(now).plan # <<>> => Tracks(Onward(now), f)
           /\ job[e].ws \notin stripped => Lists(Onward(now), f)
           /\ Calm(job[e].ws) => Leaves(Onward(now), f)
  PROVE  LibInv'
<1>1. disk' = [disk EXCEPT ![job[e].ws] = f] /\ job' = [job EXCEPT ![e] = Onward(now)]
  BY DEF Store, Advance, Onward
<1>2. Shape(now.op, now.plan, kind) /\ faults \in Nat
  BY AtWork
<1>3. Shape(Onward(now).op, Onward(now).plan, kind)
  BY <1>2, ShapeStays
<1>4. Onward(now).plan = <<>> \/ (Onward(now).ws = job[e].ws /\ Onward(now).op = job[e].op)
  BY Goes
<1>5. ASSUME Reading(Onward(now)) PROVE ListOk(Onward(now).listed)
  <2>1. Onward(now).plan # <<>> /\ Onward(now).plan[1] \in {"append", "drop"}
    BY <1>5 DEF Reading
  <2>2. now.plan[1] = "list"
    BY <1>2, <2>1, ComesNext
  <2>3. Onward(now).listed = now.listed
    BY <2>1, GoesOn
  <2> QED BY <2>2, <2>3
<1>6. faults' = 0 /\ job[e].ws \notin stripped' => Calm(job[e].ws)
  BY DEF Calm
<1> QED BY <1>1, <1>2, <1>3, <1>4, <1>5, <1>6, LibMoves

\* A command after a stage that has nothing to do with the number and the list.
LEMMA TracksNothing ==
  ASSUME NEW now, JobOk(now), now.plan # <<>>, NEW k, Shape(now.op, now.plan, k), Onward(now).plan # <<>>,
         now.plan[1] \notin {"number", "latest", "version", "list"}, NEW f
  PROVE  Tracks(Onward(now), f)
<1>1. ~Numbered(Onward(now).plan) /\ ~Noting(Onward(now).plan) /\ Onward(now).plan[1] \notin {"append", "drop"}
  BY ComesNext
<1> QED BY <1>1 DEF Tracks, Reading

\* The text that is left when the latest file was not written.
LEMMA LeavesText ==
  ASSUME NEW now, JobOk(now), now.plan # <<>>, NEW k, Shape(now.op, now.plan, k), now.plan[1] # "latest",
         NEW f, Shown(f), now.op = "delete" => f.latest = Missing
  PROVE  Leaves(Onward(now), f)
<1>1. CASE Onward(now).plan = <<>>
  BY <1>1 DEF Leaves
<1>2. CASE Onward(now).plan # <<>>
  <2>1. Onward(now).plan[1] # "version" /\ now.op # "bind" /\ Onward(now).op = now.op
    BY <1>2, ComesNext, GoesOn
  <2> QED BY <1>2, <2>1 DEF Leaves, Texts
<1> QED BY <1>1, <1>2

\* The files of a command that deletes nothing, before the latest file is written.
LEMMA StandsAs ==
  ASSUME AssetInv, LibInv, NEW e \in Editors, job[e].plan # <<>>, job[e].plan[1] \notin Removals,
         job[e].ws \notin tangled
  PROVE  /\ job[e].op # "delete"
         /\ job[e].ws \notin stripped => Tidy(Here(e))
         /\ Calm(job[e].ws) /\ job[e].plan[1] # "version" => Shown(Here(e))
<1>1. /\ JobOk(job[e]) /\ Shape(job[e].op, job[e].plan, kind)
      /\ job[e].ws \notin stripped => Lists(job[e], Here(e))
      /\ Calm(job[e].ws) => Texts(job[e], Here(e))
  BY AtWork
<1>2. 1 \in 1..Len(job[e].plan)
  <2>1. Len(job[e].plan) \in Nat /\ Len(job[e].plan) >= 1
    BY <1>1, SomePlan DEF JobOk
  <2> DEFINE n == Len(job[e].plan)
  <2>2. n \in Nat /\ n >= 1
    BY <2>1
  <2> HIDE DEF n
  <2>3. 1 \in 1..n
    BY <2>2
  <2> QED BY <2>3 DEF n
<1>3. job[e].op # "delete"
  BY <1>1, <1>2 DEF Shape, Deletions
<1> QED BY <1>1, <1>3 DEF Lists, Texts

\* A number is taken.
LEMMA LibNumbers ==
  ASSUME AssetInv, LibInv, NEW e \in Editors, Number(e)
  PROVE  LibInv'
<1> DEFINE j == job[e]
           d == Here(e)
           n == NextVersion(d.versions)
           now == [j EXCEPT !.version = n]
           o == Onward(now)
<1>1. /\ Stage(e) = "number" /\ Advance(e, now) /\ disk' = disk
      /\ tangled' = tangled /\ kind' = kind /\ token' = token /\ stripped' = stripped /\ faults' = faults
  BY DEF Number, Step
<1>2. j.plan # <<>> /\ j.plan[1] = "number" /\ JobOk(j) /\ j.ws \in Workspaces /\ FilesOk(d)
  BY <1>1, StageIs
<1>3. /\ Shape(j.op, j.plan, kind) /\ ListOk(ReadSnapshots(d.snaps)) /\ (kind # "device" => d.snaps = Missing)
  BY <1>2, AtWork
<1>4. n \in Nat /\ \A v \in DOMAIN d.versions : v < n
  BY <1>2, NextVersionIsNew, NextVersionIsAbove DEF FilesOk
<1>5. JobOk(now) /\ now.op = j.op /\ now.plan = j.plan /\ now.ws = j.ws /\ now.version = n
  BY <1>2, <1>4, JobChanged
<1>6. Store(e, d)
  BY <1>1, <1>2, SameFiles
<1>7. "number" \notin Removals
  BY DEF Removals
<1> HIDE DEF n, now, o
<1>8. ASSUME j.ws \notin tangled
      PROVE  /\ o.plan # <<>> => Tracks(o, d)
             /\ j.ws \notin stripped => Lists(o, d)
             /\ Calm(j.ws) => Leaves(o, d)
  <2>1. /\ j.op # "delete" /\ (j.ws \notin stripped => Tidy(d)) /\ (Calm(j.ws) => Shown(d))
    BY <1>2, <1>7, <1>8, StandsAs
  <2>2. ASSUME o.plan # <<>> PROVE Tracks(o, d)
    <3>1. ~Noting(o.plan) /\ o.plan[1] \notin {"append", "drop"}
      BY <1>2, <1>3, <1>5, <2>2, ComesNext DEF o
    <3>2. o.version = n
      BY <1>2, <1>5, <2>2, GoesOn DEF o
    <3> QED BY <1>4, <3>1, <3>2 DEF Tracks, Reading
  <2>3. Calm(j.ws) => Leaves(o, d)
    BY <1>2, <1>3, <1>5, <2>1, LeavesText DEF o
  <2> QED BY <2>1, <2>2, <2>3 DEF Lists
<1>9. j.plan[1] = "list" => ListOk(now.listed)
  BY <1>2
<1> QED BY <1>1, <1>2, <1>3, <1>5, <1>6, <1>8, <1>9, LibAdvances DEF o

\* The latest file is written.
LEMMA LatestWritten ==
  ASSUME NEW d, FilesOk(d), NEW x
  PROVE  LET f == [d EXCEPT !.latest = x]
         IN  f.latest = x /\ f.versions = d.versions /\ f.snaps = d.snaps
<1>1. [d EXCEPT !.latest = x] = [latest |-> x, versions |-> d.versions, snaps |-> d.snaps, sources |-> d.sources]
  BY DEF FilesOk
<1> QED BY <1>1

LEMMA LibLatest ==
  ASSUME AssetInv, LibInv, NEW e \in Editors, WriteLatest(e)
  PROVE  LibInv'
<1> DEFINE j == job[e]
           d == Here(e)
           f == [d EXCEPT !.latest = j.text]
           o == Onward(j)
<1>1. /\ Stage(e) = "latest" /\ Advance(e, j) /\ Store(e, f)
      /\ tangled' = tangled /\ kind' = kind /\ token' = token /\ stripped' = stripped /\ faults' = faults
  BY DEF WriteLatest, Step
<1>2. j.plan # <<>> /\ j.plan[1] = "latest" /\ JobOk(j) /\ j.ws \in Workspaces /\ FilesOk(d)
  BY <1>1, StageIs
<1>3. /\ Shape(j.op, j.plan, kind) /\ ListOk(ReadSnapshots(d.snaps)) /\ (kind # "device" => d.snaps = Missing)
      /\ j.ws \notin tangled => Tracks(j, d) /\ (Calm(j.ws) => Texts(j, d))
  BY <1>2, AtWork
<1>4. f.latest = j.text /\ f.versions = d.versions /\ f.snaps = d.snaps
  BY <1>2, LatestWritten
<1>5. "latest" \notin Removals
  BY DEF Removals
<1> HIDE DEF f, o
<1>6. ASSUME j.ws \notin tangled
      PROVE  /\ o.plan # <<>> => Tracks(o, f)
             /\ j.ws \notin stripped => Lists(o, f)
             /\ Calm(j.ws) => Leaves(o, f)
  <2>1. /\ j.op # "delete" /\ (j.ws \notin stripped => Tidy(d)) /\ (Calm(j.ws) => Shown(d))
    BY <1>2, <1>5, <1>6, StandsAs
  <2>2. ASSUME o.plan # <<>> PROVE Tracks(o, f)
    <3>1. /\ ~Noting(o.plan) /\ o.plan[1] \notin {"append", "drop"}
          /\ Numbered(o.plan) => Numbered(j.plan)
      BY <1>2, <1>3, <2>2, ComesNext DEF o
    <3>2. o.version = j.version
      BY <1>2, <2>2, GoesOn DEF o
    <3>3. Numbered(j.plan) => \A v \in DOMAIN d.versions : v < j.version
      BY <1>3, <1>6 DEF Tracks
    <3> QED BY <1>4, <3>1, <3>2, <3>3 DEF Tracks, Reading
  <2>3. j.ws \notin stripped => Tidy(f)
    BY <1>4, <2>1 DEF Tidy
  <2>4. ASSUME Calm(j.ws), o.plan = <<>> PROVE Shown(f)
    <3>1. j.op = "bind"
      <4>2. Len(j.plan) = 1
        BY <1>2, <2>4, OverAtLast DEF o
      <4> QED BY <1>2, <1>3, <4>2 DEF Shape
    <3>2. d.latest # Missing /\ SameText(j.text, d.latest)
      BY <1>3, <1>6, <2>4, <3>1 DEF Texts
    <3>3. DOMAIN d.versions # {} /\ SameText(d.latest, d.versions[Greatest(d.versions)])
      BY <2>1, <2>4, <3>2 DEF Shown
    <3> QED BY <1>4, <3>2, <3>3 DEF Shown, SameText
  <2>5. ASSUME Calm(j.ws), o.plan # <<>> PROVE Texts(o, f)
    <3>1. /\ Len(j.plan) \in Nat /\ Len(j.plan) >= 2 /\ Len(o.plan) = Len(j.plan) - 1
          /\ \A i \in 1..Len(o.plan) : o.plan[i] = j.plan[i + 1]
          /\ o.op = j.op /\ o.text = j.text
      BY <1>2, <2>5, GoesOn DEF o
    <3>2. j.op # "bind"
      BY <1>2, <1>3, <2>5, ComesNext DEF o
    <3>3. j.plan[2] = "version"
      <4>1. 1 \in 1..Len(j.plan)
        BY <3>1
      <4> QED BY <1>2, <1>3, <3>2, <4>1 DEF Shape
    <3>4. o.plan[1] = "version"
      <4> DEFINE n == Len(j.plan)
                 m == Len(o.plan)
      <4>1. n \in Nat /\ n >= 2 /\ m = n - 1 /\ \A i \in 1..m : o.plan[i] = j.plan[i + 1]
        BY <3>1
      <4> HIDE DEF n, m
      <4>2. 1 \in 1..m
        BY <4>1
      <4> QED BY <3>3, <4>1, <4>2
    <3> QED BY <1>4, <2>1, <3>1, <3>2, <3>4 DEF Texts
  <2> QED BY <2>2, <2>3, <2>4, <2>5 DEF Lists, Leaves
<1>7. ListOk(ReadSnapshots(f.snaps)) /\ (kind # "device" => f.snaps = Missing)
  BY <1>3, <1>4
<1>8. j.plan[1] = "list" => ListOk(j.listed)
  BY <1>2
<1> QED BY <1>1, <1>2, <1>6, <1>7, <1>8, LibAdvances DEF o

\* A version file is written.
Put(f, d, n, text) == f = [d EXCEPT !.versions = With(@, n, text)]
LEMMA VersionPut ==
  ASSUME NEW d, FilesOk(d), NEW n \in Nat, NEW text, NEW f, Put(f, d, n, text)
  PROVE  /\ f.latest = d.latest /\ f.snaps = d.snaps /\ DOMAIN f.versions = DOMAIN d.versions \cup {n}
         /\ f.versions[n] = text
<1> DEFINE vs == With(d.versions, n, text)
<1>1. DOMAIN vs = DOMAIN d.versions \cup {n} /\ vs[n] = text
  BY DEF With
<1>2. f = [latest |-> d.latest, versions |-> vs, snaps |-> d.snaps, sources |-> d.sources]
  <2>1. d = [latest |-> d.latest, versions |-> d.versions, snaps |-> d.snaps, sources |-> d.sources]
    BY DEF FilesOk
  <2>2. f = [d EXCEPT !.versions = vs]
    BY DEF Put
  <2> HIDE DEF vs
  <2> QED BY <2>1, <2>2
<1> HIDE DEF vs
<1> QED BY <1>1, <1>2

LEMMA TidyWithMore ==
  ASSUME NEW d, Tidy(d), NEW f, f.snaps = d.snaps, DOMAIN d.versions \subseteq DOMAIN f.versions
  PROVE  Tidy(f)
BY DEF Tidy, NewestFirst

LEMMA LibVersion ==
  ASSUME AssetInv, LibInv, NEW e \in Editors, WriteVersion(e)
  PROVE  LibInv'
<1> DEFINE j == job[e]
           d == Here(e)
           f == [d EXCEPT !.versions = With(@, j.version, j.text)]
           o == Onward(j)
<1>1. /\ Stage(e) = "version" /\ Advance(e, j) /\ Store(e, f)
      /\ tangled' = tangled /\ kind' = kind /\ token' = token /\ stripped' = stripped /\ faults' = faults
  BY DEF WriteVersion, Step
<1>2. j.plan # <<>> /\ j.plan[1] = "version" /\ JobOk(j) /\ j.ws \in Workspaces /\ FilesOk(d)
  BY <1>1, StageIs
<1>3. /\ Shape(j.op, j.plan, kind) /\ ListOk(ReadSnapshots(d.snaps)) /\ (kind # "device" => d.snaps = Missing)
      /\ j.ws \notin tangled => Tracks(j, d) /\ (Calm(j.ws) => Texts(j, d))
  BY <1>2, AtWork
<1>4. /\ f.latest = d.latest /\ f.snaps = d.snaps /\ DOMAIN f.versions = DOMAIN d.versions \cup {j.version}
      /\ f.versions[j.version] = j.text /\ j.version \in Nat /\ DOMAIN d.versions \subseteq Nat
  <2>1. j.version \in Nat /\ DOMAIN d.versions \subseteq Nat
    BY <1>2 DEF JobOk, FilesOk, Bounded
  <2>2. /\ f.latest = d.latest /\ f.snaps = d.snaps /\ DOMAIN f.versions = DOMAIN d.versions \cup {j.version}
        /\ f.versions[j.version] = j.text
    <3>1. Put(f, d, j.version, j.text)
      BY DEF Put
    <3> HIDE DEF f, d, j
    <3> QED BY <1>2, <2>1, <3>1, VersionPut
  <2> HIDE DEF f
  <2> QED BY <2>1, <2>2
<1>5. "version" \notin Removals
  BY DEF Removals
<1> HIDE DEF f, o
<1>6. ASSUME j.ws \notin tangled
      PROVE  /\ o.plan # <<>> => Tracks(o, f)
             /\ j.ws \notin stripped => Lists(o, f)
             /\ Calm(j.ws) => Leaves(o, f)
  <2>1. /\ j.op # "delete" /\ (j.ws \notin stripped => Tidy(d))
    BY <1>2, <1>5, <1>6, StandsAs
  <2>2. Len(j.plan) \in Nat /\ Len(j.plan) >= 1
    BY <1>2, SomePlan DEF JobOk
  <2>3. \A v \in DOMAIN d.versions : v < j.version
    BY <1>2, <1>3, <1>6, <2>2 DEF Tracks, Numbered
  <2>4. \A v \in DOMAIN f.versions : v <= j.version
    BY <1>4, <2>3
  <2>5. ASSUME o.plan # <<>> PROVE Tracks(o, f)
    <3>1. ~Numbered(o.plan) /\ o.plan[1] \notin {"append", "drop"}
      BY <1>2, <1>3, <2>5, ComesNext DEF o
    <3>2. o.version = j.version
      BY <1>2, <2>5, GoesOn DEF o
    <3> QED BY <1>4, <2>4, <3>1, <3>2 DEF Tracks, Reading
  <2>6. j.ws \notin stripped => Tidy(f)
    BY <1>4, <2>1, TidyWithMore
  <2>7. ASSUME Calm(j.ws) PROVE Leaves(o, f)
    <3>1. d.latest = j.text
      BY <1>2, <1>3, <1>6, <2>7 DEF Texts
    <3>2. Greatest(f.versions) = j.version
      BY <1>4, <2>4, GreatestIs
    <3>3. Shown(f)
      BY <1>4, <3>1, <3>2 DEF Shown, SameText
    <3> QED BY <1>2, <1>3, <2>1, <3>3, LeavesText DEF o
  <2> QED BY <2>5, <2>6, <2>7 DEF Lists
<1>7. ListOk(ReadSnapshots(f.snaps)) /\ (kind # "device" => f.snaps = Missing)
  BY <1>3, <1>4
<1>8. j.plan[1] = "list" => ListOk(j.listed)
  BY <1>2
<1> QED BY <1>1, <1>2, <1>6, <1>7, <1>8, LibAdvances DEF o

\* A command returns before its plan is over, and the files are as they were.
LEMMA LibEnds ==
  ASSUME AssetInv, LibInv, NEW e \in Editors, job[e].plan # <<>>, job[e].plan[1] \notin Removals \cup {"version"},
         job' = [job EXCEPT ![e] = Idle], disk' = disk,
         tangled' = tangled, kind' = kind, token' = token, stripped' = stripped, faults' = faults
  PROVE  LibInv'
<1>1. /\ job[e].ws \in Workspaces /\ faults \in Nat
      /\ ListOk(ReadSnapshots(Here(e).snaps)) /\ (kind # "device" => Here(e).snaps = Missing)
  BY AtWork
<1>2. Store(e, Here(e))
  BY <1>1, SameFiles
<1>3. disk' = [disk EXCEPT ![job[e].ws] = Here(e)]
  BY <1>2 DEF Store
<1>4. job[e].ws \notin tangled => /\ job[e].ws \notin stripped => Tidy(Here(e))
                                  /\ Calm(job[e].ws) => Shown(Here(e))
  BY StandsAs
<1>5. Shape(Idle.op, Idle.plan, kind) /\ Idle.plan = <<>>
  BY IdleHasShape
<1>6. ~Reading(Idle) /\ (Tidy(Here(e)) => Lists(Idle, Here(e))) /\ (Shown(Here(e)) => Leaves(Idle, Here(e)))
  BY <1>5 DEF Reading, Lists, Leaves
<1>7. faults' = 0 /\ job[e].ws \notin stripped' => Calm(job[e].ws)
  BY DEF Calm
<1> QED BY <1>1, <1>3, <1>4, <1>5, <1>6, <1>7, LibMoves

LEMMA LibReadsList ==
  ASSUME AssetInv, LibInv, NEW e \in Editors, ReadList(e)
  PROVE  LibInv'
<1> DEFINE j == job[e]
           d == Here(e)
           list == ReadSnapshots(d.snaps)
           now == [j EXCEPT !.listed = list]
           o == Onward(now)
<1>1. /\ Stage(e) = "list" /\ disk' = disk
      /\ tangled' = tangled /\ kind' = kind /\ token' = token /\ stripped' = stripped /\ faults' = faults
      /\ job' = [job EXCEPT ![e] = Idle] \/ Advance(e, now)
  BY DEF ReadList, Step
<1>2. j.plan # <<>> /\ j.plan[1] = "list" /\ JobOk(j) /\ j.ws \in Workspaces /\ FilesOk(d)
  BY <1>1, StageIs
<1>3. /\ Shape(j.op, j.plan, kind) /\ ListOk(list) /\ (kind # "device" => d.snaps = Missing)
      /\ j.ws \notin tangled => Tracks(j, d)
  BY <1>2, AtWork
<1>4. /\ JobOk(now) /\ now.op = j.op /\ now.plan = j.plan /\ now.ws = j.ws /\ now.version = j.version
  BY <1>2, JobChanged, ZenonT(90)
<1>5. now.listed = list
  <2>1. j = [op |-> j.op, plan |-> j.plan, ws |-> j.ws, text |-> j.text,
             version |-> j.version, target |-> j.target, listed |-> j.listed]
    BY <1>2 DEF JobOk
  <2> QED BY <2>1
<1>6. Store(e, d)
  BY <1>1, <1>2, SameFiles
<1>7. "list" \notin Removals \cup {"version"}
  BY DEF Removals
<1> HIDE DEF now, o
<1>8. ASSUME j.ws \notin tangled
      PROVE  /\ o.plan # <<>> => Tracks(o, d)
             /\ j.ws \notin stripped => Lists(o, d)
             /\ Calm(j.ws) => Leaves(o, d)
  <2>1. /\ j.op # "delete" /\ (j.ws \notin stripped => Tidy(d)) /\ (Calm(j.ws) => Shown(d))
    BY <1>2, <1>7, <1>8, StandsAs
  <2>2. ASSUME o.plan # <<>> PROVE Tracks(o, d)
    <3>1. ~Numbered(o.plan) /\ (Noting(o.plan) => Noting(j.plan))
      BY <1>2, <1>3, <1>4, <2>2, ComesNext DEF o
    <3>2. o.version = j.version /\ o.listed = list
      BY <1>2, <1>4, <1>5, <2>2, GoesOn DEF o
    <3>3. Noting(j.plan) => j.version \in DOMAIN d.versions /\ \A v \in DOMAIN d.versions : v <= j.version
      BY <1>3, <1>8 DEF Tracks
    <3> QED BY <3>1, <3>2, <3>3 DEF Tracks
  <2>3. Calm(j.ws) => Leaves(o, d)
    BY <1>2, <1>3, <1>4, <2>1, LeavesText DEF o
  <2> QED BY <2>1, <2>2, <2>3 DEF Lists
<1>9. CASE Advance(e, now)
  BY <1>1, <1>2, <1>3, <1>4, <1>5, <1>6, <1>8, <1>9, LibAdvances DEF o
<1>10. CASE job' = [job EXCEPT ![e] = Idle]
  BY <1>1, <1>2, <1>7, <1>10, LibEnds
<1> QED BY <1>1, <1>9, <1>10

\* One file other than the versions is written.
LEMMA OtherFile ==
  ASSUME NEW d, FilesOk(d), NEW x
  PROVE  /\ LET f == [d EXCEPT !.snaps = x]
            IN  f.snaps = x /\ f.latest = d.latest /\ f.versions = d.versions
         /\ LET f == [d EXCEPT !.sources = x]
            IN  f.snaps = d.snaps /\ f.latest = d.latest /\ f.versions = d.versions
<1>1. /\ [d EXCEPT !.snaps = x] = [latest |-> d.latest, versions |-> d.versions, snaps |-> x, sources |-> d.sources]
      /\ [d EXCEPT !.sources = x] = [latest |-> d.latest, versions |-> d.versions, snaps |-> d.snaps, sources |-> x]
  BY DEF FilesOk
<1> QED BY <1>1

\* A stage after which the latest text and the versions are as they were.
LEMMA LibBeside ==
  ASSUME AssetInv, LibInv, NEW e \in Editors, job[e].plan # <<>>,
         job[e].plan[1] \notin Removals \cup {"number", "latest", "version", "list"},
         NEW now, JobOk(now), now.plan = job[e].plan, now.op = job[e].op, now.ws = job[e].ws,
         NEW f, f.latest = Here(e).latest, f.versions = Here(e).versions,
         ListOk(ReadSnapshots(f.snaps)), kind # "device" => f.snaps = Missing,
         job[e].ws \notin tangled /\ job[e].ws \notin stripped /\ Tidy(Here(e)) => Tidy(f),
         Store(e, f), Advance(e, now),
         tangled' = tangled, kind' = kind, token' = token, stripped' = stripped, faults' = faults
  PROVE  LibInv'
<1>1. Shape(now.op, now.plan, kind)
  BY AtWork
<1>2. ASSUME job[e].ws \notin tangled
      PROVE  /\ Onward(now).plan # <<>> => Tracks(Onward(now), f)
             /\ job[e].ws \notin stripped => Lists(Onward(now), f)
             /\ Calm(job[e].ws) => Leaves(Onward(now), f)
  <2>1. /\ job[e].op # "delete" /\ (job[e].ws \notin stripped => Tidy(Here(e))) /\ (Calm(job[e].ws) => Shown(Here(e)))
    BY <1>2, StandsAs
  <2>2. Onward(now).plan # <<>> => Tracks(Onward(now), f)
    BY <1>1, TracksNothing
  <2>3. Calm(job[e].ws) => Shown(f)
    BY <2>1 DEF Shown
  <2>4. Calm(job[e].ws) => Leaves(Onward(now), f)
    BY <1>1, <2>1, <2>3, LeavesText
  <2> QED BY <1>2, <2>1, <2>2, <2>4 DEF Lists
<1> QED BY <1>2, LibAdvances

LEMMA LibSources ==
  ASSUME AssetInv, LibInv, NEW e \in Editors, WriteSources(e)
  PROVE  LibInv'
<1> DEFINE d == Here(e)
           f == [d EXCEPT !.sources = TRUE]
<1>1. /\ Stage(e) = "sources" /\ Advance(e, job[e]) /\ Store(e, f)
      /\ tangled' = tangled /\ kind' = kind /\ token' = token /\ stripped' = stripped /\ faults' = faults
  BY DEF WriteSources, Step
<1>2. job[e].plan # <<>> /\ job[e].plan[1] = "sources" /\ JobOk(job[e]) /\ FilesOk(d)
  BY <1>1, StageIs
<1>3. ListOk(ReadSnapshots(d.snaps)) /\ (kind # "device" => d.snaps = Missing)
  BY <1>2, AtWork
<1>4. f.snaps = d.snaps /\ f.latest = d.latest /\ f.versions = d.versions
  BY <1>2, OtherFile
<1>5. "sources" \notin Removals \cup {"number", "latest", "version", "list"}
  BY DEF Removals
<1> HIDE DEF f
<1>6. Tidy(d) => Tidy(f)
  BY <1>4 DEF Tidy
<1> QED BY <1>1, <1>2, <1>3, <1>4, <1>5, <1>6, LibBeside

\* The list is written: one more version, or one less.
LEMMA LibAppends ==
  ASSUME AssetInv, LibInv, NEW e \in Editors, AppendSnapshot(e) \/ DropSnapshot(e)
  PROVE  LibInv'
<1> DEFINE j == job[e]
           d == Here(e)
<1>1. /\ Stage(e) \in {"append", "drop"} /\ Advance(e, j)
      /\ tangled' = tangled /\ kind' = kind /\ token' = token /\ stripped' = stripped /\ faults' = faults
      /\ \/ Stage(e) = "append" /\ Store(e, [d EXCEPT !.snaps = Appended(j.listed, j.version)])
         \/ Store(e, [d EXCEPT !.snaps = Dropped(j.listed, j.target)])
  BY DEF AppendSnapshot, DropSnapshot, Step
<1>2. j.plan # <<>> /\ j.plan[1] = Stage(e) /\ JobOk(j) /\ FilesOk(d)
  BY <1>1, StageIs
<1>3. /\ Reading(j) /\ j.version \in Nat /\ DOMAIN d.versions \subseteq Nat
      /\ Stage(e) \notin Removals \cup {"number", "latest", "version", "list"}
  BY <1>1, <1>2 DEF Reading, JobOk, FilesOk, Bounded, Removals
<1>4. /\ ListOk(j.listed) /\ Shape(j.op, j.plan, kind)
      /\ j.ws \notin tangled => Tracks(j, d)
  BY <1>2, <1>3, AtWork
<1>5. 1 \in 1..Len(j.plan) /\ Len(j.plan) >= 1
  <2>1. Len(j.plan) \in Nat /\ Len(j.plan) >= 1
    BY <1>2, SomePlan DEF JobOk
  <2> QED BY <2>1
<1>6. kind = "device"
  BY <1>1, <1>2, <1>4, <1>5 DEF Shape
<1>7. ASSUME NEW list, ListOk(list), Store(e, [d EXCEPT !.snaps = list]),
             j.ws \notin tangled /\ Tidy(d) => NewestFirst(list, DOMAIN d.versions)
      PROVE  LibInv'
  <2> DEFINE f == [d EXCEPT !.snaps = list]
  <2>1. f.snaps = list /\ f.latest = d.latest /\ f.versions = d.versions
    BY <1>2, OtherFile
  <2>2. Store(e, f)
    BY <1>7
  <2> HIDE DEF f
  <2>3. ReadSnapshots(f.snaps) = list \/ ReadSnapshots(f.snaps) = <<>>
    BY <2>1 DEF ReadSnapshots
  <2>4. ListOk(ReadSnapshots(f.snaps))
    BY <1>7, <2>3, NoListIsOk
  <2>5. j.ws \notin tangled /\ Tidy(d) => Tidy(f)
    BY <1>7, <2>1, <2>3, NoListIsOk DEF Tidy
  <2> HIDE DEF j, d
  <2> QED BY <1>1, <1>2, <1>3, <1>6, <2>1, <2>2, <2>4, <2>5, LibBeside DEF j, d
<1> DEFINE a == Appended(j.listed, j.version)
           b == Dropped(j.listed, j.target)
<1>8. ASSUME j.ws \notin tangled, Tidy(d) PROVE NewestFirst(j.listed, DOMAIN d.versions)
  BY <1>3, <1>4, <1>8 DEF Tracks, Tidy
<1>9. CASE Stage(e) = "append" /\ Store(e, [d EXCEPT !.snaps = a])
  <2>1. ListOk(a)
    BY <1>3, <1>4, AppendedIsOk
  <2>2. ASSUME j.ws \notin tangled, Tidy(d) PROVE NewestFirst(a, DOMAIN d.versions)
    <3>1. j.version \in DOMAIN d.versions /\ \A v \in DOMAIN d.versions : v <= j.version
      BY <1>2, <1>4, <1>5, <1>9, <2>2 DEF Tracks, Noting
    <3> QED BY <1>3, <1>4, <1>8, <2>2, <3>1, AppendedIsOk
  <2> HIDE DEF a
  <2> QED BY <1>7, <1>9, <2>1, <2>2
<1>10. CASE Store(e, [d EXCEPT !.snaps = b])
  <2>1. ListOk(b) /\ (NewestFirst(j.listed, DOMAIN d.versions) => NewestFirst(b, DOMAIN d.versions))
    BY <1>4, DroppedIsOk
  <2> HIDE DEF b
  <2> QED BY <1>7, <1>8, <1>10, <2>1
<1> QED BY <1>1, <1>9, <1>10

\* The target of a rollback is read, after the protection.
LEMMA LibLoads ==
  ASSUME AssetInv, LibInv, NEW e \in Editors, LoadTarget(e)
  PROVE  LibInv'
<1> DEFINE j == job[e]
           d == Here(e)
           text == d.versions[j.target]
           now == [j EXCEPT !.text = text]
<1>1. /\ Stage(e) = "load" /\ disk' = disk
      /\ tangled' = tangled /\ kind' = kind /\ token' = token /\ stripped' = stripped /\ faults' = faults
      /\ job' = [job EXCEPT ![e] = Idle] \/ Advance(e, now)
  BY DEF LoadTarget, Step
<1>2. j.plan # <<>> /\ j.plan[1] = "load" /\ JobOk(j) /\ j.ws \in Workspaces /\ FilesOk(d)
  BY <1>1, StageIs
<1>3. JobOk(now) /\ now.op = j.op /\ now.plan = j.plan /\ now.ws = j.ws
  BY <1>2, JobChanged, ZenonT(90)
<1>4. Store(e, d)
  BY <1>1, <1>2, SameFiles
<1>5. ListOk(ReadSnapshots(d.snaps)) /\ (kind # "device" => d.snaps = Missing)
  BY <1>2, AtWork
<1>6. "load" \notin Removals \cup {"number", "latest", "version", "list"}
  BY DEF Removals
<1> HIDE DEF text, now
<1>7. CASE Advance(e, now)
  BY <1>1, <1>2, <1>3, <1>4, <1>5, <1>6, <1>7, LibBeside
<1>8. CASE job' = [job EXCEPT ![e] = Idle]
  BY <1>1, <1>2, <1>6, <1>8, LibEnds
<1> QED BY <1>1, <1>7, <1>8

\* A stage of a deletion, whose last one for a device is the list.
LEMMA LibRemoves ==
  ASSUME AssetInv, LibInv, NEW e \in Editors, job[e].plan # <<>>, job[e].plan[1] \in Removals,
         NEW now, JobOk(now), now.plan = job[e].plan, now.op = job[e].op, now.ws = job[e].ws,
         NEW f, f.latest = (IF job[e].plan[1] = "rmLatest" THEN Missing ELSE Here(e).latest),
         f.snaps = (IF job[e].plan[1] = "rmSnaps" THEN Missing ELSE Here(e).snaps),
         Store(e, f), Advance(e, now),
         tangled' = tangled, kind' = kind, token' = token, stripped' = stripped, faults' = faults
  PROVE  LibInv'
<1> DEFINE j == job[e]
           d == Here(e)
           o == Onward(now)
<1>1. /\ Shape(now.op, now.plan, kind) /\ JobOk(j)
      /\ ListOk(ReadSnapshots(d.snaps)) /\ (kind # "device" => d.snaps = Missing)
      /\ j.ws \notin tangled => (Calm(j.ws) => Texts(j, d))
      /\ j.op = "deletePrefix" => j.ws \in stripped
  BY AtWork
<1>2. 1 \in 1..Len(j.plan)
  <2>1. Len(j.plan) \in Nat /\ Len(j.plan) >= 1
    BY <1>1, SomePlan DEF JobOk
  <2> QED BY <2>1
<1>3. j.ws \notin stripped => now.op = "delete"
  BY <1>1, <1>2 DEF Shape, Deletions
<1>4. ListOk(ReadSnapshots(f.snaps)) /\ (kind # "device" => f.snaps = Missing)
  BY <1>1, NoneRead
<1>5. now.plan[1] \notin {"number", "latest", "version", "list"}
  BY DEF Removals
<1>6. o.plan # <<>> => Tracks(o, f)
  BY <1>1, <1>5, TracksNothing
<1>7. ASSUME j.ws \notin stripped PROVE Lists(o, f)
  <2>1. CASE o.plan # <<>>
    <3>1. o.op = "delete"
      BY <1>3, <1>7, <2>1, GoesOn
    <3> QED BY <2>1, <3>1 DEF Lists
  <2>2. CASE o.plan = <<>>
    <3>1. f.snaps = Missing
      <4> SUFFICES ASSUME kind = "device" PROVE f.snaps = Missing
        BY <1>4
      <4>1. Len(now.plan) = 1
        BY <2>2, OverAtLast
      <4>2. now.plan[1] = "rmSnaps"
        BY <1>1, <1>3, <1>7, <4>1 DEF Shape
      <4> QED BY <4>2
    <3> QED BY <3>1, NoneRead DEF Lists
  <2> QED BY <2>1, <2>2
<1>8. ASSUME j.ws \notin tangled, Calm(j.ws) PROVE Leaves(o, f)
  <2>1. f.latest = Missing
    BY <1>1, <1>3, <1>8 DEF Texts, Calm
  <2>2. Shown(f)
    BY <2>1 DEF Shown
  <2> QED BY <1>1, <1>5, <2>1, <2>2, LeavesText
<1>9. job[e].plan[1] = "list" => ListOk(now.listed)
  BY <1>5
<1> HIDE DEF o
<1> QED BY <1>4, <1>6, <1>7, <1>8, <1>9, LibAdvances DEF o

LEMMA LibRemovesFiles ==
  ASSUME AssetInv, LibInv, NEW e \in Editors, RemoveLatest(e) \/ RemoveSources(e) \/ RemoveSnapshots(e)
  PROVE  LibInv'
<1> DEFINE j == job[e]
           d == Here(e)
<1>1. /\ Stage(e) \in {"rmLatest", "rmSources", "rmSnaps"} /\ Advance(e, j)
      /\ tangled' = tangled /\ kind' = kind /\ token' = token /\ stripped' = stripped /\ faults' = faults
      /\ \/ Stage(e) = "rmLatest" /\ Store(e, [d EXCEPT !.latest = Missing])
         \/ Stage(e) = "rmSources" /\ Store(e, [d EXCEPT !.sources = FALSE])
         \/ Stage(e) = "rmSnaps" /\ Store(e, [d EXCEPT !.snaps = Missing])
  BY DEF RemoveLatest, RemoveSources, RemoveSnapshots, Step
<1>2. j.plan # <<>> /\ j.plan[1] = Stage(e) /\ JobOk(j) /\ FilesOk(d) /\ Stage(e) \in Removals
  BY <1>1, StageIs DEF Removals
<1>3. ASSUME NEW f, Store(e, f), f.latest = (IF Stage(e) = "rmLatest" THEN Missing ELSE d.latest),
             f.snaps = (IF Stage(e) = "rmSnaps" THEN Missing ELSE d.snaps)
      PROVE  LibInv'
  BY <1>1, <1>2, <1>3, LibRemoves
<1>4. CASE Stage(e) = "rmLatest" /\ Store(e, [d EXCEPT !.latest = Missing])
  <2> DEFINE f == [d EXCEPT !.latest = Missing]
  <2>1. f.latest = Missing /\ f.snaps = d.snaps
    BY <1>2, LatestWritten
  <2> HIDE DEF f
  <2> QED BY <1>3, <1>4, <2>1 DEF f
<1>5. CASE Stage(e) = "rmSources" /\ Store(e, [d EXCEPT !.sources = FALSE])
  <2> DEFINE f == [d EXCEPT !.sources = FALSE]
  <2>1. f.latest = d.latest /\ f.snaps = d.snaps
    BY <1>2, OtherFile
  <2> HIDE DEF f
  <2> QED BY <1>3, <1>5, <2>1 DEF f
<1>6. CASE Stage(e) = "rmSnaps" /\ Store(e, [d EXCEPT !.snaps = Missing])
  <2> DEFINE f == [d EXCEPT !.snaps = Missing]
  <2>1. f.latest = d.latest /\ f.snaps = Missing
    BY <1>2, OtherFile
  <2> HIDE DEF f
  <2> QED BY <1>3, <1>6, <2>1 DEF f
<1> QED BY <1>1, <1>4, <1>5, <1>6

LEMMA LibOpens ==
  ASSUME AssetInv, LibInv, NEW e \in Editors, OpenVersions(e)
  PROVE  LibInv'
<1> DEFINE j == job[e]
           d == Here(e)
           now == [j EXCEPT !.listed = SeqExt!SetToSeq(DOMAIN Here(e).versions)]
<1>1. /\ Stage(e) = "dir" /\ Advance(e, now) /\ disk' = disk
      /\ tangled' = tangled /\ kind' = kind /\ token' = token /\ stripped' = stripped /\ faults' = faults
  BY DEF OpenVersions, Step
<1>2. j.plan # <<>> /\ j.plan[1] = "dir" /\ JobOk(j) /\ j.ws \in Workspaces /\ "dir" \in Removals
  BY <1>1, StageIs DEF Removals
<1>3. JobOk(now) /\ now.op = j.op /\ now.plan = j.plan /\ now.ws = j.ws
  BY <1>2, JobChanged, ZenonT(90)
<1>4. Store(e, d)
  BY <1>1, <1>2, SameFiles
<1> HIDE DEF now
<1> QED BY <1>1, <1>2, <1>3, <1>4, LibRemoves

LEMMA LibRemovesVersions ==
  ASSUME AssetInv, LibInv, NEW e \in Editors, RemoveVersions(e)
  PROVE  LibInv'
<1> DEFINE j == job[e]
           d == Here(e)
<1>1. /\ Stage(e) = "rmVersions"
      /\ tangled' = tangled /\ kind' = kind /\ token' = token /\ stripped' = stripped /\ faults' = faults
  BY DEF RemoveVersions, Step
<1>2. /\ j.plan # <<>> /\ j.plan[1] = "rmVersions" /\ JobOk(j) /\ j.ws \in Workspaces /\ FilesOk(d)
      /\ "rmVersions" \in Removals
  BY <1>1, StageIs DEF Removals
<1>3. CASE j.listed = <<>>
  <2>1. Advance(e, j) /\ Store(e, d)
    BY <1>2, <1>3, SameFiles DEF RemoveVersions
  <2> QED BY <1>1, <1>2, <2>1, LibRemoves
<1>4. CASE j.listed # <<>>
  <2>1. PICK x, n : /\ job' = [job EXCEPT ![e].listed = x]
                    /\ Store(e, [d EXCEPT !.versions = [u \in DOMAIN @ \ {n} |-> @[u]]])
    BY <1>4 DEF RemoveVersions
  <2> DEFINE k == [j EXCEPT !.listed = x]
             f == [d EXCEPT !.versions = [u \in DOMAIN @ \ {n} |-> @[u]]]
  <2>2. job' = [job EXCEPT ![e] = k] /\ disk' = [disk EXCEPT ![j.ws] = f]
    BY <2>1 DEF Store
  <2>3. f.latest = d.latest /\ f.snaps = d.snaps
    <3>1. d = [latest |-> d.latest, versions |-> d.versions, snaps |-> d.snaps, sources |-> d.sources]
      BY <1>2 DEF FilesOk
    <3> QED BY <3>1
  <2>4. k.op = j.op /\ k.plan = j.plan /\ k.ws = j.ws
    BY <1>2, JobChanged, ZenonT(90)
  <2>5. /\ Shape(j.op, j.plan, kind) /\ faults \in Nat
        /\ ListOk(ReadSnapshots(d.snaps)) /\ (kind # "device" => d.snaps = Missing)
        /\ j.ws \notin tangled => (Calm(j.ws) => Texts(j, d))
        /\ j.op = "deletePrefix" => j.ws \in stripped
    BY <1>2, AtWork
  <2>6. 1 \in 1..Len(j.plan)
    <3>1. Len(j.plan) \in Nat /\ Len(j.plan) >= 1
      BY <1>2, SomePlan DEF JobOk
    <3> QED BY <3>1
  <2>7. j.ws \notin stripped => j.op = "delete"
    BY <1>2, <2>5, <2>6 DEF Shape, Deletions
  <2> HIDE DEF k, f
  <2>8. ~Numbered(k.plan) /\ ~Noting(k.plan) /\ ~Reading(k)
    BY <1>2, <2>4 DEF Numbered, Noting, Reading
  <2>9. Tracks(k, f) /\ (j.ws \notin stripped => Lists(k, f))
    BY <1>2, <2>4, <2>7, <2>8 DEF Tracks, Lists
  <2>10. ASSUME j.ws \notin tangled, Calm(j.ws) PROVE Leaves(k, f)
    <3>1. d.latest = Missing
      BY <1>2, <2>5, <2>7, <2>10 DEF Texts, Calm
    <3> QED BY <1>2, <2>3, <2>4, <2>7, <2>10, <3>1 DEF Leaves, Texts, Calm
  <2>11. faults' = 0 /\ j.ws \notin stripped' => Calm(j.ws)
    BY <1>1 DEF Calm
  <2> QED BY <1>1, <1>2, <2>2, <2>3, <2>4, <2>5, <2>8, <2>9, <2>10, <2>11, LibMoves
<1> QED BY <1>3, <1>4

\* A stage fails: the file it was to write is as it was, or spoilt.
LEMMA LibFails ==
  ASSUME AssetInv, LibInv, NEW e \in Editors, FailStage(e)
  PROVE  LibInv'
<1> DEFINE j == job[e]
           d == Here(e)
<1>1. /\ j.plan # <<>> /\ job' = [job EXCEPT ![e] = Idle] /\ tangled' = tangled /\ kind' = kind /\ token' = token
      /\ faults' = faults + 1 /\ stripped' = (IF j.op = "delete" THEN stripped \cup {j.ws} ELSE stripped)
      /\ Store(e, d) \/ Store(e, Spoiled(e))
  BY DEF FailStage
<1>2. /\ JobOk(j) /\ FilesOk(d) /\ j.ws \in Workspaces /\ faults \in Nat
      /\ Shape(j.op, j.plan, kind)
      /\ ListOk(ReadSnapshots(d.snaps)) /\ (kind # "device" => d.snaps = Missing)
      /\ j.ws \notin tangled => (j.ws \notin stripped => Lists(j, d))
  BY <1>1, AtWork
<1>3. j.plan[1] = Stage(e) /\ 1 \in 1..Len(j.plan)
  <2>1. Len(j.plan) \in Nat /\ Len(j.plan) >= 1 /\ Head(j.plan) = j.plan[1]
    BY <1>1, <1>2, SomePlan DEF JobOk
  <2> QED BY <1>1, <2>1 DEF Stage
<1>4. /\ Stage(e) = "latest" => Spoiled(e) = [d EXCEPT !.latest = Spoilt]
      /\ Stage(e) = "version" => Spoiled(e) = [d EXCEPT !.versions = With(@, j.version, Spoilt)]
      /\ Stage(e) \in {"append", "drop"} => Spoiled(e) = [d EXCEPT !.snaps = Spoilt]
      /\ Stage(e) \notin {"latest", "version", "append", "drop"} => Spoiled(e) = d
  BY DEF Spoiled
<1>5. faults' \in Nat /\ faults' # 0 /\ stripped \subseteq stripped'
  BY <1>1, <1>2
<1>6. Shape(Idle.op, Idle.plan, kind) /\ Idle.plan = <<>> /\ ~Reading(Idle)
  BY IdleHasShape DEF Reading
<1>7. ASSUME j.ws \notin tangled, j.ws \notin stripped' PROVE Tidy(d)
  BY <1>1, <1>2, <1>7 DEF Lists
<1>8. ASSUME NEW f, Store(e, f), ListOk(ReadSnapshots(f.snaps)), kind # "device" => f.snaps = Missing,
             Tidy(d) => Tidy(f)
      PROVE  LibInv'
  <2>1. disk' = [disk EXCEPT ![j.ws] = f]
    BY <1>8 DEF Store
  <2>2. ASSUME j.ws \notin tangled, j.ws \notin stripped' PROVE Lists(Idle, f)
    BY <1>7, <1>8, <2>2 DEF Lists
  <2> QED BY <1>1, <1>5, <1>6, <1>8, <2>1, <2>2, LibMoves
<1>9. CASE Store(e, d)
  BY <1>2, <1>8, <1>9
<1>10. CASE Store(e, Spoiled(e)) /\ Stage(e) = "latest"
  <2> DEFINE f == [d EXCEPT !.latest = Spoilt]
  <2>1. f.versions = d.versions /\ f.snaps = d.snaps
    BY <1>2, LatestWritten
  <2>2. Store(e, f)
    BY <1>4, <1>10
  <2> HIDE DEF f
  <2>3. Tidy(d) => Tidy(f)
    BY <2>1 DEF Tidy
  <2> QED BY <1>2, <1>8, <2>1, <2>2, <2>3
<1>11. CASE Store(e, Spoiled(e)) /\ Stage(e) = "version"
  <2> DEFINE f == [d EXCEPT !.versions = With(@, j.version, Spoilt)]
  <2>1. f.snaps = d.snaps /\ DOMAIN f.versions = DOMAIN d.versions \cup {j.version}
    <3>1. Put(f, d, j.version, Spoilt) /\ j.version \in Nat
      BY <1>2 DEF Put, JobOk
    <3> HIDE DEF f, d, j
    <3> QED BY <1>2, <3>1, VersionPut
  <2>2. Store(e, f)
    BY <1>4, <1>11
  <2> HIDE DEF f
  <2>3. Tidy(d) => Tidy(f)
    BY <2>1, TidyWithMore
  <2> QED BY <1>2, <1>8, <2>1, <2>2, <2>3
<1>12. CASE Store(e, Spoiled(e)) /\ Stage(e) \in {"append", "drop"}
  <2> DEFINE f == [d EXCEPT !.snaps = Spoilt]
  <2>1. f.snaps = Spoilt
    BY <1>2, OtherFile
  <2>2. Store(e, f)
    BY <1>4, <1>12
  <2>3. kind = "device"
    BY <1>2, <1>3, <1>12 DEF Shape
  <2> HIDE DEF f
  <2> QED BY <1>8, <2>1, <2>2, <2>3, NoneRead
<1> QED BY <1>1, <1>4, <1>9, <1>10, <1>11, <1>12

(***************************************************************************)
(* A command begins.                                                       *)
(***************************************************************************)
LEMMA DeletionOpens ==
  ASSUME NEW k PROVE DeletePlan(k)[1] = "rmLatest"
<1> DEFINE S == Removals
           a == <<"rmLatest", "dir", "rmVersions">>
           b == IF k = "connection" THEN <<>> ELSE <<"rmSources">>
           c == IF k = "device" THEN <<"rmSnaps">> ELSE <<>>
           ab == Cat(a, b)
           p == Cat(ab, c)
<1>1. /\ a \in Seq(S) /\ <<>> \in Seq(S) /\ <<"rmSources">> \in Seq(S) /\ <<"rmSnaps">> \in Seq(S)
  BY DEF Removals
<1>2. DeletePlan(k) = p
  BY DEF DeletePlan, Cat
<1>3. Len(a) = 3 /\ At(a, 1) = "rmLatest" /\ 1 \in 1..3
  BY DEF At
<1> HIDE DEF a
<1>4. b \in Seq(S) /\ c \in Seq(S)
  BY <1>1, Zenon
<1> HIDE DEF b, c
<1>5. ab \in Seq(S) /\ Len(ab) = Len(a) + Len(b) /\ At(ab, 1) = At(a, 1)
  BY <1>1, <1>3, <1>4, Joined, JoinedFirst, Zenon
<1> HIDE DEF ab
<1>6. 1 \in 1..Len(ab)
  <2>1. Len(b) \in Nat
    BY <1>4
  <2> DEFINE n == Len(ab)
             m == Len(b)
  <2>2. n = 3 + m /\ m \in Nat
    BY <1>3, <1>5, <2>1
  <2> HIDE DEF n, m
  <2>3. 1 \in 1..n
    BY <2>2
  <2> QED BY <2>3 DEF n
<1>7. At(p, 1) = At(ab, 1)
  BY <1>4, <1>5, <1>6, JoinedFirst, Zenon
<1> QED BY <1>2, <1>3, <1>5, <1>7 DEF At

\* What a plan begins with.
LEMMA PlanOpens ==
  ASSUME kind \in {"device", "capability", "connection"}, NEW op
  PROVE  /\ ~Noting(Plan(op)) /\ Plan(op)[1] \notin {"append", "drop"}
         /\ op = "delete" => Plan(op)[1] = "rmLatest"
<1>1. SaveCapability[1] = "number" /\ SaveDevice[1] = "number"
  BY SavesInOrder
<1>2. RollbackPlan[1] = "number"
  <2>1. 1 \in 1..11 /\ RollbackStages[1] = "number"
    BY DEF RollbackStages
  <2> QED BY <2>1, RollsBackInOrder
<1>3. BindPlan[1] = "latest" /\ SourcesPlan[1] = "sources" /\ DeletePrefixPlan[1] = "dir"
  BY DEF BindPlan, SourcesPlan, DeletePrefixPlan
<1>4. DropPlan[1] = "list" /\ DropPlan[2] = "drop"
  BY DEF DropPlan
<1>5. /\ SaveConnection = SaveCapability /\ SnapshotPlan = SaveDevice /\ SaveEdit = SaveDevice
  BY DEF SaveConnection, SaveCapability, SnapshotPlan, SaveEdit
<1>6. DeletePlan(kind)[1] = "rmLatest"
  BY DeletionOpens
<1>7. Plan(op) \in {SaveDevice, SaveCapability, RollbackPlan, BindPlan, SourcesPlan, DropPlan, DeletePlan(kind),
                    DeletePrefixPlan}
  <2>1. CASE op = "save"
    <3>1. Plan(op) \in {SaveDevice, SaveCapability, SaveConnection}
      BY <2>1 DEF Plan
    <3> QED BY <1>5, <3>1
  <2>2. CASE op # "save"
    <3>1. Plan(op) \in {DeletePlan(kind), DeletePrefixPlan, BindPlan, SnapshotPlan, RollbackPlan, DropPlan,
                        SourcesPlan, SaveEdit}
      BY <2>2 DEF Plan
    <3> QED BY <1>5, <3>1
  <2> QED BY <2>1, <2>2
<1>8. op = "delete" => Plan(op) = DeletePlan(kind)
  BY DEF Plan
<1>9. Plan(op)[1] \in {"number", "latest", "sources", "list", "rmLatest", "dir"}
  BY <1>1, <1>2, <1>3, <1>4, <1>6, <1>7
<1>10. Plan(op)[1] = "list" => Plan(op)[2] = "drop"
  BY <1>1, <1>2, <1>3, <1>4, <1>6, <1>7
<1> QED BY <1>6, <1>8, <1>9, <1>10 DEF Noting

\* A binding changes nothing of the text but the binding.
LEMMA BindingKeepsText ==
  ASSUME NEW latest, NEW call, call.op = "bind", Changed(latest, call) # Rejected
  PROVE  latest # Missing /\ SameText(Changed(latest, call), latest)
<1>1. Changed(latest, call) = LoadSpec(latest, call)
  BY DEF Changed
<1>2. latest \notin {Missing, Spoilt} /\ Changed(latest, call) = Edited(latest, call)
  BY <1>1 DEF LoadSpec
<1>3. Edited(latest, call) = Bound(latest, call.item, call.index)
  BY DEF Edited
<1>4. PICK x : Edited(latest, call) = [latest EXCEPT !.link = x]
  BY <1>3 DEF Bound
<1>5. [[latest EXCEPT !.link = x] EXCEPT !.link = NoLink] = [latest EXCEPT !.link = NoLink]
  OBVIOUS
<1> QED BY <1>2, <1>4, <1>5 DEF SameText

LEMMA StartedIs ==
  ASSUME NEW e, NEW call, NEW w
  PROVE  LET j == Started(e, call, w)
         IN  /\ j.op = call.op /\ j.plan = Plan(call.op) /\ j.ws = w
             /\ j.text = Changed(disk[w].latest, call) /\ j.listed = <<>>
<1> DEFINE p == Plan(call.op)
           text == Changed(disk[w].latest, call)
           j == Started(e, call, w)
<1>1. j = [Idle EXCEPT !.op = call.op, !.plan = p, !.ws = w, !.text = text, !.target = call.index]
  BY DEF Started
<1> HIDE DEF p, text, j
<1>2. j = [op |-> call.op, plan |-> p, ws |-> w, text |-> text, version |-> 0, target |-> call.index,
           listed |-> <<>>]
  BY <1>1 DEF Idle
<1>3. /\ j.op = call.op /\ j.plan = p /\ j.ws = w
      /\ j.text = text /\ j.listed = <<>>
  BY <1>2
<1> QED BY <1>3 DEF p, text, j

\* A command begins where nobody is at work, or the files are tangled from now on.
LEMMA LibBegins ==
  ASSUME AssetInv, LibInv, NEW e \in Editors, NEW call, NEW w \in Workspaces, Offered(call.op, kind),
         BeginCommand(e, call, w), TokensOk'
  PROVE  LibInv'
<1> DEFINE j == Started(e, call, w)
           d == disk[w]
<1>1. /\ job[e].plan = <<>> /\ Changed(disk[w].latest, call) # Rejected /\ job' = [job EXCEPT ![e] = j]
      /\ disk' = disk /\ kind' = kind /\ faults' = faults
      /\ stripped' = IF call.op = "deletePrefix" THEN stripped \cup {w} ELSE stripped
      /\ tangled' = IF Busy(w) = {} THEN tangled ELSE tangled \cup {w}
  BY DEF BeginCommand
<1>2. /\ j.op = call.op /\ j.plan = Plan(call.op) /\ j.ws = w
      /\ j.text = Changed(disk[w].latest, call) /\ j.listed = <<>>
  BY StartedIs
<1>3. kind \in {"device", "capability", "connection"}
  BY DEF AssetInv
<1>4. /\ Shape(j.op, j.plan, kind) /\ ~Reading(j) /\ ~Noting(j.plan) /\ ~Numbered(j.plan) /\ j.plan # <<>>
      /\ j.op = "delete" => j.plan[1] = "rmLatest"
  BY <1>2, <1>3, PlanHasShape, PlanOpens, PlansInOrder DEF Reading, PlanOk
<1>5. j.plan[1] # "version"
  BY <1>2, <1>3, <1>4, PlansInOrder, SomePlan DEF PlanOk, Numbered
<1>6. j.op = "bind" => d.latest # Missing /\ SameText(j.text, d.latest)
  BY <1>1, <1>2, BindingKeepsText
<1>7. \A x \in Editors : job'[x] = IF x = e THEN j ELSE job[x]
  BY <1>1 DEF AssetInv
<1> HIDE DEF j
<1>8. Tracks(j, d)
  BY <1>4 DEF Tracks
<1>9. Shown(d) => Texts(j, d)
  BY <1>4, <1>5, <1>6 DEF Texts
<1>10. \A x \in Workspaces : x \notin tangled' => x \notin tangled
  BY <1>1
<1>11. \A x \in Editors : job[x].plan # <<>> => x # e /\ job[x].ws \in Workspaces
  BY <1>1 DEF AssetInv, JobOk
<1>12. \A x \in Editors : Shape(job'[x].op, job'[x].plan, kind') /\ (Reading(job'[x]) => ListOk(job'[x].listed))
  BY <1>1, <1>4, <1>7 DEF LibInv
<1>13. \A x \in Workspaces :
         ListOk(ReadSnapshots(disk'[x].snaps)) /\ (kind' # "device" => disk'[x].snaps = Missing)
  BY <1>1 DEF LibInv
<1>14. ASSUME NEW x \in Editors, job'[x].plan # <<>>, job'[x].ws \notin tangled'
       PROVE  Tracks(job'[x], disk'[job'[x].ws])
  <2>1. CASE x = e
    BY <1>1, <1>2, <1>7, <1>8, <2>1
  <2>2. CASE x # e
    BY <1>1, <1>7, <1>10, <1>11, <1>14, <2>2 DEF LibInv
  <2> QED BY <2>1, <2>2
<1>15. ASSUME NEW x \in Workspaces, x \notin tangled', x \notin stripped', x \notin Deleting'
       PROVE  Tidy(disk'[x])
  <2>1. x \notin Deleting
    <3> SUFFICES ASSUME NEW y \in Editors, job[y].plan # <<>>, job[y].ws = x, job[y].op = "delete" PROVE FALSE
      BY DEF Deleting, Busy
    <3>1. job'[y] = job[y]
      BY <1>7, <1>11
    <3> QED BY <1>15, <3>1 DEF Deleting, Busy
  <2> QED BY <1>1, <1>10, <1>15, <2>1 DEF LibInv
<1>16. ASSUME faults' = 0, NEW x \in Workspaces, x \notin tangled', x \notin stripped', Busy(x)' = {}
       PROVE  Shown(disk'[x])
  <2>1. Busy(x) = {}
    <3> SUFFICES ASSUME NEW y \in Editors, job[y].plan # <<>>, job[y].ws = x PROVE FALSE
      BY DEF Busy
    <3>1. job'[y] = job[y]
      BY <1>7, <1>11
    <3> QED BY <1>16, <3>1 DEF Busy
  <2> QED BY <1>1, <1>10, <1>16, <2>1 DEF LibInv, Calm
<1>17. ASSUME faults' = 0, NEW x \in Editors, job'[x].plan # <<>>, job'[x].ws \notin tangled',
              job'[x].ws \notin stripped'
       PROVE  Texts(job'[x], disk'[job'[x].ws])
  <2>1. CASE x = e
    <3>1. w \notin tangled /\ Busy(w) = {}
      BY <1>1, <1>2, <1>7, <1>17, <2>1
    <3>2. Shown(d)
      BY <1>1, <1>2, <1>7, <1>17, <2>1, <3>1 DEF LibInv, Calm
    <3> QED BY <1>1, <1>2, <1>7, <1>9, <2>1, <3>2
  <2>2. CASE x # e
    BY <1>1, <1>7, <1>10, <1>11, <1>17, <2>2 DEF LibInv, Calm
  <2> QED BY <2>1, <2>2
<1>18. faults' \in Nat
  BY <1>1 DEF LibInv
<1>19. \A x \in Editors : job'[x].plan # <<>> /\ job'[x].op = "deletePrefix" => job'[x].ws \in stripped'
  BY <1>1, <1>2, <1>7 DEF LibInv
<1>20. /\ \A x \in Editors :
            job'[x].plan # <<>> /\ job'[x].ws \notin tangled' /\ Calm(job[x].ws)' => Texts(job'[x], disk'[job'[x].ws])
       /\ \A x \in Workspaces \ tangled' : Calm(x)' /\ Busy(x)' = {} => Shown(disk'[x])
  BY <1>16, <1>17 DEF Calm
<1> QED BY <1>12, <1>13, <1>14, <1>15, <1>18, <1>19, <1>20 DEF LibInv

\* What becomes of a token that is confirmed, cancelled, or forgotten.
LEMMA TokenForgotten ==
  ASSUME NEW t, TokenOk(t)
  PROVE  LET u == [t EXCEPT !.status = IF @ = "held" THEN "gone" ELSE @]
         IN  TokenOk(u) /\ u.status # "held"
<1> DEFINE u == [t EXCEPT !.status = IF @ = "held" THEN "gone" ELSE @]
           s == IF t.status = "held" THEN "gone" ELSE t.status
<1>1. t = [status |-> t.status, call |-> t.call, ws |-> t.ws, age |-> t.age, ran |-> t.ran,
           cancelled |-> t.cancelled]
  BY DEF TokenOk
<1>2. u = [status |-> s, call |-> t.call, ws |-> t.ws, age |-> t.age, ran |-> t.ran, cancelled |-> t.cancelled]
  BY <1>1
<1>3. s # "held" /\ (s = "new" => t.status = "new")
  OBVIOUS
<1> HIDE DEF u, s
<1>4. /\ u.status = s /\ u.call = t.call /\ u.ws = t.ws /\ u.age = t.age /\ u.ran = t.ran
      /\ u.cancelled = t.cancelled
  BY <1>2
<1>5. /\ t.status = "new" => t.ran = <<>> /\ ~t.cancelled
      /\ Len(t.ran) <= 1 /\ (t.ran # <<>> => ~t.cancelled /\ t.age <= Lifetime)
  BY DEF TokenOk
<1>6. TokenOk(u)
  BY <1>2, <1>3, <1>4, <1>5, Zenon DEF TokenOk
<1> QED BY <1>3, <1>4, <1>6 DEF u

\* Two fields of a token change.
LEMMA FieldsSet ==
  ASSUME NEW t, NEW s, NEW c, 
         t = [status |-> t.status, call |-> t.call, ws |-> t.ws, age |-> t.age, ran |-> t.ran, cancelled |-> t.cancelled]
  PROVE  [[t EXCEPT !.status = s] EXCEPT !.cancelled = c]
           = [status |-> s, call |-> t.call, ws |-> t.ws, age |-> t.age, ran |-> t.ran, cancelled |-> c]
<1> DEFINE u == [t EXCEPT !.status = s]
<1>1. u = [status |-> s, call |-> t.call, ws |-> t.ws, age |-> t.age, ran |-> t.ran, cancelled |-> t.cancelled]
  OBVIOUS
<1> HIDE DEF u
<1>2. [u EXCEPT !.cancelled = c] = [status |-> s, call |-> t.call, ws |-> t.ws, age |-> t.age, ran |-> t.ran, cancelled |-> c]
  BY <1>1
<1> QED BY <1>2 DEF u

LEMMA WriteNoted ==
  ASSUME NEW t, NEW s, NEW w, 
         t = [status |-> t.status, call |-> t.call, ws |-> t.ws, age |-> t.age, ran |-> t.ran, cancelled |-> t.cancelled]
  PROVE  [[t EXCEPT !.status = s] EXCEPT !.ran = Append(@, w)]
           = [status |-> s, call |-> t.call, ws |-> t.ws, age |-> t.age, ran |-> Append(t.ran, w), cancelled |-> t.cancelled]
<1> DEFINE u == [t EXCEPT !.status = s]
<1>1. u = [status |-> s, call |-> t.call, ws |-> t.ws, age |-> t.age, ran |-> t.ran, cancelled |-> t.cancelled]
  OBVIOUS
<1> HIDE DEF u
<1>2. u.ran = t.ran
  BY <1>1
<1>3. [u EXCEPT !.ran = Append(u.ran, w)] = [status |-> s, call |-> t.call, ws |-> t.ws, age |-> t.age, ran |-> Append(t.ran, w), cancelled |-> t.cancelled]
  BY <1>1, <1>2, SMTT(60)
<1> QED BY <1>3 DEF u

Spent(t) == TokenOk(t) /\ t.status = "gone"
LEMMA TokenTaken ==
  ASSUME NEW t, TokenOk(t), t.status = "held"
  PROVE  /\ Spent([t EXCEPT !.status = "gone"])
         /\ Spent([[t EXCEPT !.status = "gone"] EXCEPT !.cancelled = TRUE])
         /\ \A w : t.age <= Lifetime => Spent([[t EXCEPT !.status = "gone"] EXCEPT !.ran = Append(@, w)])
<1>1. t = [status |-> t.status, call |-> t.call, ws |-> t.ws, age |-> t.age, ran |-> t.ran,
           cancelled |-> t.cancelled]
  BY DEF TokenOk
<1>2. t.ran = <<>> /\ ~t.cancelled
  BY DEF TokenOk
<1>3. ASSUME NEW u, NEW r, NEW c,
             u = [status |-> "gone", call |-> t.call, ws |-> t.ws, age |-> t.age, ran |-> r, cancelled |-> c],
             Len(r) <= 1, r # <<>> => ~c /\ t.age <= Lifetime
      PROVE  Spent(u)
  <2>1. u.status = "gone" /\ u.call = t.call /\ u.ws = t.ws /\ u.age = t.age /\ u.ran = r /\ u.cancelled = c
    BY <1>3
  <2> QED BY <1>3, <2>1, Zenon DEF TokenOk, Spent
<1>4. Len(<<>>) <= 1
  OBVIOUS
<1>5. Spent([t EXCEPT !.status = "gone"])
  <2> DEFINE u == [t EXCEPT !.status = "gone"]
  <2>1. u = [status |-> "gone", call |-> t.call, ws |-> t.ws, age |-> t.age, ran |-> t.ran,
             cancelled |-> t.cancelled]
    BY <1>1
  <2> HIDE DEF u
  <2> QED BY <1>2, <1>3, <1>4, <2>1 DEF u
<1>6. Spent([[t EXCEPT !.status = "gone"] EXCEPT !.cancelled = TRUE])
  <2> DEFINE u == [[t EXCEPT !.status = "gone"] EXCEPT !.cancelled = TRUE]
  <2>1. u = [status |-> "gone", call |-> t.call, ws |-> t.ws, age |-> t.age, ran |-> t.ran, cancelled |-> TRUE]
    BY <1>1, FieldsSet
  <2> HIDE DEF u
  <2> QED BY <1>2, <1>3, <1>4, <2>1 DEF u
<1>7. ASSUME NEW w, t.age <= Lifetime
      PROVE  Spent([[t EXCEPT !.status = "gone"] EXCEPT !.ran = Append(@, w)])
  <2> DEFINE r == Append(t.ran, w)
             u == [[t EXCEPT !.status = "gone"] EXCEPT !.ran = Append(@, w)]
  <2>1. u = [status |-> "gone", call |-> t.call, ws |-> t.ws, age |-> t.age, ran |-> r,
             cancelled |-> t.cancelled]
    BY <1>1, WriteNoted, ZenonT(90)
  <2>2. Len(r) = 1
    BY <1>2
  <2> HIDE DEF u, r
  <2>3. Len(r) <= 1
    BY <2>2
  <2> QED BY <1>2, <1>3, <1>7, <2>1, <2>3 DEF u
<1> QED BY <1>5, <1>6, <1>7

LEMMA TokenChanged ==
  ASSUME TokensOk, kind' = kind, NEW t \in Tokens, NEW u, token' = [token EXCEPT ![t] = u], TokenOk(u),
         u.status = "held" => u.call \in Writes
  PROVE  TokensOk'
<1>1. \A x \in Tokens : token'[x] = IF x = t THEN u ELSE token[x]
  BY DEF TokensOk
<1>2. token' = [x \in Tokens |-> token'[x]]
  BY DEF TokensOk
<1>3. Writes' = Writes
  BY WritesOfTheKind
<1> QED BY <1>1, <1>2, <1>3 DEF TokensOk

\* The shell restarts: nobody is at work, and nothing is known of the latest texts.
LEMMA LibRestarts ==
  ASSUME AssetInv, LibInv, Restart
  PROVE  LibInv'
<1>1. /\ disk' = disk /\ tangled' = tangled /\ kind' = kind /\ faults' = faults + 1
      /\ stripped' = stripped \cup Deleting /\ job' = [x \in Editors |-> Idle]
      /\ token' = [t \in Tokens |-> [token[t] EXCEPT !.status = IF @ = "held" THEN "gone" ELSE @]]
  BY DEF Restart
<1>2. \A x \in Editors : job'[x] = Idle
  BY <1>1
<1>3. Shape(Idle.op, Idle.plan, kind) /\ Idle.plan = <<>> /\ ~Reading(Idle)
  BY IdleHasShape DEF Reading
<1>4. faults' \in Nat /\ faults' # 0
  BY <1>1 DEF LibInv
<1>5. ASSUME NEW x \in Workspaces, x \notin tangled', x \notin stripped'
      PROVE  Tidy(disk'[x])
  BY <1>1, <1>5 DEF LibInv
<1>6. TokensOk'
  <2>1. \A t \in Tokens : TokenOk(token'[t]) /\ token'[t].status # "held"
    BY <1>1, TokenForgotten DEF LibInv, TokensOk
  <2>2. token' = [t \in Tokens |-> token'[t]]
    BY <1>1
  <2> QED BY <2>1, <2>2 DEF TokensOk
<1> QED BY <1>1, <1>2, <1>3, <1>4, <1>5, <1>6 DEF LibInv, Calm

(***************************************************************************)
(* The tokens of the copilot.                                              *)
(***************************************************************************)
\* Several fields of one entry change.
LEMMA EntryCancelled ==
  ASSUME NEW T, NEW f, f = [x \in T |-> f[x]], NEW t \in T, NEW s, NEW c
  PROVE  [f EXCEPT ![t].status = s, ![t].cancelled = c]
           = [f EXCEPT ![t] = [[f[t] EXCEPT !.status = s] EXCEPT !.cancelled = c]]
<1> DEFINE v == [f[t] EXCEPT !.status = s]
           g == [f EXCEPT ![t].status = s]
<1>1. g = [x \in T |-> IF x = t THEN v ELSE f[x]]
  OBVIOUS
<1> HIDE DEF v
<1>2. g[t] = v /\ DOMAIN g = T
  BY <1>1
<1> HIDE DEF g
<1> DEFINE h == [g EXCEPT ![t].cancelled = c]
           z == [v EXCEPT !.cancelled = c]
<1>3. h = [x \in T |-> IF x = t THEN z ELSE g[x]]
  BY <1>2
<1> HIDE DEF z, h
<1>4. [f EXCEPT ![t] = z] = [x \in T |-> IF x = t THEN z ELSE f[x]]
  OBVIOUS
<1>5. h = [f EXCEPT ![t] = z]
  BY <1>1, <1>3, <1>4
<1> QED BY <1>5 DEF h, z, g, v

LEMMA EntryAsked ==
  ASSUME NEW T, NEW f, f = [x \in T |-> f[x]], NEW t \in T, NEW s, NEW c, NEW w
  PROVE  [f EXCEPT ![t].status = s, ![t].call = c, ![t].ws = w]
           = [f EXCEPT ![t] = [[[f[t] EXCEPT !.status = s] EXCEPT !.call = c] EXCEPT !.ws = w]]
<1> DEFINE v == [f[t] EXCEPT !.status = s]
           g == [f EXCEPT ![t].status = s]
<1>1. g = [x \in T |-> IF x = t THEN v ELSE f[x]]
  OBVIOUS
<1> HIDE DEF v
<1>2. g[t] = v /\ DOMAIN g = T
  BY <1>1
<1> HIDE DEF g
<1> DEFINE h == [g EXCEPT ![t].call = c]
           z == [v EXCEPT !.call = c]
<1>3. h = [x \in T |-> IF x = t THEN z ELSE g[x]]
  BY <1>2
<1> HIDE DEF z
<1>4. h[t] = z /\ DOMAIN h = T
  BY <1>3
<1> HIDE DEF h
<1> DEFINE k == [h EXCEPT ![t].ws = w]
           y == [z EXCEPT !.ws = w]
<1>5. k = [x \in T |-> IF x = t THEN y ELSE h[x]]
  BY <1>4
<1> HIDE DEF y, k
<1>6. [f EXCEPT ![t] = y] = [x \in T |-> IF x = t THEN y ELSE f[x]]
  OBVIOUS
<1>7. k = [f EXCEPT ![t] = y]
  BY <1>1, <1>3, <1>5, <1>6
<1> QED BY <1>7 DEF k, h, z, g, v, y

LEMMA AskedIsOk ==
  ASSUME NEW t, TokenOk(t), t.status = "new", NEW c, NEW w
  PROVE  LET u == [[[t EXCEPT !.status = "held"] EXCEPT !.call = c] EXCEPT !.ws = w]
         IN  TokenOk(u) /\ u.call = c
<1> DEFINE a == [t EXCEPT !.status = "held"]
           b == [a EXCEPT !.call = c]
           u == [b EXCEPT !.ws = w]
<1>1. t = [status |-> t.status, call |-> t.call, ws |-> t.ws, age |-> t.age, ran |-> t.ran,
           cancelled |-> t.cancelled]
  BY DEF TokenOk
<1>2. a = [status |-> "held", call |-> t.call, ws |-> t.ws, age |-> t.age, ran |-> t.ran,
           cancelled |-> t.cancelled]
  BY <1>1
<1> HIDE DEF a
<1>3. b = [status |-> "held", call |-> c, ws |-> t.ws, age |-> t.age, ran |-> t.ran, cancelled |-> t.cancelled]
  BY <1>2
<1> HIDE DEF b
<1>4. u = [status |-> "held", call |-> c, ws |-> w, age |-> t.age, ran |-> t.ran, cancelled |-> t.cancelled]
  BY <1>3
<1> HIDE DEF u
<1>5. /\ u.status = "held" /\ u.call = c /\ u.ws = w /\ u.age = t.age /\ u.ran = t.ran
      /\ u.cancelled = t.cancelled
  BY <1>4
<1>6. t.ran = <<>> /\ ~t.cancelled /\ Len(t.ran) <= 1
  BY DEF TokenOk
<1>7. TokenOk(u)
  BY <1>4, <1>5, <1>6, Zenon DEF TokenOk
<1> QED BY <1>5, <1>7 DEF u, b, a

LEMMA AgedIsOk ==
  ASSUME NEW t, TokenOk(t), t.status = "held"
  PROVE  LET u == [t EXCEPT !.age = @ + 1]
         IN  TokenOk(u) /\ u.call = t.call
<1> DEFINE n == t.age + 1
           u == [t EXCEPT !.age = @ + 1]
<1>1. t = [status |-> t.status, call |-> t.call, ws |-> t.ws, age |-> t.age, ran |-> t.ran,
           cancelled |-> t.cancelled]
  BY DEF TokenOk
<1>2. u = [status |-> t.status, call |-> t.call, ws |-> t.ws, age |-> n, ran |-> t.ran, cancelled |-> t.cancelled]
  BY <1>1
<1> HIDE DEF u, n
<1>3. /\ u.status = t.status /\ u.call = t.call /\ u.ws = t.ws /\ u.age = n /\ u.ran = t.ran
      /\ u.cancelled = t.cancelled
  BY <1>2
<1>4. t.ran = <<>> /\ ~t.cancelled /\ Len(t.ran) <= 1
  BY DEF TokenOk
<1>5. TokenOk(u)
  BY <1>2, <1>3, <1>4, Zenon DEF TokenOk
<1> QED BY <1>3, <1>5 DEF u

LEMMA Asks ==
  ASSUME TokensOk, NEW t \in Tokens, NEW call \in Writes, Ask(t, call)
  PROVE  TokensOk'
<1> DEFINE u == [[[token[t] EXCEPT !.status = "held"] EXCEPT !.call = call] EXCEPT !.ws = Project]
<1>1. /\ token' = [token EXCEPT ![t].status = "held", ![t].call = call, ![t].ws = Project]
      /\ token[t].status = "new" /\ kind' = kind
  BY DEF Ask
<1>2. token' = [token EXCEPT ![t] = u]
  BY <1>1, EntryAsked DEF TokensOk
<1>3. TokenOk(u) /\ u.call = call
  BY <1>1, AskedIsOk DEF TokensOk
<1> HIDE DEF u
<1> QED BY <1>1, <1>2, <1>3, TokenChanged

LEMMA Ages ==
  ASSUME TokensOk, NEW t \in Tokens, AgeToken(t)
  PROVE  TokensOk'
<1> DEFINE u == [token[t] EXCEPT !.age = @ + 1]
<1>1. token' = [token EXCEPT ![t] = u] /\ token[t].status = "held" /\ kind' = kind
  BY DEF AgeToken
<1>2. TokenOk(u) /\ u.call = token[t].call
  BY <1>1, AgedIsOk DEF TokensOk
<1>3. u.call \in Writes
  BY <1>1, <1>2 DEF TokensOk
<1> HIDE DEF u
<1> QED BY <1>1, <1>2, <1>3, TokenChanged

LEMMA Cancels ==
  ASSUME TokensOk, NEW t \in Tokens, CancelToken(t)
  PROVE  TokensOk'
<1> DEFINE u == [[token[t] EXCEPT !.status = "gone"] EXCEPT !.cancelled = TRUE]
<1>1. /\ token' = [token EXCEPT ![t].status = "gone", ![t].cancelled = TRUE]
      /\ token[t].status = "held" /\ kind' = kind
  BY DEF CancelToken
<1>2. token' = [token EXCEPT ![t] = u]
  BY <1>1, EntryCancelled DEF TokensOk
<1>3. Spent(u)
  BY <1>1, TokenTaken DEF TokensOk
<1> HIDE DEF u
<1> QED BY <1>1, <1>2, <1>3, TokenChanged DEF Spent

\* A confirmed token is taken out, whether its write begins or not.
LEMMA Confirms ==
  ASSUME TokensOk, NEW t \in Tokens, NEW e, Confirm(t, e)
  PROVE  TokensOk'
<1> DEFINE gone == [token[t] EXCEPT !.status = "gone"]
           used == [gone EXCEPT !.ran = Append(@, Home)]
<1>1. /\ token[t].status = "held"
      /\ \/ token' = [token EXCEPT ![t] = gone]
         \/ token[t].age <= Lifetime /\ token' = [token EXCEPT ![t] = used]
  BY DEF Confirm
<1>2. kind' = kind
  BY SMTT(60) DEF Confirm, BeginCommand
<1>3. Spent(gone) /\ (token[t].age <= Lifetime => Spent(used))
  BY <1>1, TokenTaken DEF TokensOk
<1> HIDE DEF gone, used
<1> QED BY <1>1, <1>2, <1>3, TokenChanged DEF Spent

(***************************************************************************)
(* The theorem.                                                            *)
(***************************************************************************)
LEMMA FirstListIsOk ==
  ASSUME NEW list, list = << 1 >> \/ list = <<>>
  PROVE  ListOk(list) /\ NewestFirst(list, 1..1)
<1>1. CASE list = <<>>
  BY <1>1, NoListIsOk
<1>2. CASE list = <<1>>
  <2>1. list \in Seq(Nat) /\ Len(list) = 1 /\ list[1] = 1
    BY <1>2
  <2>2. 1 <= MaxSnapshots
    BY AssetAssumption
  <2>3. /\ \A a, b \in 1..1 : ~(a < b)
        /\ \A i \in 1..1 : i = 1
    OBVIOUS
  <2> QED BY <2>1, <2>2, <2>3 DEF ListOk, NewestFirst
<1> QED BY <1>1, <1>2

LEMMA LibStarts ==
  AssetInit => LibInv
<1> SUFFICES ASSUME AssetInit PROVE LibInv
  OBVIOUS
<1> DEFINE text == Drafts[1]
           snaps == IF kind = "device" THEN <<1>> ELSE Missing
           first == [latest |-> text, versions |-> <<text>>, snaps |-> snaps, sources |-> FALSE]
<1>1. \A e \in Editors : job[e] = Idle
  BY DEF AssetInit
<1>2. /\ token = [t \in Tokens |-> Fresh] /\ faults = 0 /\ tangled = {} /\ stripped = {}
  BY DEF AssetInit
<1>3. \A w \in Workspaces : disk[w] = first \/ disk[w] = Empty
  BY DEF AssetInit, Empty
<1>4. Shape(Idle.op, Idle.plan, kind) /\ Idle.plan = <<>> /\ ~Reading(Idle)
  BY IdleHasShape DEF Reading
<1>5. first.latest = text /\ first.versions = <<text>> /\ first.snaps = snaps
  OBVIOUS
<1> HIDE DEF first, text, snaps
<1>6. ListOk(ReadSnapshots(first.snaps)) /\ (kind # "device" => first.snaps = Missing) /\ Tidy(first)
  <2>1. ReadSnapshots(snaps) = <<1>> \/ ReadSnapshots(snaps) = <<>>
    BY DEF ReadSnapshots, snaps
  <2>2. ListOk(ReadSnapshots(snaps)) /\ NewestFirst(ReadSnapshots(snaps), 1..1)
    BY <2>1, FirstListIsOk
  <2>3. DOMAIN first.versions = 1..1
    BY <1>5
  <2>4. kind # "device" => snaps = Missing
    BY DEF snaps
  <2> QED BY <1>5, <2>2, <2>3, <2>4 DEF Tidy
<1>7. Shown(first)
  <2>1. DOMAIN <<text>> = 1..1 /\ <<text>>[1] = text
    OBVIOUS
  <2>2. DOMAIN first.versions \subseteq Nat /\ 1 \in DOMAIN first.versions
        /\ \A v \in DOMAIN first.versions : v <= 1
    BY <1>5, <2>1
  <2>3. Greatest(first.versions) = 1
    BY <2>2, GreatestIs
  <2>4. first.versions[1] = text
    BY <1>5, <2>1
  <2>5. SameText(first.latest, first.versions[Greatest(first.versions)])
    BY <1>5, <2>3, <2>4 DEF SameText
  <2> QED BY <2>2, <2>5 DEF Shown
<1>8. ListOk(ReadSnapshots(Empty.snaps)) /\ Empty.snaps = Missing /\ Tidy(Empty) /\ Shown(Empty)
  <2>1. Empty.snaps = Missing /\ Empty.latest = Missing
    BY DEF Empty
  <2> QED BY <2>1, NoneRead DEF Shown
<1>9. TokensOk
  <2>1. /\ Fresh.status = "new" /\ Fresh.call = NoCall /\ Fresh.ws = Project /\ Fresh.age = 0
        /\ Fresh.ran = <<>> /\ Fresh.cancelled = FALSE
        /\ Fresh = [status |-> "new", call |-> NoCall, ws |-> Project, age |-> 0, ran |-> <<>>,
                    cancelled |-> FALSE]
    BY DEF Fresh
  <2>2. Len(<<>>) <= 1
    OBVIOUS
  <2>3. TokenOk(Fresh)
    BY <2>1, <2>2, Zenon DEF TokenOk
  <2>4. \A t \in Tokens : token[t] = Fresh
    BY <1>2
  <2>5. token = [t \in Tokens |-> token[t]]
    BY <1>2
  <2> QED BY <2>1, <2>3, <2>4, <2>5 DEF TokensOk
<1>10. \A w \in Workspaces :
         /\ ListOk(ReadSnapshots(disk[w].snaps)) /\ (kind # "device" => disk[w].snaps = Missing)
         /\ Tidy(disk[w]) /\ Shown(disk[w])
  BY <1>3, <1>6, <1>7, <1>8
<1> QED BY <1>1, <1>2, <1>4, <1>9, <1>10 DEF LibInv

\* A step of the tokens alone, and none at all.
LEMMA LibRests ==
  ASSUME LibInv, kind' = kind, disk' = disk, job' = job, faults' = faults, tangled' = tangled,
         stripped' = stripped, TokensOk'
  PROVE  LibInv'
<1>1. \A w : Busy(w)' = Busy(w)
  BY DEF Busy
<1>2. Deleting' = Deleting /\ Workspaces' = Workspaces
  BY <1>1 DEF Deleting, Workspaces
<1> QED BY <1>1, <1>2 DEF LibInv, Calm

LEMMA LibStays ==
  AssetInv /\ LibInv /\ [AssetNext]_assetVars => LibInv'
<1> SUFFICES ASSUME AssetInv, LibInv, [AssetNext]_assetVars PROVE LibInv'
  OBVIOUS
<1>0. TokensOk /\ kind \in {"device", "capability", "connection"} /\ Project \in Workspaces /\ Home \in Workspaces
  BY DEF LibInv, AssetInv, Workspaces
<1>1. ASSUME NEW e \in Editors, JobStep(e) PROVE LibInv'
  BY <1>1, LibNumbers, LibLatest, LibVersion, LibReadsList, LibAppends, LibLoads, LibSources, LibRemovesFiles,
     LibOpens, LibRemovesVersions DEF JobStep
<1>2. ASSUME NEW e \in Editors, FailStage(e) PROVE LibInv'
  BY <1>2, LibFails
<1>3. ASSUME NEW e \in Editors, NEW call \in WindowCommands, Command(e, call) PROVE LibInv'
  <2>1. BeginCommand(e, call, Project) /\ token' = token /\ kind' = kind
    BY <1>3 DEF Command, BeginCommand
  <2>2. TokensOk'
    BY <1>0, <2>1, TokensStay
  <2>3. Offered(call.op, kind)
    BY <1>0, CallsAreOffered
  <2> QED BY <1>0, <2>1, <2>2, <2>3, LibBegins
<1>4. CASE Restart
  BY <1>4, LibRestarts
<1>5. ASSUME NEW t \in Tokens, NEW call \in Writes, Ask(t, call) PROVE LibInv'
  BY <1>0, <1>5, Asks, LibRests DEF Ask
<1>6. ASSUME NEW t \in Tokens, NEW e \in Editors, Confirm(t, e) PROVE LibInv'
  <2>1. TokensOk'
    BY <1>0, <1>6, Confirms
  <2>2. CASE BeginCommand(e, token[t].call, Home)
    <3>1. token[t].call \in Writes
      BY <1>0, <1>6 DEF TokensOk, Confirm
    <3>2. Offered(token[t].call.op, kind)
      BY <1>0, <3>1, CallsAreOffered
    <3> QED BY <1>0, <2>1, <2>2, <3>2, LibBegins
  <2>3. CASE UNCHANGED <<kind, disk, job, commands, faults, tangled, stripped>>
    BY <2>1, <2>3, LibRests
  <2> QED BY <1>6, <2>2, <2>3 DEF Confirm
<1>7. ASSUME NEW t \in Tokens, AgeToken(t) \/ CancelToken(t) PROVE LibInv'
  <2>1. TokensOk'
    BY <1>0, <1>7, Ages, Cancels
  <2> QED BY <1>7, <2>1, LibRests DEF AgeToken, CancelToken
<1>8. CASE UNCHANGED assetVars
  <2>1. kind' = kind /\ token' = token
    BY <1>8 DEF assetVars
  <2>2. TokensOk'
    BY <1>0, <2>1, TokensStay
  <2> QED BY <1>8, <2>2, LibRests DEF assetVars
<1> QED BY <1>1, <1>2, <1>3, <1>4, <1>5, <1>6, <1>7, <1>8 DEF AssetNext

LEMMA LibraryIsSound ==
  AssetInv /\ LibInv => AssetsSound
<1> SUFFICES ASSUME AssetInv, LibInv PROVE AssetsSound
  OBVIOUS
<1>1. SnapshotsHaveFiles
  <2> SUFFICES ASSUME NEW w \in Workspaces
               PROVE  LET list == ReadSnapshots(disk[w].snaps)
                      IN  /\ Len(list) <= MaxSnapshots
                          /\ \A i, j \in DOMAIN list : i < j => list[i] # list[j]
                          /\ w \notin tangled \cup stripped \cup Deleting =>
                               /\ \A i \in DOMAIN list : list[i] \in DOMAIN disk[w].versions
                               /\ \A i, j \in DOMAIN list : i < j => list[i] > list[j]
    BY DEF SnapshotsHaveFiles
  <2> DEFINE list == ReadSnapshots(disk[w].snaps)
  <2>1. ListOk(list) /\ (w \notin tangled \cup stripped \cup Deleting => NewestFirst(list, DOMAIN disk[w].versions))
    BY DEF LibInv, Tidy
  <2> HIDE DEF list
  <2>2. DOMAIN list = 1..Len(list)
    BY <2>1 DEF ListOk
  <2>3. Len(list) <= MaxSnapshots /\ \A i, j \in DOMAIN list : i < j => list[i] # list[j]
    BY <2>1, <2>2, Zenon DEF ListOk
  <2>4. w \notin tangled \cup stripped \cup Deleting =>
          /\ \A i \in DOMAIN list : list[i] \in DOMAIN disk[w].versions
          /\ \A i, j \in DOMAIN list : i < j => list[i] > list[j]
    BY <2>1, <2>2, Zenon DEF NewestFirst
  <2> QED BY <2>3, <2>4 DEF list
<1>2. DetailIsItsVersion
  <2> SUFFICES ASSUME NEW w \in Workspaces \ (tangled \cup stripped), faults = 0, Busy(w) = {},
                      disk[w].latest # Missing, disk[w].latest.id = Asset
               PROVE  LET d == Detail(w)
                      IN  /\ d.version \in DOMAIN disk[w].versions
                          /\ [d.text EXCEPT !.link = NoLink]
                               = [disk[w].versions[d.version] EXCEPT !.link = NoLink]
    BY DEF DetailIsItsVersion
  <2> DEFINE D == DOMAIN disk[w].versions
             g == Greatest(disk[w].versions)
             d == Detail(w)
  <2>1. Shown(disk[w]) /\ Bounded(D)
    BY DEF LibInv, AssetInv, FilesOk, Calm
  <2>2. D # {} /\ SameText(disk[w].latest, disk[w].versions[g])
    BY <2>1 DEF Shown
  <2>3. \E m \in D : \A x \in D : x <= m
    BY <2>1, <2>2, GreatestThere
  <2>4. g \in D
    BY <2>3, Zenon DEF Greatest
  <2>5. d = [version |-> g, text |-> disk[w].latest]
    BY <2>2 DEF Detail
  <2> HIDE DEF D, g, d
  <2>6. d.version = g /\ d.text = disk[w].latest
    BY <2>5
  <2>7. /\ d.version \in D
        /\ SameText(d.text, disk[w].versions[d.version])
    BY <2>2, <2>4, <2>6
  <2> QED BY <2>7 DEF D, d, SameText
<1>3. TokensSpentOnce
  BY DEF LibInv, TokensOk, TokenOk, TokensSpentOnce
<1> QED BY <1>1, <1>2, <1>3 DEF AssetsSound

\* What the lists of the asset library promise can be opened, the text a device
\* is shown with is that of the version it is shown under, and a confirmation
\* counts once (asset_files/, commands/devices/, copilot_confirm_action).
THEOREM AssetsAreSound == AssetSpec => []AssetsSound
<1>1. AssetInit => AssetInv /\ LibInv
  BY AssetStarts, LibStarts
<1>2. AssetInv /\ LibInv /\ [AssetNext]_assetVars => AssetInv' /\ LibInv'
  BY AssetStays, LibStays DEF Kept
<1> QED BY <1>1, <1>2, LibraryIsSound, PTL DEF AssetSpec

-----------------------------------------------------------------------------
(* What is left on disk for the next run.                                   *)

EndedBadly == {"killed", "panicked"}

\* No later process has been started.
IsLast(p) == \A q \in Pids : q > p => process[q] = "off"

MarkerType ==
  /\ process \in [Pids -> {"off", "on", "closed"} \cup EndedBadly]
  /\ verdicts \in [Pids -> {"none", "killed", "panicked"}]
  /\ marker \in Nat /\ crash \in Nat

\* Processes start in order and one at a time; the marker on disk is that of the
\* process that runs, or of the last one when it did not end by closing.
MarkerInv ==
  /\ MarkerType
  /\ \A p, q \in Pids : p < q /\ process[p] = "off" => process[q] = "off"
  /\ \A p \in Pids : process[p] = "on" => marker = p /\ IsLast(p)
  /\ \A p \in Pids : process[p] \in EndedBadly /\ IsLast(p) => marker = p
  /\ AnomalyIsReported

LEMMA PreviousIs ==
  ASSUME NEW p \in Pids
  PROVE  /\ \A q \in Previous(p) : q \in Pids /\ q = p - 1
         /\ p # 1 => p - 1 \in Previous(p)
<1> USE AppSessionAssumption DEF AppSessionAssumption
<1>1. p \in Nat /\ p >= 1 /\ (p # 1 => p - 1 \in Pids)
  <2>1. p \in Nat /\ p >= 1
    OBVIOUS
  <2>2. p # 1 => p - 1 \in 1..p
    BY <2>1
  <2> QED
    BY <2>1, <2>2
<1>2. \A q \in Pids : q \in Nat /\ q >= 1
  OBVIOUS
<1>3. ASSUME NEW q \in Previous(p) PROVE q \in Pids /\ q = p - 1
  <2>1. q \in Pids /\ q < p /\ \A r \in Pids : r < p => r <= q
    BY <1>3 DEF Previous
  <2>2. p # 1
    BY <1>1, <1>2, <2>1
  <2>3. p - 1 <= q
    BY <1>1, <2>1, <2>2
  <2> QED
    BY <1>1, <1>2, <2>1, <2>3
<1>4. p # 1 => p - 1 \in Previous(p)
  BY <1>1, <1>2 DEF Previous
<1> QED
  BY <1>3, <1>4

LEMMA MarkerInit == AppInit => MarkerInv
BY DEF AppInit, MarkerInv, MarkerType, AnomalyIsReported, EndedBadly

\* The process that starts is the first that had not, and it reads the marker of
\* the last one before it removes it.
LEMMA StartKeeps ==
  ASSUME MarkerInv, NEW p \in Pids, Start(p)
  PROVE  MarkerInv'
<1>1. p \in Nat /\ \A q \in Pids : q \in Nat /\ q # 0
  BY AppSessionAssumption DEF AppSessionAssumption
<1>2. \A q \in Pids : process'[q] = IF q = p THEN "on" ELSE process[q]
  BY DEF Start, MarkerInv, MarkerType
<1>3. \A q \in Pids : verdicts'[q] = IF q = p THEN DetectAnomaly(p) ELSE verdicts[q]
  BY DEF Start, MarkerInv, MarkerType
<1>4. marker' = p /\ process[p] = "off" /\ \A q \in Pids : process[q] # "on"
  BY DEF Start, Running
<1>5. \A q \in Pids : q > p => process[q] = "off"
  BY <1>4 DEF MarkerInv
<1>6. \A q \in Pids : q < p => process[q] # "off"
  <2> SUFFICES ASSUME NEW q \in Pids, q < p, process[q] = "off" PROVE FALSE
    OBVIOUS
  <2>1. p # 1 /\ p - 1 \in Previous(p)
    BY <1>1, PreviousIs
  <2>2. p - 1 \in Pids /\ process[p - 1] # "off"
    BY <2>1, PreviousIs DEF Start
  <2>3. q = p - 1 \/ q < p - 1
    BY <1>1
  <2> QED
    BY <2>2, <2>3 DEF MarkerInv
<1>7. MarkerType'
  BY <1>1 DEF Start, DetectAnomaly, MarkerInv, MarkerType, EndedBadly
<1>8. (\A a, b \in Pids : a < b /\ process[a] = "off" => process[b] = "off")'
  <2> SUFFICES ASSUME NEW a \in Pids, NEW b \in Pids, a < b, process'[a] = "off" PROVE process'[b] = "off"
    OBVIOUS
  <2>1. a # p /\ process[a] = "off" /\ process[b] = "off"
    BY <1>2 DEF MarkerInv
  <2>2. ~(a < p)
    BY <1>6, <2>1
  <2> QED
    BY <1>1, <1>2, <2>1, <2>2
<1>9. (\A q \in Pids : process[q] = "on" => marker = q /\ IsLast(q))'
  BY <1>1, <1>2, <1>4, <1>5 DEF IsLast
<1>10. (\A q \in Pids : process[q] \in EndedBadly /\ IsLast(q) => marker = q)'
  <2> SUFFICES ASSUME NEW q \in Pids, process'[q] \in EndedBadly, IsLast(q)' PROVE FALSE
    OBVIOUS
  <2>1. q # p /\ process[q] # "off"
    BY <1>2 DEF EndedBadly
  <2>2. q < p
    BY <1>1, <1>5, <2>1
  <2> QED
    BY <1>2, <2>2 DEF IsLast
<1>11. AnomalyIsReported'
  <2> SUFFICES ASSUME NEW r \in Pids, process'[r] # "off", NEW q \in Previous(r), process'[q] \in EndedBadly
               PROVE  verdicts'[r] # "none"
    BY DEF AnomalyIsReported, Previous, EndedBadly
  <2>1. q \in Pids /\ q = r - 1 /\ r \in Pids
    BY PreviousIs
  <2>2. q # p /\ process[q] \in EndedBadly
    BY <1>2, <2>1 DEF EndedBadly
  <2>3. CASE r = p
    <3>1. IsLast(q)
      BY <1>1, <1>4, <1>5, <2>1, <2>3 DEF IsLast
    <3>2. marker = q
      BY <2>1, <2>2, <3>1 DEF MarkerInv
    <3> QED
      BY <1>1, <1>3, <2>1, <2>2, <2>3, <3>2 DEF DetectAnomaly
  <2>4. CASE r # p
    BY <1>2, <1>3, <2>1, <2>2, <2>4 DEF MarkerInv, AnomalyIsReported, EndedBadly
  <2> QED
    BY <2>3, <2>4
<1> QED
  BY <1>7, <1>8, <1>9, <1>10, <1>11 DEF MarkerInv

\* A process that ends was the last one, and only closing removes its marker.
LEMMA EndKeeps ==
  ASSUME MarkerInv, NEW p \in Pids, NEW how \in {"closed"} \cup EndedBadly, process[p] = "on",
         process' = [process EXCEPT ![p] = how], crash' \in Nat, UNCHANGED verdicts,
         marker' = IF how = "closed" THEN 0 ELSE marker
  PROVE  MarkerInv'
<1>1. \A q \in Pids : q \in Nat
  BY AppSessionAssumption DEF AppSessionAssumption
<1>2. \A q \in Pids : process'[q] = IF q = p THEN how ELSE process[q]
  BY DEF MarkerInv, MarkerType
<1>3. marker = p /\ \A q \in Pids : q > p => process[q] = "off"
  BY DEF MarkerInv, IsLast
<1>4. how # "off" /\ how # "on"
  BY DEF EndedBadly
<1>5. \A q \in Pids : process'[q] = "off" <=> process[q] = "off"
  BY <1>2, <1>4
<1>6. MarkerType'
  BY <1>1 DEF MarkerInv, MarkerType, EndedBadly
<1>7. (\A a, b \in Pids : a < b /\ process[a] = "off" => process[b] = "off")'
  BY <1>5 DEF MarkerInv
<1>8. (\A q \in Pids : process[q] = "on" => marker = q /\ IsLast(q))'
  BY <1>2, <1>3, <1>4 DEF MarkerInv
<1>9. (\A q \in Pids : process[q] \in EndedBadly /\ IsLast(q) => marker = q)'
  <2> SUFFICES ASSUME NEW q \in Pids, process'[q] \in EndedBadly, IsLast(q)' PROVE marker' = q
    OBVIOUS
  <2>1. CASE q = p
    BY <1>2, <1>3, <2>1 DEF EndedBadly
  <2>2. CASE q # p
    <3>1. process[q] \in EndedBadly /\ IsLast(q)
      BY <1>2, <1>5, <2>2 DEF IsLast
    <3> QED
      BY <1>3, <2>2, <3>1 DEF MarkerInv
  <2> QED
    BY <2>1, <2>2
<1>10. AnomalyIsReported'
  <2> SUFFICES ASSUME NEW r \in Pids, process'[r] # "off", NEW q \in Previous(r), process'[q] \in EndedBadly
               PROVE  verdicts'[r] # "none"
    BY DEF AnomalyIsReported, Previous, EndedBadly
  <2>1. q \in Pids /\ q < r
    BY DEF Previous
  <2>2. q # p
    BY <1>1, <1>3, <1>5, <2>1
  <2>3. process[q] \in EndedBadly /\ process[r] # "off"
    BY <1>2, <1>5, <2>1, <2>2
  <2> QED
    BY <2>3 DEF MarkerInv, AnomalyIsReported, EndedBadly
<1> QED
  BY <1>6, <1>7, <1>8, <1>9, <1>10 DEF MarkerInv

LEMMA MarkerStep == MarkerInv /\ [AppNext]_appVars => MarkerInv'
<1> SUFFICES ASSUME MarkerInv, [AppNext]_appVars PROVE MarkerInv'
  OBVIOUS
<1>1. ASSUME NEW p \in Pids, Start(p) PROVE MarkerInv'
  BY <1>1, StartKeeps
<1>2. ASSUME NEW p \in Pids, PanicHook(p) PROVE MarkerInv'
  <2>1. crash' \in Nat /\ UNCHANGED <<process, marker, verdicts>>
    BY <1>2, AppSessionAssumption DEF PanicHook, AppSessionAssumption
  <2> QED
    BY <2>1 DEF MarkerInv, MarkerType, IsLast, AnomalyIsReported
<1>3. ASSUME NEW p \in Pids, CleanShutdown(p) PROVE MarkerInv'
  BY <1>3, EndKeeps DEF CleanShutdown, Running, MarkerInv, MarkerType
<1>4. ASSUME NEW p \in Pids, NEW how \in EndedBadly, Die(p, how) PROVE MarkerInv'
  <2>1. crash' \in Nat /\ how # "closed"
    BY <1>4, AppSessionAssumption DEF Die, AppSessionAssumption, MarkerInv, MarkerType, EndedBadly
  <2> QED
    BY <1>4, <2>1, EndKeeps DEF Die, Running
<1>5. CASE UNCHANGED <<process, marker, crash, verdicts>>
  BY <1>5 DEF MarkerInv, MarkerType, IsLast, AnomalyIsReported
<1>6. ASSUME NEW c \in FileCommands, ReadState(c) \/ Truncate(c) \/ Fill(c)
      PROVE  UNCHANGED <<process, marker, crash, verdicts>>
  BY <1>6 DEF ReadState, Truncate, Fill
<1>7. ClearFile \/ UNCHANGED appVars => UNCHANGED <<process, marker, crash, verdicts>>
  BY DEF ClearFile, appVars
<1> QED
  BY <1>1, <1>2, <1>3, <1>4, <1>5, <1>6, <1>7 DEF AppNext, EndedBadly
-----------------------------------------------------------------------------
(* The deployment-session file.                                            *)

Documents ==
  [kind : {"document", "absent", "torn"}, active : Projects \cup {"none"}, sessions : SUBSET Projects]
FileEdits ==
  [at : {"idle", "truncate", "fill"}, next : Documents, op : {"none", "save", "activate", "remove"},
   project : Projects \cup {"none"}]

FileType ==
  /\ doc \in Documents /\ edit \in [FileCommands -> FileEdits]
  /\ disturbed \in BOOLEAN

Proper(d) == d.kind = "document" => d.active \in d.sessions \cup {"none"} /\ d.sessions # {}

\* The projects that are saved once the command has written.
SavedAfter(e) ==
  CASE e.op = "save" -> saved \cup {e.project}
    [] e.op = "remove" -> saved \ {e.project}
    [] OTHER -> saved

\* Undisturbed, one command is at work at most, and what it will write holds
\* exactly the projects that are saved then.
FileInv ==
  /\ FileType
  /\ Proper(doc) /\ \A c \in FileCommands : Proper(edit[c].next)
  /\ ~disturbed /\ doc # Torn => doc.sessions = saved
  /\ ~disturbed => \A c \in FileCommands : edit[c] # Free =>
       edit[c].next.sessions = SavedAfter(edit[c]) /\ \A d \in FileCommands : d # c => edit[d] = Free

LEMMA NoFileIs == NoFile \in Documents /\ NoFile.sessions = {} /\ NoFile.kind = "absent" /\ Proper(NoFile)
BY DEF NoFile, Document, Documents, Proper

LEMMA TornIs == Torn \in Documents /\ Proper(Torn) /\ Torn.kind = "torn"
BY DEF Torn, Document, Documents, Proper

LEMMA FreeIs == Free \in FileEdits /\ Free.at = "idle" /\ Free.next = NoFile
BY NoFileIs DEF Free, FileEdits

\* Normalizing keeps the sessions and leaves a proper document.
LEMMA NormalizeIs ==
  ASSUME NEW d \in Documents
  PROVE  Normalize(d) \in Documents /\ Proper(Normalize(d)) /\ Normalize(d).sessions = d.sessions
<1>1. CASE d.sessions = {}
  BY <1>1, NoFileIs DEF Normalize
<1>2. CASE d.sessions # {}
  BY <1>2 DEF Normalize, Document, Documents, Proper
<1> QED
  BY <1>1, <1>2

LEMMA EditsAre ==
  ASSUME FileType, NEW e \in Edits(doc)
  PROVE  /\ e.next \in Documents /\ e.op \in {"save", "activate", "remove"}
         /\ e.project \in Projects \cup {"none"}
         /\ doc.sessions = saved => e.next.sessions = SavedAfter(e)
<1> USE DEF Document, Documents, FileType
<1>1. CASE \E j \in Projects, a \in Projects \cup {"keep", "none"} :
             e = [op |-> "save", project |-> j, next |-> Saved(doc, j, a)]
  BY <1>1 DEF Saved, SavedAfter
<1>2. CASE \E a \in Projects \cup {"none"} :
             e = [op |-> "activate", project |-> "none", next |-> Activated(doc, a)]
  BY <1>2 DEF Activated, SavedAfter
<1>3. CASE \E j \in Projects : e = [op |-> "remove", project |-> j, next |-> Removed(doc, j)]
  BY <1>3 DEF Removed, SavedAfter
<1> QED
  BY <1>1, <1>2, <1>3 DEF Edits

LEMMA FileInit == AppInit => FileInv
<1> SUFFICES ASSUME AppInit PROVE FileInv
  OBVIOUS
<1>1. doc = NoFile /\ saved = {} /\ disturbed = FALSE /\ edit = [c \in FileCommands |-> Free]
  BY DEF AppInit
<1>2. FileType
  BY <1>1, NoFileIs, FreeIs DEF FileType
<1> QED
  BY <1>1, <1>2, NoFileIs, FreeIs DEF FileInv

LEMMA ReadStateKeeps ==
  ASSUME FileInv, NEW c \in FileCommands, ReadState(c)
  PROVE  FileInv'
<1>1. PICK e \in Edits(doc) :
        edit' = [edit EXCEPT ![c] = [at |-> "truncate", next |-> Normalize(e.next), op |-> e.op, project |-> e.project]]
  BY DEF ReadState
<1> DEFINE new == [at |-> "truncate", next |-> Normalize(e.next), op |-> e.op, project |-> e.project]
<1>2. UNCHANGED <<doc, saved>> /\ doc # Torn /\ edit[c] = Free
  BY DEF ReadState
<1>3. disturbed' \in BOOLEAN /\ (~disturbed' => ~disturbed /\ \A b \in FileCommands : edit[b] = Free)
  BY DEF ReadState, FileInv, FileType
<1>4. /\ e.next \in Documents /\ e.op \in {"save", "activate", "remove"} /\ e.project \in Projects \cup {"none"}
      /\ doc.sessions = saved => e.next.sessions = SavedAfter(e)
  BY EditsAre DEF FileInv
<1>5. Normalize(e.next) \in Documents /\ Proper(Normalize(e.next)) /\ Normalize(e.next).sessions = e.next.sessions
  BY <1>4, NormalizeIs
<1>6. new \in FileEdits /\ new.next = Normalize(e.next) /\ new.op = e.op /\ new.project = e.project
  BY <1>4, <1>5 DEF FileEdits
<1> HIDE DEF new
<1>7. \A d \in FileCommands : edit'[d] = IF d = c THEN new ELSE edit[d]
  BY <1>1 DEF FileInv, FileType, new
<1>8. FileType'
  BY <1>1, <1>2, <1>3, <1>6 DEF FileInv, FileType, new
<1>9. Proper(doc)' /\ (\A d \in FileCommands : Proper(edit[d].next))'
  BY <1>2, <1>5, <1>6, <1>7 DEF FileInv, Proper
<1>10. ~disturbed' /\ doc' # Torn => doc'.sessions = saved'
  BY <1>2, <1>3 DEF FileInv
<1>11. ASSUME ~disturbed', NEW b \in FileCommands, edit'[b] # Free
       PROVE  edit'[b].next.sessions = SavedAfter(edit[b])' /\ \A d \in FileCommands : d # b => edit'[d] = Free
  <2>1. b = c /\ \A d \in FileCommands : d # c => edit'[d] = Free
    BY <1>3, <1>7, <1>11
  <2>2. doc.sessions = saved
    BY <1>2, <1>3, <1>11 DEF FileInv
  <2>3. SavedAfter(e) = SavedAfter(new)'
    BY <1>2, <1>6 DEF SavedAfter, new
  <2> QED
    BY <1>4, <1>5, <1>6, <1>7, <2>1, <2>2, <2>3 DEF SavedAfter
<1> QED
  BY <1>8, <1>9, <1>10, <1>11 DEF FileInv

LEMMA TruncateKeeps ==
  ASSUME FileInv, NEW c \in FileCommands, Truncate(c)
  PROVE  FileInv'
<1>1. doc' = Torn /\ UNCHANGED <<saved, disturbed>> /\ edit[c].at = "truncate"
  BY DEF Truncate
<1>2. \A d \in FileCommands : d # c => edit'[d] = edit[d]
  BY DEF Truncate, FileInv, FileType
<1>3. edit'[c].next = edit[c].next /\ edit'[c].op = edit[c].op /\ edit'[c].project = edit[c].project
  BY DEF Truncate, FileInv, FileType, FileEdits
<1>4. edit' \in [FileCommands -> FileEdits]
  BY DEF Truncate, FileInv, FileType, FileEdits
<1>5. edit[c] # Free
  BY <1>1, FreeIs
<1>6. FileType' /\ Proper(doc)' /\ (\A d \in FileCommands : Proper(edit[d].next))'
  BY <1>1, <1>2, <1>3, <1>4, TornIs DEF FileInv, FileType, Proper
<1>7. ASSUME ~disturbed', NEW b \in FileCommands, edit'[b] # Free
      PROVE  edit'[b].next.sessions = SavedAfter(edit[b])' /\ \A d \in FileCommands : d # b => edit'[d] = Free
  <2>1. \A d \in FileCommands : d # c => edit[d] = Free /\ edit'[d] = Free
    BY <1>1, <1>2, <1>5, <1>7 DEF FileInv
  <2>2. b = c /\ edit[c].next.sessions = SavedAfter(edit[c])
    BY <1>1, <1>5, <1>7, <2>1 DEF FileInv
  <2> QED
    BY <1>1, <1>3, <2>1, <2>2 DEF SavedAfter
<1> QED
  BY <1>1, <1>6, <1>7 DEF FileInv

LEMMA FillKeeps ==
  ASSUME FileInv, NEW c \in FileCommands, Fill(c)
  PROVE  FileInv'
<1>1. doc' = edit[c].next /\ saved' = SavedAfter(edit[c]) /\ UNCHANGED disturbed
  BY DEF Fill, SavedAfter
<1>2. edit[c] # Free
  BY FreeIs DEF Fill
<1>3. \A d \in FileCommands : edit'[d] = IF d = c THEN Free ELSE edit[d]
  BY DEF Fill, FileInv, FileType
<1>4. edit' \in [FileCommands -> FileEdits]
  BY FreeIs DEF Fill, FileInv, FileType
<1>5. edit[c] \in FileEdits
  BY DEF FileInv, FileType
<1>6. FileType'
  BY <1>1, <1>4, <1>5 DEF FileInv, FileType, FileEdits
<1>7. Proper(doc)' /\ (\A d \in FileCommands : Proper(edit[d].next))'
  BY <1>1, <1>3, FreeIs, NoFileIs DEF FileInv, Proper
<1>8. ~disturbed' => doc'.sessions = saved' /\ \A d \in FileCommands : edit'[d] = Free
  BY <1>1, <1>2, <1>3 DEF FileInv
<1> QED
  BY <1>6, <1>7, <1>8 DEF FileInv

LEMMA ClearFileKeeps == FileInv /\ ClearFile => FileInv'
<1> SUFFICES ASSUME FileInv, ClearFile PROVE FileInv'
  OBVIOUS
<1>1. doc' = NoFile /\ saved' = {} /\ UNCHANGED edit
  BY DEF ClearFile
<1>2. disturbed' \in BOOLEAN /\ (~disturbed' => \A b \in FileCommands : edit[b] = Free)
  BY DEF ClearFile, FileInv, FileType
<1>3. FileType'
  BY <1>1, <1>2, NoFileIs DEF FileInv, FileType
<1> QED
  BY <1>1, <1>2, <1>3, NoFileIs DEF FileInv

\* The end of a process cuts its commands short.
LEMMA CutShortKeeps ==
  ASSUME FileInv, UNCHANGED <<doc, saved>>, edit' = [c \in FileCommands |-> Free],
         disturbed' = (disturbed \/ \E c \in FileCommands : edit[c] # Free)
  PROVE  FileInv'
<1>1. FileType'
  BY FreeIs DEF FileInv, FileType
<1> QED
  BY <1>1, FreeIs, NoFileIs DEF FileInv

LEMMA FileStep == FileInv /\ [AppNext]_appVars => FileInv'
<1> SUFFICES ASSUME FileInv, [AppNext]_appVars PROVE FileInv'
  OBVIOUS
<1>1. CASE UNCHANGED <<doc, edit, saved, disturbed>>
  BY <1>1 DEF FileInv, FileType, SavedAfter
<1>2. ASSUME NEW p \in Pids, Start(p) \/ PanicHook(p) PROVE FileInv'
  BY <1>1, <1>2 DEF Start, PanicHook
<1>3. ASSUME NEW p \in Pids, CleanShutdown(p) PROVE FileInv'
  BY <1>3, CutShortKeeps DEF CleanShutdown
<1>4. ASSUME NEW p \in Pids, NEW how \in EndedBadly, Die(p, how) PROVE FileInv'
  BY <1>4, CutShortKeeps DEF Die
<1>5. ASSUME NEW c \in FileCommands, ReadState(c) \/ Truncate(c) \/ Fill(c) PROVE FileInv'
  BY <1>5, ReadStateKeeps, TruncateKeeps, FillKeeps
<1>6. CASE ClearFile
  BY <1>6, ClearFileKeeps
<1>7. CASE UNCHANGED appVars
  BY <1>1, <1>7 DEF appVars
<1> QED
  BY <1>2, <1>3, <1>4, <1>5, <1>6, <1>7 DEF AppNext, EndedBadly

\* Whatever way the runs before ended, an end that was not clean is reported to
\* the next run; a session file that can be read is proper; and what was saved is
\* in it, until commands overlap or are cut short (session_marker.rs:48-66,
\* deployment_session.rs:34-51 and 168-244): for any number of runs, commands and
\* projects.
THEOREM SessionFilesAreRead == AppSpec => []SessionFilesSound
<1>1. AppInit => MarkerInv /\ FileInv
  BY MarkerInit, FileInit
<1>2. (MarkerInv /\ FileInv) /\ [AppNext]_appVars => (MarkerInv /\ FileInv)'
  BY MarkerStep, FileStep
<1>3. MarkerInv /\ FileInv => SessionFilesSound
  BY DEF MarkerInv, FileInv, Proper, SessionFilesSound, DocumentNormal, SavedSessionsSurvive
<1> QED
  BY <1>1, <1>2, <1>3, PTL DEF AppSpec
==============================================================================
