------------------------------ MODULE HumanLoop ------------------------------
(***************************************************************************)
(* Human-in-the-loop approvals: the registry all workflows share, the node *)
(* that waits for the answer of an operator (nodes-io human_loop), and the *)
(* undeployment and redeployment of its workflow (src-tauri commands).     *)
(*                                                                         *)
(* One workflow id is modelled, deployed as a first and a second instance; *)
(* each has one approval node whose task works off a queue of messages.    *)
(***************************************************************************)
EXTENDS Naturals, FiniteSets

CONSTANTS
  Instances,  \* deployments of the workflow, numbered from 1
  AskIds,     \* approval ids, numbered from 1: a UUID is never used twice
  AskQueue    \* capacity of the channel into the approval node

ASSUME HumanLoopAssumption ==
  /\ Instances \subseteq Nat \ {0} /\ AskIds \subseteq Nat \ {0} /\ AskQueue \in Nat

Answers  == {"approved", "rejected"}
Defaults == {"autoApprove", "autoReject"}

VARIABLES
  life,      \* "absent", "running", "stopped" (guards shut down), "gone" (undeployed)
  setting,   \* which timer ends a wait ("none", "approval", "stage"), and default_action
  waiting,   \* messages in the channel of the node
  asking,    \* the approval the task waits for, 0 when it is at recv
  expiring,  \* the answer was not there when the timer of the task was
  slots,     \* ids in the registry, with the instance that asks
  answering, \* ids respond has removed and not sent yet, with the action
  answer,    \* what is in the oneshot channel of an id
  told,      \* history: ids whose operator was told Ok before the wait was over
  late,      \* history: ids whose operator was told Ok as the wait was ending
  verdict,   \* history: how an approval ended
  overdue    \* history: ids whose approval_timeout_ms elapsed

askVars == <<life, setting, waiting, asking, expiring, slots, answering, answer, told, late, verdict, overdue>>

Open == "open"
Used == {i \in AskIds : answer[i] # "unborn"}
NextId == {i \in AskIds \ Used : \A j \in AskIds \ Used : i <= j}

\* The sender is with the slot or with the command that removed it.
SenderAlive(i) == (\E s \in slots : s.id = i) \/ (\E a \in answering : a.id = i)

\* The task leaves its approval: the receiver is dropped, the loop goes on.
Decide(n, v) ==
  /\ verdict' = [verdict EXCEPT ![asking[n]] = v]
  /\ asking' = [asking EXCEPT ![n] = 0]
  /\ expiring' = expiring \ {n}

-----------------------------------------------------------------------------
(* The approval node.                                                      *)

\* A message reaches the node while its workflow runs.
AskArrives(n) ==
  /\ life[n] = "running" /\ waiting[n] < AskQueue
  /\ waiting' = [waiting EXCEPT ![n] = @ + 1]
  /\ UNCHANGED <<life, setting, asking, expiring, slots, answering, answer, told, late, verdict, overdue>>

\* transform, create_slot: queued messages are served after a stop, too.
CreateSlot(n) ==
  /\ life[n] # "absent" /\ asking[n] = 0 /\ waiting[n] > 0
  /\ \E i \in NextId :
       /\ asking' = [asking EXCEPT ![n] = i]
       /\ answer' = [answer EXCEPT ![i] = Open]
       /\ slots' = slots \cup {[id |-> i, owner |-> n]}
  /\ waiting' = [waiting EXCEPT ![n] = @ - 1]
  /\ UNCHANGED <<life, setting, expiring, answering, told, late, verdict, overdue>>

\* The receiver yields the answer: routed to approve or to reject.
HandleResponse(n) ==
  /\ asking[n] # 0 /\ n \notin expiring /\ answer[asking[n]] \in Answers
  /\ Decide(n, answer[asking[n]])
  /\ UNCHANGED <<life, setting, waiting, slots, answering, answer, told, late, overdue>>

\* The sender is gone: the default action, as after a timeout.
ResponderClosed(n) ==
  /\ asking[n] # 0 /\ n \notin expiring
  /\ answer[asking[n]] = Open /\ ~SenderAlive(asking[n])
  /\ Decide(n, setting.default)
  /\ UNCHANGED <<life, setting, waiting, slots, answering, answer, told, late, overdue>>

\* Mutant: the timer is looked at before the answer.
TimerElapsesFirst(n) ==
  /\ setting.timer # "none" /\ asking[n] # 0 /\ n \notin expiring
  /\ expiring' = expiring \cup {n}
  /\ overdue' = IF setting.timer = "approval" THEN overdue \cup {asking[n]} ELSE overdue
  /\ UNCHANGED <<life, setting, waiting, asking, slots, answering, answer, told, late, verdict>>

\* tokio::time::timeout (of the approval or of the stage) polls the receiver,
\* finds nothing, then polls the timer.
TimerElapses(n) ==
  /\ setting.timer # "none" /\ asking[n] # 0 /\ n \notin expiring
  /\ answer[asking[n]] = Open
  /\ expiring' = expiring \cup {n}
  /\ overdue' = IF setting.timer = "approval" THEN overdue \cup {asking[n]} ELSE overdue
  /\ UNCHANGED <<life, setting, waiting, asking, slots, answering, answer, told, late, verdict>>

\* The receiver is dropped: the default action, or StageTimeout when it was
\* the timer of guarded_execute.  The slot stays in the registry.
HandleTimeout(n) ==
  /\ n \in expiring
  /\ Decide(n, IF setting.timer = "approval" THEN setting.default ELSE "stageTimeout")
  /\ UNCHANGED <<life, setting, waiting, slots, answering, answer, told, late, overdue>>

-----------------------------------------------------------------------------
(* The operator: respond_human_loop.                                       *)

\* The slot is removed from the map; an unknown id is an error.
RespondRemoves ==
  /\ \E s \in slots, a \in Answers :
       slots' = slots \ {s} /\ answering' = answering \cup {[id |-> s.id, action |-> a]}
  /\ UNCHANGED <<life, setting, waiting, asking, expiring, answer, told, late, verdict, overdue>>

\* send: an error when the receiver has been dropped.
RespondSends ==
  /\ \E a \in answering :
       /\ answering' = answering \ {a}
       /\ IF \E n \in Instances : asking[n] = a.id
          THEN /\ answer' = [answer EXCEPT ![a.id] = a.action]
               /\ IF \E n \in expiring : asking[n] = a.id
                  THEN late' = late \cup {a.id} /\ UNCHANGED told
                  ELSE told' = told \cup {a.id} /\ UNCHANGED late
          ELSE UNCHANGED <<answer, told, late>>
  /\ UNCHANGED <<life, setting, waiting, asking, expiring, slots, verdict, overdue>>

-----------------------------------------------------------------------------
(* Deployment.                                                             *)

\* deploy_workflow: the instance before it is shut down, its approvals stay.
DeployInstance(n) ==
  /\ life[n] = "absent" /\ \A o \in Instances : o < n => life[o] # "absent"
  /\ life' = [o \in Instances |-> IF o = n THEN "running"
                                  ELSE IF life[o] = "running" THEN "stopped" ELSE life[o]]
  /\ UNCHANGED <<setting, waiting, asking, expiring, slots, answering, answer, told, late, verdict, overdue>>

\* undeploy_workflow_by_id: shutdown_runtime, the node tasks go on, ...
StopInstance(n) ==
  /\ life[n] = "running" /\ life' = [life EXCEPT ![n] = "stopped"]
  /\ UNCHANGED <<setting, waiting, asking, expiring, slots, answering, answer, told, late, verdict, overdue>>

\* ... then cleanup_workflow drops all slots of the workflow id.
CleanupWorkflow(n) ==
  /\ life[n] = "stopped" /\ life' = [life EXCEPT ![n] = "gone"]
  /\ slots' = {}
  /\ UNCHANGED <<setting, waiting, asking, expiring, answering, answer, told, late, verdict, overdue>>

-----------------------------------------------------------------------------
AskInit ==
  /\ life = [n \in Instances |-> "absent"]
  /\ setting \in [timer : {"none", "approval", "stage"}, default : Defaults]
  /\ waiting = [n \in Instances |-> 0] /\ asking = [n \in Instances |-> 0] /\ expiring = {}
  /\ slots = {} /\ answering = {} /\ answer = [i \in AskIds |-> "unborn"]
  /\ told = {} /\ late = {} /\ verdict = [i \in AskIds |-> "none"] /\ overdue = {}

AskStep(n) == HandleResponse(n) \/ ResponderClosed(n) \/ TimerElapses(n) \/ HandleTimeout(n)

AskNext ==
  \/ \E n \in Instances :
       \/ AskArrives(n) \/ CreateSlot(n) \/ AskStep(n)
       \/ DeployInstance(n) \/ StopInstance(n) \/ CleanupWorkflow(n)
  \/ RespondRemoves \/ RespondSends

AskSpec == AskInit /\ [][AskNext]_askVars

-----------------------------------------------------------------------------
\* An approval ends with the default action only when it is overdue or its
\* workflow id was cleaned up, and with an answer only when an operator gave
\* that answer; a timeout that races with an answer cannot turn the answer
\* into the other one (node.rs:111-134).
VerdictHasCause ==
  \A i \in AskIds :
    /\ verdict[i] \in Answers => i \in told \cup late /\ answer[i] = verdict[i]
    /\ verdict[i] \in Defaults => i \in overdue \/ \E n \in Instances : life[n] = "gone"

\* The operator who was told Ok sees the answer taken, except when it arrived
\* between the last look at the receiver and the end of the wait.
AnswersCount == \A i \in told : verdict[i] \in {"none", answer[i]}

\* With a timer every approval ends, whatever the operator, the
\* undeployment and a redeployment do (node.rs:108-115).
TimedApprovalEnds ==
  \A n \in Instances : asking[n] # 0 /\ setting.timer # "none" ~> asking[n] = 0

\* "The default action on timeout" (config.rs:7): nothing is approved by
\* default unless the approval timed out.
DefaultOnlyOnTimeout ==
  \A i \in AskIds : verdict[i] = "autoApprove" => i \in overdue

\* Verdicts and the answers of the operators correspond (human_loop).
ApprovalsSound ==
  /\ VerdictHasCause
  /\ AnswersCount
=============================================================================
