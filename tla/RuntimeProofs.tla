---------------------------- MODULE RuntimeProofs ----------------------------
(***************************************************************************)
(* Theorems about the parts of the workflow runtime that share no state:   *)
(* approvals, workflow variables, the pull path, the lane of the dispatch  *)
(* router, the outcomes of the I/O nodes and the records of a trace.  Each *)
(* part has its inductive invariant, one lemma per kind of step, and the   *)
(* theorem that its invariant holds for every value of the constants.      *)
(***************************************************************************)
EXTENDS WellFoundedInduction, HumanLoop, WorkflowVariables, DataPull, DispatchRouter, NodeIo,
        Telemetry, FiniteSetTheorems, TLAPS

\* What a queue has after one more, and after one less.
LEMMA Enqueued ==
  ASSUME NEW S, NEW s \in Seq(S), NEW e \in S
  PROVE  /\ Append(s, e) \in Seq(S) /\ Len(Append(s, e)) = Len(s) + 1
         /\ \A i \in 1..Len(s) : Append(s, e)[i] = s[i]
         /\ Append(s, e)[Len(s) + 1] = e
  OBVIOUS

\* The first is gone, the others move up.
LEMMA Dequeued ==
  ASSUME NEW S, NEW s \in Seq(S), s # <<>>
  PROVE  /\ Head(s) \in S /\ Tail(s) \in Seq(S) /\ Len(s) \in Nat /\ Len(s) > 0
         /\ Head(s) = s[1] /\ Len(Tail(s)) = Len(s) - 1
         /\ \A i \in 1..Len(s) - 1 : Tail(s)[i] = s[i + 1]
  OBVIOUS

(***************************************************************************)
(* Approvals (HumanLoop).                                                  *)
(***************************************************************************)
AskTypes ==
  /\ life \in [Instances -> {"absent", "running", "stopped", "gone"}]
  /\ setting \in [timer : {"none", "approval", "stage"}, default : Defaults]
  /\ asking \in [Instances -> AskIds \cup {0}] /\ expiring \subseteq Instances
  /\ slots \subseteq [id : AskIds, owner : Instances]
  /\ answering \subseteq [id : AskIds, action : Answers]
  /\ answer \in [AskIds -> {"unborn", Open} \cup Answers]
  /\ verdict \in [AskIds -> {"none", "stageTimeout"} \cup Answers \cup Defaults]
  /\ told \subseteq AskIds /\ late \subseteq AskIds

\* The sender of an approval is in one place only, and has sent nothing yet.
OneSender ==
  /\ \A s, t \in slots : s.id = t.id => s = t
  /\ \A a, b \in answering : a.id = b.id => a = b
  /\ \A s \in slots, a \in answering : s.id # a.id
  /\ \A s \in slots : answer[s.id] = Open
  /\ \A a \in answering : answer[a.id] = Open

\* A task asks for an approval of its own, which has been created and has not
\* ended; when its sender is gone, the workflow has been undeployed.
Asked ==
  /\ \A n, m \in Instances : asking[n] # 0 /\ asking[n] = asking[m] => n = m
  /\ \A n \in Instances : asking[n] # 0 =>
       /\ answer[asking[n]] # "unborn" /\ verdict[asking[n]] = "none"
       /\ answer[asking[n]] = Open /\ ~SenderAlive(asking[n]) =>
            \E m \in Instances : life[m] = "gone"
  /\ \A i \in AskIds : answer[i] = "unborn" => verdict[i] = "none"

\* Whose timer has run out was not answered before.
Expiring ==
  \A n \in expiring :
    /\ asking[n] # 0 /\ asking[n] \notin told
    /\ setting.timer = "approval" => asking[n] \in overdue

\* Who was told Ok has left the answer with the receiver.
Told == \A i \in AskIds : i \in told \cup late <=> answer[i] \in Answers

AskInv == AskTypes /\ OneSender /\ Asked /\ Expiring /\ Told /\ ApprovalsSound

\* Nobody has asked yet.
LEMMA AskInitOk == AskInit => AskInv
<1> SUFFICES ASSUME AskInit PROVE AskInv
  OBVIOUS
<1>1. AskTypes
  BY DEF AskInit, AskTypes
<1>2. OneSender /\ Asked /\ Expiring
  BY DEF AskInit, OneSender, Asked, Expiring
<1>3. Told /\ ApprovalsSound
  BY DEF AskInit, Told, ApprovalsSound, VerdictHasCause, AnswersCount, Answers, Defaults
<1> QED BY <1>1, <1>2, <1>3 DEF AskInv

\* The strings are different ones.
LEMMA AskWords ==
  /\ Open \notin Answers /\ "unborn" \notin Answers /\ Open # "unborn"
  /\ "none" \notin Answers /\ "none" \notin Defaults /\ "stageTimeout" \notin Answers
  /\ "stageTimeout" \notin Defaults /\ Answers \cap Defaults = {}
  BY DEF Open, Answers, Defaults

\* An approval ends: with an answer that was given, with the default action
\* when it is overdue or undeployed, or with the stage timeout.
LEMMA DecideKeeps ==
  ASSUME AskInv, NEW n \in Instances, asking[n] # 0, NEW v, Decide(n, v),
         v \in {"stageTimeout"} \cup Answers \cup Defaults,
         v \in Answers => answer[asking[n]] = v,
         v \in Defaults => asking[n] \in overdue \/ \E m \in Instances : life[m] = "gone",
         asking[n] \in told => v = answer[asking[n]],
         UNCHANGED <<life, setting, waiting, slots, answering, answer, told, late, overdue>>
  PROVE  AskInv'
<1> DEFINE i == asking[n]
<1>0. i \in AskIds /\ 0 \notin AskIds /\ AskTypes
  BY HumanLoopAssumption DEF AskInv, AskTypes
<1>1. /\ verdict' = [verdict EXCEPT ![i] = v] /\ asking' = [asking EXCEPT ![n] = 0]
      /\ expiring' = expiring \ {n}
  BY DEF Decide
<1>2. /\ \A m \in Instances : asking'[m] = IF m = n THEN 0 ELSE asking[m]
      /\ \A j \in AskIds : verdict'[j] = IF j = i THEN v ELSE verdict[j]
  BY <1>0, <1>1 DEF AskTypes
<1>3. AskTypes'
  BY <1>0, <1>1 DEF AskTypes
<1>4. OneSender' /\ Told'
  BY DEF AskInv, OneSender, Told
<1>5. Asked'
  <2>1. \A m \in Instances : asking'[m] # 0 => asking'[m] = asking[m] /\ asking[m] # i /\ asking[m] \in AskIds
    BY <1>0, <1>2 DEF AskInv, Asked, AskTypes
  <2>2. \A j \in AskIds : SenderAlive(j)' <=> SenderAlive(j)
    BY DEF SenderAlive
  <2>3. \A j \in AskIds : answer'[j] = "unborn" => verdict'[j] = "none"
    BY <1>0, <1>2 DEF AskInv, Asked
  <2> QED BY <1>2, <2>1, <2>2, <2>3 DEF AskInv, Asked
<1>6. Expiring'
  BY <1>1, <1>2 DEF AskInv, Expiring, AskTypes
<1>7. ApprovalsSound'
  <2>1. VerdictHasCause'
    <3> SUFFICES ASSUME NEW j \in AskIds
                 PROVE  /\ verdict'[j] \in Answers => j \in told \cup late /\ answer[j] = verdict'[j]
                        /\ verdict'[j] \in Defaults => j \in overdue \/ \E m \in Instances : life[m] = "gone"
      BY DEF VerdictHasCause
    <3>1. CASE j = i
      BY <1>2, <3>1 DEF AskInv, Told
    <3>2. CASE j # i
      BY <1>2, <3>2 DEF AskInv, ApprovalsSound, VerdictHasCause
    <3> QED BY <3>1, <3>2
  <2>2. AnswersCount'
    BY <1>0, <1>2 DEF AskInv, ApprovalsSound, AnswersCount, AskTypes
  <2> QED BY <2>1, <2>2 DEF ApprovalsSound
<1> QED BY <1>3, <1>4, <1>5, <1>6, <1>7 DEF AskInv

\* Every step of a node, of an operator and of the undeployment keeps the invariant.
LEMMA AskStepOk ==
  ASSUME AskInv, [AskNext]_askVars
  PROVE  AskInv'
<1>0. 0 \notin AskIds
  BY HumanLoopAssumption
<1>1. ASSUME NEW n \in Instances, AskArrives(n)
      PROVE  AskInv'
  BY <1>1 DEF AskArrives, AskInv, AskTypes, OneSender, Asked, SenderAlive, Expiring, Told,
              ApprovalsSound, VerdictHasCause, AnswersCount
<1>2. ASSUME NEW n \in Instances, CreateSlot(n)
      PROVE  AskInv'
  <2>1. PICK i \in NextId : /\ asking' = [asking EXCEPT ![n] = i]
                            /\ answer' = [answer EXCEPT ![i] = Open]
                            /\ slots' = slots \cup {[id |-> i, owner |-> n]}
    BY <1>2 DEF CreateSlot
  <2>2. i \in AskIds /\ answer[i] = "unborn" /\ i # 0
    BY <1>0, <2>1 DEF NextId, Used
  <2>3. /\ asking[n] = 0
        /\ UNCHANGED <<life, setting, expiring, answering, told, late, verdict, overdue>>
    BY <1>2 DEF CreateSlot
  <2>4. /\ \A m \in Instances : asking'[m] = IF m = n THEN i ELSE asking[m]
        /\ \A j \in AskIds : answer'[j] = IF j = i THEN Open ELSE answer[j]
    BY <2>1 DEF AskInv, AskTypes
  <2>5. AskTypes'
    BY <2>1, <2>2, <2>3 DEF AskInv, AskTypes
  <2>6. /\ \A s \in slots : s.id # i /\ s.id \in AskIds
        /\ \A a \in answering : a.id # i /\ a.id \in AskIds
        /\ \A m \in Instances : asking[m] # i
    BY <2>2, AskWords DEF AskInv, OneSender, Asked, AskTypes
  <2>7. OneSender'
    <3>1. \A s \in slots' : s \in slots \/ s = [id |-> i, owner |-> n]
      BY <2>1
    <3>2. \A s, t \in slots' : s.id = t.id => s = t
      BY <2>6, <3>1 DEF AskInv, OneSender
    <3>3. \A s \in slots', a \in answering' : s.id # a.id
      BY <2>3, <2>6, <3>1 DEF AskInv, OneSender
    <3>4. \A s \in slots' : answer'[s.id] = Open
      BY <2>2, <2>4, <2>6, <3>1 DEF AskInv, OneSender
    <3>5. \A a \in answering' : answer'[a.id] = Open
      BY <2>3, <2>4, <2>6 DEF AskInv, OneSender
    <3> QED BY <2>3, <3>2, <3>3, <3>4, <3>5 DEF AskInv, OneSender
  <2>8. Asked'
    <3>1. \A m \in Instances : m # n /\ asking[m] # 0 =>
            asking[m] \in AskIds /\ answer'[asking[m]] = answer[asking[m]]
      BY <2>4, <2>6 DEF AskInv, AskTypes
    <3>2. SenderAlive(i)'
      <4>1. [id |-> i, owner |-> n] \in slots'
        BY <2>1
      <4> QED BY <4>1 DEF SenderAlive
    <3>4. \A m, k \in Instances : asking'[m] # 0 /\ asking'[m] = asking'[k] => m = k
      BY <2>4, <2>6 DEF AskInv, Asked
    <3>5. \A j \in AskIds : answer'[j] = "unborn" => verdict'[j] = "none"
      BY <2>3, <2>4, AskWords DEF AskInv, Asked
    <3>6. ASSUME NEW m \in Instances, asking'[m] # 0
          PROVE  /\ answer'[asking'[m]] # "unborn" /\ verdict'[asking'[m]] = "none"
                 /\ answer'[asking'[m]] = Open /\ ~SenderAlive(asking[m])' =>
                      \E k \in Instances : life'[k] = "gone"
      <4>1. CASE m = n
        <5>1. asking'[m] = i /\ answer'[i] = Open /\ verdict'[i] = "none"
          BY <2>2, <2>3, <2>4, <4>1 DEF AskInv, Asked
        <5>2. SenderAlive(asking[m])'
          BY <3>2, <5>1 DEF SenderAlive
        <5> QED BY <5>1, <5>2, AskWords
      <4>2. CASE m # n
        <5>1. asking'[m] = asking[m] /\ answer'[asking[m]] = answer[asking[m]] /\ asking[m] \in AskIds
          BY <2>4, <3>1, <3>6, <4>2
        <5>2. SenderAlive(asking[m]) => SenderAlive(asking[m])'
          BY <2>1, <2>3, <5>1 DEF SenderAlive
        <5> QED BY <2>3, <3>6, <5>1, <5>2 DEF AskInv, Asked
      <4> QED BY <4>1, <4>2
    <3> QED BY <3>4, <3>5, <3>6 DEF Asked
  <2>9. Expiring'
    BY <2>3, <2>4 DEF AskInv, Expiring, AskTypes
  <2>10. Told'
    BY <2>2, <2>3, <2>4, AskWords DEF AskInv, Told
  <2>11. ApprovalsSound'
    <3>1. verdict[i] = "none" /\ verdict' = verdict /\ told' = told /\ late' = late
          /\ overdue' = overdue /\ life' = life
      BY <2>2, <2>3 DEF AskInv, Asked
    <3>2. VerdictHasCause'
      BY <2>4, <3>1, AskWords DEF AskInv, ApprovalsSound, VerdictHasCause
    <3>3. AnswersCount'
      <4> SUFFICES ASSUME NEW j \in told PROVE verdict[j] \in {"none", answer'[j]}
        BY <3>1 DEF AnswersCount
      <4>1. j \in AskIds /\ verdict[j] \in {"none", answer[j]}
        BY DEF AskInv, AskTypes, ApprovalsSound, AnswersCount
      <4> QED BY <2>4, <3>1, <4>1
    <3> QED BY <3>2, <3>3 DEF ApprovalsSound
  <2> QED BY <2>5, <2>7, <2>8, <2>9, <2>10, <2>11 DEF AskInv
<1>3. ASSUME NEW n \in Instances, HandleResponse(n)
      PROVE  AskInv'
  <2>1. /\ asking[n] # 0 /\ answer[asking[n]] \in Answers /\ Decide(n, answer[asking[n]])
        /\ UNCHANGED <<life, setting, waiting, slots, answering, answer, told, late, overdue>>
    BY <1>3 DEF HandleResponse
  <2> QED BY <2>1, AskWords, DecideKeeps
<1>4. ASSUME NEW n \in Instances, ResponderClosed(n)
      PROVE  AskInv'
  <2>1. /\ asking[n] # 0 /\ answer[asking[n]] = Open /\ ~SenderAlive(asking[n])
        /\ Decide(n, setting.default)
        /\ UNCHANGED <<life, setting, waiting, slots, answering, answer, told, late, overdue>>
    BY <1>4 DEF ResponderClosed
  <2>2. setting.default \in Defaults /\ asking[n] \in AskIds
    BY <2>1 DEF AskInv, AskTypes
  <2>3. (\E m \in Instances : life[m] = "gone") /\ asking[n] \notin told
    BY <2>1, <2>2, AskWords DEF AskInv, Asked, Told
  <2> QED BY <2>1, <2>2, <2>3, AskWords, DecideKeeps
<1>5. ASSUME NEW n \in Instances, TimerElapses(n)
      PROVE  AskInv'
  <2>1. /\ asking[n] # 0 /\ answer[asking[n]] = Open /\ expiring' = expiring \cup {n}
        /\ overdue' = IF setting.timer = "approval" THEN overdue \cup {asking[n]} ELSE overdue
        /\ UNCHANGED <<life, setting, waiting, asking, slots, answering, answer, told, late, verdict>>
    BY <1>5 DEF TimerElapses
  <2>2. asking[n] \in AskIds
    BY <2>1 DEF AskInv, AskTypes
  <2>3. Expiring'
    BY <2>1, <2>2, AskWords DEF AskInv, Expiring, Told
  <2>4. AskTypes' /\ OneSender' /\ Asked' /\ Told'
    BY <2>1 DEF AskInv, AskTypes, OneSender, Asked, SenderAlive, Told
  <2>5. ApprovalsSound'
    BY <2>1 DEF AskInv, ApprovalsSound, VerdictHasCause, AnswersCount
  <2> QED BY <2>3, <2>4, <2>5 DEF AskInv
<1>6. ASSUME NEW n \in Instances, HandleTimeout(n)
      PROVE  AskInv'
  <2> DEFINE v == IF setting.timer = "approval" THEN setting.default ELSE "stageTimeout"
  <2>1. /\ n \in expiring /\ Decide(n, v)
        /\ UNCHANGED <<life, setting, waiting, slots, answering, answer, told, late, overdue>>
    BY <1>6 DEF HandleTimeout
  <2>2. /\ asking[n] # 0 /\ asking[n] \notin told
        /\ setting.timer = "approval" => asking[n] \in overdue
    BY <2>1 DEF AskInv, Expiring
  <2>3. setting.default \in Defaults
    BY DEF AskInv, AskTypes
  <2>4. v \in {"stageTimeout"} \cup Defaults /\ (v \in Defaults => asking[n] \in overdue)
    BY <2>2, <2>3, AskWords
  <2> HIDE DEF v
  <2> QED BY <2>1, <2>2, <2>4, AskWords, DecideKeeps
<1>7. ASSUME RespondRemoves
      PROVE  AskInv'
  <2>1. PICK s \in slots, a \in Answers :
          /\ slots' = slots \ {s} /\ answering' = answering \cup {[id |-> s.id, action |-> a]}
    BY <1>7 DEF RespondRemoves
  <2>2. UNCHANGED <<life, setting, waiting, asking, expiring, answer, told, late, verdict, overdue>>
    BY <1>7 DEF RespondRemoves
  <2>3. s.id \in AskIds /\ AskTypes'
    BY <2>1, <2>2 DEF AskInv, AskTypes
  <2>4. OneSender'
    BY <2>1, <2>2 DEF AskInv, OneSender
  <2>5. \A i \in AskIds : SenderAlive(i) => SenderAlive(i)'
    <3> SUFFICES ASSUME NEW i \in AskIds, SenderAlive(i) PROVE SenderAlive(i)'
      OBVIOUS
    <3>1. CASE i = s.id
      <4>1. [id |-> s.id, action |-> a] \in answering'
        BY <2>1
      <4> QED BY <3>1, <4>1 DEF SenderAlive
    <3>2. CASE i # s.id
      BY <2>1, <3>2 DEF SenderAlive
    <3> QED BY <3>1, <3>2
  <2>6. Asked'
    BY <2>2, <2>5 DEF AskInv, AskTypes, Asked
  <2>7. Expiring' /\ Told' /\ ApprovalsSound'
    BY <2>2 DEF AskInv, Expiring, Told, ApprovalsSound, VerdictHasCause, AnswersCount
  <2> QED BY <2>3, <2>4, <2>6, <2>7 DEF AskInv
<1>8. ASSUME RespondSends
      PROVE  AskInv'
  <2>1. PICK a \in answering :
          /\ answering' = answering \ {a}
          /\ IF \E n \in Instances : asking[n] = a.id
             THEN /\ answer' = [answer EXCEPT ![a.id] = a.action]
                  /\ IF \E n \in expiring : asking[n] = a.id
                     THEN late' = late \cup {a.id} /\ UNCHANGED told
                     ELSE told' = told \cup {a.id} /\ UNCHANGED late
             ELSE UNCHANGED <<answer, told, late>>
    BY <1>8 DEF RespondSends
  <2>2. UNCHANGED <<life, setting, waiting, asking, expiring, slots, verdict, overdue>>
    BY <1>8 DEF RespondSends
  <2>3. a.id \in AskIds /\ a.action \in Answers /\ answer[a.id] = Open
    BY DEF AskInv, AskTypes, OneSender
  <2>4. \A j \in AskIds : j # a.id => (SenderAlive(j)' <=> SenderAlive(j))
    BY <2>1, <2>2 DEF SenderAlive
  <2>5. CASE \E n \in Instances : asking[n] = a.id
    <3>1. PICK n \in Instances : asking[n] = a.id
      BY <2>5
    <3>2. verdict[a.id] = "none"
      BY <1>0, <2>3, <3>1 DEF AskInv, Asked
    <3>3. \A j \in AskIds : answer'[j] = IF j = a.id THEN a.action ELSE answer[j]
      BY <2>1, <2>5 DEF AskInv, AskTypes
    <3>4. AskTypes'
      BY <2>1, <2>2, <2>3, <2>5 DEF AskInv, AskTypes
    <3>5. OneSender'
      BY <2>1, <2>2, <3>3 DEF AskInv, OneSender, AskTypes
    <3>6. Asked'
      <4>1. \A m \in Instances : asking[m] # 0 => asking[m] \in AskIds
        BY DEF AskInv, AskTypes
      <4> QED BY <2>2, <2>3, <2>4, <3>3, <4>1, AskWords DEF AskInv, Asked
    <3>7. told' \cup late' = told \cup late \cup {a.id}
      BY <2>1, <2>5
    <3>8. Told'
      BY <2>3, <3>3, <3>7 DEF AskInv, Told
    <3>9. Expiring'
      BY <2>1, <2>2, <2>5 DEF AskInv, Expiring
    <3>10. VerdictHasCause'
      BY <2>2, <3>2, <3>3, <3>7, AskWords DEF AskInv, ApprovalsSound, VerdictHasCause
    <3>11. AnswersCount'
      <4>1. told' \subseteq told \cup {a.id}
        BY <2>1, <2>5
      <4>2. \A i \in told : i \in told' => verdict[i] \in {"none", answer[i]}
        BY DEF AskInv, ApprovalsSound, AnswersCount
      <4> QED BY <2>1, <2>2, <2>3, <2>5, <3>2, <4>1, <4>2 DEF AnswersCount, AskInv, AskTypes
    <3> QED BY <3>4, <3>5, <3>6, <3>8, <3>9, <3>10, <3>11 DEF AskInv, ApprovalsSound
  <2>6. CASE ~ \E n \in Instances : asking[n] = a.id
    <3>1. UNCHANGED <<answer, told, late>>
      BY <2>1, <2>6
    <3>2. AskTypes' /\ OneSender'
      BY <2>1, <2>2, <3>1 DEF AskInv, AskTypes, OneSender
    <3>3. Asked'
      BY <2>2, <2>4, <2>6, <3>1 DEF AskInv, AskTypes, Asked
    <3>4. Expiring' /\ Told' /\ ApprovalsSound'
      BY <2>2, <3>1 DEF AskInv, Expiring, Told, ApprovalsSound, VerdictHasCause, AnswersCount
    <3> QED BY <3>2, <3>3, <3>4 DEF AskInv
  <2> QED BY <2>5, <2>6
<1>9. ASSUME NEW n \in Instances, DeployInstance(n) \/ StopInstance(n) \/ CleanupWorkflow(n)
      PROVE  AskInv'
  <2>1. UNCHANGED <<setting, waiting, asking, expiring, answering, answer, told, late, verdict, overdue>>
    BY <1>9 DEF DeployInstance, StopInstance, CleanupWorkflow
  <2>2. life' \in [Instances -> {"absent", "running", "stopped", "gone"}]
    BY <1>9 DEF DeployInstance, StopInstance, CleanupWorkflow, AskInv, AskTypes
  <2>3. \A m \in Instances : life[m] = "gone" => life'[m] = "gone"
    BY <1>9 DEF DeployInstance, StopInstance, CleanupWorkflow, AskInv, AskTypes
  <2>4. slots' = slots \/ (slots' = {} /\ life'[n] = "gone")
    BY <1>9 DEF DeployInstance, StopInstance, CleanupWorkflow, AskInv, AskTypes
  <2>5. AskTypes' /\ OneSender' /\ Expiring' /\ Told'
    BY <2>1, <2>2, <2>4 DEF AskInv, AskTypes, OneSender, Expiring, Told
  <2>6. Asked'
    BY <2>1, <2>3, <2>4 DEF AskInv, Asked, SenderAlive
  <2>7. ApprovalsSound'
    BY <2>1, <2>3 DEF AskInv, ApprovalsSound, VerdictHasCause, AnswersCount
  <2> QED BY <2>5, <2>6, <2>7 DEF AskInv
<1>10. CASE UNCHANGED askVars
  BY <1>10 DEF askVars, AskInv, AskTypes, OneSender, Asked, SenderAlive, Expiring, Told,
               ApprovalsSound, VerdictHasCause, AnswersCount
<1> QED BY <1>1, <1>2, <1>3, <1>4, <1>5, <1>6, <1>7, <1>8, <1>9, <1>10 DEF AskNext, AskStep

\* An approval ends with an answer somebody gave, or with the default action
\* when its time is over or its workflow is gone; an operator who was told Ok
\* while the node still waited has decided it (nodes-flow human_loop,
\* respond_human_loop): for any instances, ids and lengths of the queue.
THEOREM ApprovalsAreSound == AskSpec => []ApprovalsSound
<1>1. AskInv => ApprovalsSound
  BY DEF AskInv
<1> QED BY <1>1, AskInitOk, AskStepOk, PTL DEF AskSpec

(***************************************************************************)
(* Workflow variables (WorkflowVariables).                                 *)
(***************************************************************************)
VarEvents == VarValues \cup {Deleted}

VarTypes ==
  /\ declared \in Declarations /\ deployed \in BOOLEAN /\ lost \in BOOLEAN
  /\ entry \in [value : VarValues, initial : VarValues] \cup {NoEntry}
  /\ change \in VarEvents \cup {Unseen}
  /\ emitting \in [Writers -> VarEvents \cup {NoEvent}]
  /\ resetting \in [Writers -> VarValues \cup {NoValue}]
  /\ varQueue \in Seq(VarEvents) /\ varFinal \in Seq(VarEvents)
  /\ proxy \in VarEvents \cup {Selecting, SendingEvent}
  /\ storing \in VarEvents \cup {NoEvent}
  /\ persisted \in VarValues \cup {NoRow}
  /\ overrides \in VarValues \cup {NoRow, NotLoaded}

\* A reset under way will write the declared initial value,
\* and its writer has nothing else to do.
ResetsRight ==
  \A w \in Writers : resetting[w] # NoValue => resetting[w] = declared.initial /\ emitting[w] = NoEvent

\* Nothing is under way while the workflow is not deployed.
Quiet == ~deployed => NoOneEmits /\ ~InFlight /\ \A w \in Writers : resetting[w] = NoValue

\* The youngest event on the way from the channel to the database, or what
\* the database has when there is none.
Latest ==
  IF varQueue # <<>> THEN varQueue[Len(varQueue)]
  ELSE IF proxy \notin {Selecting, SendingEvent} THEN proxy
  ELSE IF varFinal # <<>> THEN varFinal[Len(varFinal)]
  ELSE IF storing # NoEvent THEN storing
  ELSE IF persisted = NoRow THEN Deleted ELSE persisted

\* While nothing is lost the youngest event is the last change:
\* the one a writer has still to emit, or the one under way.
YoungestIsSeen ==
  deployed /\ ~lost /\ change # Unseen =>
    IF NoOneEmits THEN Latest = change
    ELSE \A w \in Writers : emitting[w] \in {NoEvent, change}

\* What was changed last is what the entry holds.
ChangeIsEntry ==
  deployed => \/ change = Unseen
              \/ change = Deleted /\ entry = NoEntry
              \/ entry # NoEntry /\ change = entry.value

\* While nothing is lost no two writers have an event to emit.
OneEmits == ~lost => \A v, w \in Writers : emitting[v] # NoEvent /\ emitting[w] # NoEvent => v = w

VarInv ==
  /\ VarTypes /\ ResetsRight /\ Quiet /\ YoungestIsSeen /\ OneEmits
  /\ EntryMatchesDeclaration /\ ChangeIsEntry

\* Whoever has still to tell of a removal has removed the entry, and nobody
\* watches what is not deployed.
WatchInv ==
  /\ watch \in [Watchers -> VarEvents \cup {Away}]
  /\ \A w \in Writers : emitting[w] = Deleted => entry = NoEntry
  /\ ~deployed => Subscribed = {}
  /\ WatchFollowsEntry

\* The marks are no values, and different ones.
LEMMA Marks ==
  /\ {NoValue, NoEvent, NoRow, NotLoaded, Unseen, Deleted, Selecting, SendingEvent, Away} \cap VarValues = {}
  /\ Deleted \notin {NoEvent, NoRow, Unseen, Selecting, SendingEvent, Away}
  /\ NoRow # NotLoaded /\ Selecting # SendingEvent
  /\ NoEntry.value = NoValue
  BY WorkflowVariablesAssumption DEF NoValue, NoEvent, NoRow, NotLoaded, Unseen, Deleted,
     Selecting, SendingEvent, NoEntry, Away

\* So nothing that is declared or written is taken for a removed entry.
LEMMA EntryMarks == \A e \in [value : VarValues, initial : VarValues] : e # NoEntry
  BY Marks

\* The initial value of a declaration has its type.
LEMMA DeclarationTypes ==
  \A d \in Declarations : d.initial \in VarValues /\ TypeMatches(d.type, d.initial)
  BY DEF Declarations

\* The database is empty and nothing is deployed.
LEMMA VarInitOk == VarInit => VarInv
<1> SUFFICES ASSUME VarInit PROVE VarInv
  OBVIOUS
<1>0. PICK v \in IntValues : declared = [type |-> "int", initial |-> v]
  <2>0. \E v : v \in IntValues
    BY WorkflowVariablesAssumption
  <2>1. (CHOOSE v \in IntValues : TRUE) \in IntValues
    BY <2>0, Zenon
  <2> QED BY <2>1, Zenon DEF VarInit
<1>1. declared \in Declarations
  <2>1. v \in VarValues
    BY WorkflowVariablesAssumption
  <2>2. declared \in [type : {"int", "str"}, initial : VarValues]
    BY <1>0, <2>1
  <2>3. TypeMatches(declared.type, declared.initial)
    BY <1>0 DEF TypeMatches
  <2> QED BY <2>2, <2>3 DEF Declarations
<1>2. VarTypes
  <2>1. emitting \in [Writers -> VarEvents \cup {NoEvent}] /\ resetting \in [Writers -> VarValues \cup {NoValue}]
    BY DEF VarInit
  <2>2. varQueue \in Seq(VarEvents) /\ varFinal \in Seq(VarEvents)
    BY DEF VarInit
  <2> QED BY <1>1, <2>1, <2>2 DEF VarInit, VarTypes, VarEvents
<1>3. ~InFlight
  BY DEF VarInit, InFlight
<1>4. ResetsRight /\ Quiet /\ YoungestIsSeen /\ OneEmits
  BY <1>3 DEF VarInit, ResetsRight, Quiet, NoOneEmits, YoungestIsSeen, OneEmits
<1>5. EntryMatchesDeclaration /\ ChangeIsEntry
  BY DEF VarInit, EntryMatchesDeclaration, ChangeIsEntry
<1> QED BY <1>2, <1>4, <1>5 DEF VarInv

\* A write of a value of the declared type, by a writer with nothing to emit.
LEMMA WriteKeeps ==
  ASSUME VarInv, deployed, NEW w \in Writers, emitting[w] = NoEvent, entry # NoEntry,
         NEW v \in VarValues, TypeMatches(declared.type, v), WriteEntry(w, v),
         \/ resetting[w] = NoValue /\ resetting' = resetting
         \/ resetting' = [resetting EXCEPT ![w] = NoValue],
         UNCHANGED <<declared, deployed, varQueue, varFinal, proxy, storing, persisted, overrides>>
  PROVE  VarInv'
<1>0. VarTypes /\ entry \in [value : VarValues, initial : VarValues]
  BY DEF VarInv, VarTypes
<1>1. /\ entry' = [entry EXCEPT !.value = v]
      /\ entry' \in [value : VarValues, initial : VarValues]
      /\ entry'.value = v /\ entry'.initial = entry.initial /\ entry' # NoEntry
  BY <1>0, EntryMarks DEF WriteEntry
<1>2. /\ resetting' \in [Writers -> VarValues \cup {NoValue}]
      /\ \A x \in Writers : resetting'[x] = IF x = w THEN NoValue ELSE resetting[x]
  BY <1>0 DEF VarTypes
<1>3. EntryMatchesDeclaration'
  BY <1>1 DEF VarInv, EntryMatchesDeclaration
<1>4. Quiet'
  BY DEF Quiet
<1>5. CASE v = entry.value
  <2>1. UNCHANGED <<change, emitting, lost>> /\ entry' = entry
    BY <1>0, <1>1, <1>5 DEF WriteEntry
  <2>2. VarTypes' /\ OneEmits' /\ ChangeIsEntry'
    BY <1>0, <1>1, <1>2, <2>1 DEF VarTypes, VarInv, OneEmits, ChangeIsEntry
  <2>3. YoungestIsSeen'
    BY <2>1 DEF VarInv, YoungestIsSeen, NoOneEmits, Latest
  <2>4. ResetsRight'
    BY <1>2, <2>1 DEF VarInv, ResetsRight
  <2> QED BY <1>3, <1>4, <2>2, <2>3, <2>4 DEF VarInv
<1>6. CASE v # entry.value
  <2>1. change' = v /\ emitting' = [emitting EXCEPT ![w] = v] /\ lost' = (lost \/ ~NoOneEmits)
    BY <1>6 DEF WriteEntry
  <2>2. \A x \in Writers : emitting'[x] = IF x = w THEN v ELSE emitting[x]
    BY <1>0, <2>1 DEF VarTypes
  <2>3. VarTypes'
    BY <1>0, <1>1, <1>2, <2>1 DEF VarTypes, VarEvents
  <2>4. OneEmits'
    BY <2>1, <2>2 DEF OneEmits, NoOneEmits
  <2>5. YoungestIsSeen'
    BY <2>1, <2>2, Marks DEF YoungestIsSeen, NoOneEmits
  <2>6. ChangeIsEntry'
    BY <1>1, <2>1 DEF ChangeIsEntry
  <2>7. ResetsRight'
    BY <1>2, <2>2 DEF VarInv, ResetsRight
  <2> QED BY <1>3, <1>4, <2>3, <2>4, <2>5, <2>6, <2>7 DEF VarInv
<1> QED BY <1>5, <1>6

\* A hop of the pipeline that loses nothing keeps the youngest event.
LEMMA HopKeeps ==
  ASSUME VarInv, UNCHANGED <<declared, deployed, entry, change, emitting, resetting, overrides>>,
         deployed, lost' = TRUE \/ (lost' = lost /\ Latest' = Latest),
         varQueue' \in Seq(VarEvents), varFinal' \in Seq(VarEvents),
         proxy' \in VarEvents \cup {Selecting, SendingEvent},
         storing' \in VarEvents \cup {NoEvent}, persisted' \in VarValues \cup {NoRow}
  PROVE  VarInv'
<1>1. VarTypes' /\ ResetsRight' /\ EntryMatchesDeclaration' /\ ChangeIsEntry'
  BY DEF VarInv, VarTypes, ResetsRight, EntryMatchesDeclaration, ChangeIsEntry
<1>2. Quiet' /\ OneEmits'
  BY DEF VarInv, Quiet, OneEmits
<1>3. YoungestIsSeen'
  BY DEF VarInv, YoungestIsSeen, NoOneEmits
<1> QED BY <1>1, <1>2, <1>3 DEF VarInv

\* The first leaves the queue, the last stays.
LEMMA LastStays ==
  ASSUME NEW S, NEW s \in Seq(S), s # <<>>
  PROVE  /\ Head(s) \in S /\ Tail(s) \in Seq(S)
         /\ Tail(s) = <<>> => s[Len(s)] = Head(s)
         /\ Tail(s) # <<>> => Tail(s)[Len(Tail(s))] = s[Len(s)]
<1> DEFINE t == Tail(s)
<1>1. /\ Head(s) \in S /\ t \in Seq(S) /\ Len(s) \in Nat /\ Len(s) > 0
      /\ Head(s) = s[1] /\ Len(t) = Len(s) - 1
      /\ \A i \in 1..Len(s) - 1 : t[i] = s[i + 1]
  BY Dequeued
<1> HIDE DEF t
<1>2. ASSUME t = <<>> PROVE s[Len(s)] = Head(s)
  <2>1. Len(t) = 0
    BY <1>2
  <2> QED BY <1>1, <2>1
<1>3. ASSUME t # <<>> PROVE t[Len(t)] = s[Len(s)]
  <2>1. Len(t) \in 1..Len(s) - 1
    BY <1>1, <1>3
  <2> QED BY <1>1, <2>1
<1> QED BY <1>1, <1>2, <1>3 DEF t
\* What is appended is the last.
LEMMA LastAppended ==
  ASSUME NEW S, NEW s \in Seq(S), NEW e \in S
  PROVE  /\ Append(s, e) \in Seq(S) /\ Append(s, e) # <<>>
         /\ Append(s, e)[Len(Append(s, e))] = e
  OBVIOUS

\* The proxy and the forwarders.
LEMMA PipeKeeps ==
  ASSUME VarInv, ProxyStep \/ ProxyTakesVariable \/ ForwarderStep
  PROVE  VarInv'
<1>0. VarTypes
  BY DEF VarInv
<1>1. CASE ProxyTakesEvent
  <2>1. Latest' = Latest
    BY <1>1, Marks DEF ProxyTakesEvent, heldVars, Latest
  <2> QED BY <1>0, <1>1, <2>1, HopKeeps DEF ProxyTakesEvent, heldVars, VarTypes
<1>2. CASE ProxyTakesVariable
  <2>1. /\ Head(varQueue) \in VarEvents /\ Tail(varQueue) \in Seq(VarEvents)
        /\ Tail(varQueue) = <<>> => varQueue[Len(varQueue)] = Head(varQueue)
        /\ Tail(varQueue) # <<>> => Tail(varQueue)[Len(Tail(varQueue))] = varQueue[Len(varQueue)]
    BY <1>0, <1>2, LastStays DEF ProxyTakesVariable, heldVars, VarTypes
  <2>2. Head(varQueue) \notin {Selecting, SendingEvent}
    BY <2>1, Marks DEF VarEvents
  <2>3. Latest' = Latest
    BY <1>2, <2>1, <2>2 DEF ProxyTakesVariable, heldVars, Latest
  <2> QED BY <1>0, <1>2, <2>1, <2>3, HopKeeps DEF ProxyTakesVariable, heldVars, VarTypes
<1>3. CASE ProxySends
  <2>1. CASE proxy = SendingEvent /\ varFinal' = varFinal
    <3>1. Latest' = Latest
      BY <1>3, <2>1 DEF ProxySends, heldVars, Latest
    <3> QED BY <1>0, <1>3, <2>1, <3>1, HopKeeps DEF ProxySends, heldVars, VarTypes
  <2>2. CASE proxy \notin {Selecting, SendingEvent} /\ varFinal' = Append(varFinal, proxy)
    <3>1. /\ proxy \in VarEvents /\ varFinal' \in Seq(VarEvents) /\ varFinal' # <<>>
          /\ varFinal'[Len(varFinal')] = proxy
      BY <1>0, <2>2, LastAppended DEF VarTypes
    <3>2. Latest' = Latest
      BY <1>3, <2>2, <3>1 DEF ProxySends, heldVars, Latest
    <3> QED BY <1>0, <1>3, <2>2, <3>1, <3>2, HopKeeps DEF ProxySends, heldVars, VarTypes
  <2> QED BY <1>3, <2>1, <2>2 DEF ProxySends, heldVars
<1>4. CASE ForwardEvent
  <2>1. Latest' = Latest
    BY <1>4 DEF ForwardEvent, heldVars, Latest
  <2> QED BY <1>0, <1>4, <2>1, HopKeeps DEF ForwardEvent, heldVars, VarTypes
<1>5. CASE ForwardVariable
  <2>1. /\ Head(varFinal) \in VarEvents /\ Tail(varFinal) \in Seq(VarEvents)
        /\ Tail(varFinal) = <<>> => varFinal[Len(varFinal)] = Head(varFinal)
        /\ Tail(varFinal) # <<>> => Tail(varFinal)[Len(Tail(varFinal))] = varFinal[Len(varFinal)]
    BY <1>0, <1>5, LastStays DEF ForwardVariable, heldVars, VarTypes
  <2>2. Head(varFinal) # NoEvent
    BY <2>1, Marks DEF VarEvents
  <2>3. Latest' = Latest
    BY <1>5, <2>1, <2>2 DEF ForwardVariable, heldVars, Latest
  <2> QED BY <1>0, <1>5, <2>1, <2>3, HopKeeps DEF ForwardVariable, heldVars, VarTypes
<1>6. CASE StoreVariable
  <2>1. storing \in VarEvents
    BY <1>0, <1>6 DEF StoreVariable, heldVars, VarTypes
  <2>2. CASE lost' = TRUE /\ persisted' = persisted
    BY <1>0, <1>6, <2>2, HopKeeps DEF StoreVariable, heldVars, VarTypes
  <2>3. CASE lost' = lost /\ persisted' = (IF storing = Deleted THEN NoRow ELSE storing)
    <3>1. Latest' = Latest
      BY <1>6, <2>1, <2>3, Marks DEF StoreVariable, heldVars, Latest, VarEvents
    <3>2. persisted' \in VarValues \cup {NoRow}
      BY <2>1, <2>3 DEF VarEvents
    <3> QED BY <1>0, <1>6, <2>3, <3>1, <3>2, HopKeeps DEF StoreVariable, heldVars, VarTypes
  <2> QED BY <1>6, <2>2, <2>3 DEF StoreVariable, heldVars
<1> QED BY <1>1, <1>2, <1>3, <1>4, <1>5, <1>6 DEF ProxyStep, ForwarderStep

\* Every write, hop, undeployment and deployment keeps the invariant.
LEMMA VarStepOk ==
  ASSUME VarInv, [VarNext]_varVars
  PROVE  VarInv'
<1>0. VarTypes /\ declared.initial \in VarValues /\ TypeMatches(declared.type, declared.initial)
  BY DeclarationTypes DEF VarInv, VarTypes
<1>1. ASSUME NEW w \in Writers, SetVariable(w) \/ CompareAndSwap(w)
      PROVE  VarInv'
  <2>1. /\ deployed /\ emitting[w] = NoEvent /\ resetting[w] = NoValue /\ entry # NoEntry
        /\ \E v \in VarValues : TypeMatches(declared.type, v) /\ WriteEntry(w, v)
        /\ UNCHANGED <<declared, deployed, resetting, varQueue, varFinal, proxy, storing, persisted, overrides>>
    BY <1>1 DEF SetVariable, CompareAndSwap, Free, pipeVars
  <2> QED BY <2>1, WriteKeeps
<1>2. ASSUME NEW w \in Writers, EmitVariableEvent(w)
      PROVE  VarInv'
  <2>0. deployed
    BY <1>2 DEF EmitVariableEvent, Emits, VarInv, Quiet, NoOneEmits
  <2>1. /\ emitting[w] \in VarEvents /\ emitting' = [emitting EXCEPT ![w] = NoEvent]
        /\ UNCHANGED <<declared, deployed, entry, change, resetting, varFinal, proxy, storing,
                       persisted, overrides>>
    BY <1>0, <1>2 DEF EmitVariableEvent, Emits, VarTypes
  <2>2. \A x \in Writers : emitting'[x] = IF x = w THEN NoEvent ELSE emitting[x]
    BY <1>0, <2>1 DEF VarTypes
  <2>3. ResetsRight' /\ EntryMatchesDeclaration' /\ ChangeIsEntry' /\ Quiet'
    BY <2>0, <2>1, <2>2 DEF VarInv, ResetsRight, EntryMatchesDeclaration, ChangeIsEntry, Quiet
  <2>4. CASE varQueue' = Append(varQueue, emitting[w]) /\ lost' = lost
    <3>1. /\ varQueue' \in Seq(VarEvents) /\ varQueue' # <<>>
          /\ varQueue'[Len(varQueue')] = emitting[w]
      BY <1>0, <2>1, <2>4, LastAppended DEF VarTypes
    <3>2. VarTypes'
      BY <1>0, <2>1, <2>4, <3>1 DEF VarTypes
    <3>3. OneEmits'
      BY <2>2, <2>4 DEF VarInv, OneEmits
    <3>4. ASSUME ~lost, change # Unseen PROVE NoOneEmits' /\ Latest' = change
      <4>1. emitting[w] # NoEvent
        BY <1>2 DEF EmitVariableEvent, Emits
      <4>2. emitting[w] = change /\ \A x \in Writers : x # w => emitting[x] = NoEvent
        BY <2>0, <3>4, <4>1 DEF VarInv, YoungestIsSeen, OneEmits, NoOneEmits
      <4> QED BY <2>2, <3>1, <4>2 DEF NoOneEmits, Latest
    <3>5. YoungestIsSeen'
      BY <2>1, <2>4, <3>4 DEF YoungestIsSeen
    <3> QED BY <2>3, <3>2, <3>3, <3>5 DEF VarInv
  <2>5. CASE lost' = TRUE /\ varQueue' = varQueue
    <3>1. VarTypes'
      BY <1>0, <2>1, <2>5 DEF VarTypes
    <3> QED BY <2>3, <2>5, <3>1 DEF VarInv, OneEmits, YoungestIsSeen
  <2> QED BY <1>2, <2>4, <2>5 DEF EmitVariableEvent, Emits
<1>3. ASSUME NEW w \in IpcCommands, ResetRead(w)
      PROVE  VarInv'
  <2>1. /\ deployed /\ entry # NoEntry /\ emitting[w] = NoEvent
        /\ resetting' = [resetting EXCEPT ![w] = entry.initial]
        /\ UNCHANGED <<declared, deployed, entry, change, emitting, varQueue, varFinal, proxy, storing,
                       persisted, overrides, lost>>
    BY <1>3 DEF ResetRead, Free, pipeVars
  <2>2. entry.initial = declared.initial
    BY <2>1 DEF VarInv, EntryMatchesDeclaration
  <2>3. VarTypes' /\ ResetsRight'
    BY <1>0, <2>1, <2>2 DEF VarInv, VarTypes, ResetsRight
  <2> QED BY <2>1, <2>3 DEF VarInv, Quiet, YoungestIsSeen, NoOneEmits, Latest, OneEmits,
             EntryMatchesDeclaration, ChangeIsEntry
<1>4. ASSUME NEW w \in IpcCommands, ResetWrite(w)
      PROVE  VarInv'
  <2>0. w \in Writers
    BY DEF Writers
  <2>1. /\ deployed /\ resetting[w] = declared.initial /\ emitting[w] = NoEvent
        /\ resetting' = [resetting EXCEPT ![w] = NoValue]
        /\ UNCHANGED <<declared, deployed, varQueue, varFinal, proxy, storing, persisted, overrides>>
    BY <1>4, <2>0 DEF ResetWrite, pipeVars, VarInv, ResetsRight
  <2>2. CASE entry = NoEntry
    <3>1. UNCHANGED <<entry, change, emitting, lost>>
      BY <1>4, <2>2 DEF ResetWrite, pipeVars
    <3>2. VarTypes' /\ ResetsRight'
      BY <1>0, <2>1, <3>1 DEF VarInv, VarTypes, ResetsRight
    <3> QED BY <2>1, <3>1, <3>2 DEF VarInv, Quiet, YoungestIsSeen, NoOneEmits, Latest, OneEmits,
               EntryMatchesDeclaration, ChangeIsEntry
  <2>3. CASE entry # NoEntry
    <3>1. WriteEntry(w, declared.initial)
      BY <1>4, <2>1, <2>3 DEF ResetWrite, pipeVars
    <3> QED BY <1>0, <2>0, <2>1, <2>3, <3>1, WriteKeeps
  <2> QED BY <2>2, <2>3
<1>5. ASSUME NEW w \in IpcCommands, RemoveVariable(w)
      PROVE  VarInv'
  <2>0. w \in Writers
    BY DEF Writers
  <2>1. /\ deployed /\ entry' = NoEntry /\ change' = Deleted /\ resetting[w] = NoValue
        /\ emitting' = [emitting EXCEPT ![w] = Deleted]
        /\ lost' = (lost \/ ~NoOneEmits)
        /\ UNCHANGED <<declared, deployed, resetting, varQueue, varFinal, proxy, storing, persisted,
                       overrides>>
    BY <1>5 DEF RemoveVariable, Free, pipeVars
  <2>2. \A x \in Writers : emitting'[x] = IF x = w THEN Deleted ELSE emitting[x]
    BY <1>0, <2>1 DEF VarTypes
  <2>3. VarTypes'
    BY <1>0, <2>1 DEF VarTypes, VarEvents
  <2>4. OneEmits'
    BY <2>1, <2>2 DEF OneEmits, NoOneEmits
  <2>5. YoungestIsSeen'
    <3>1. ~NoOneEmits'
      BY <2>0, <2>2, Marks DEF NoOneEmits
    <3>2. ~lost' => \A x \in Writers : emitting'[x] \in {NoEvent, Deleted}
      BY <2>1, <2>2 DEF NoOneEmits
    <3> QED BY <2>1, <3>1, <3>2 DEF YoungestIsSeen
  <2>6. ResetsRight' /\ Quiet'
    BY <2>1, <2>2 DEF VarInv, ResetsRight, Quiet
  <2> QED BY <2>1, <2>3, <2>4, <2>5, <2>6 DEF VarInv, EntryMatchesDeclaration, ChangeIsEntry
<1>6. CASE ProxyStep \/ ProxyTakesVariable \/ ForwarderStep
  BY <1>6, PipeKeeps
<1>7. CASE ShutdownRuntime
  <2>1. /\ ~deployed' /\ resetting' = [x \in Writers |-> NoValue]
        /\ emitting' = [x \in Writers |-> NoEvent] /\ entry' = NoEntry /\ change' = Unseen
        /\ varQueue' = <<>> /\ varFinal' = <<>> /\ proxy' = Selecting /\ storing' = NoEvent
        /\ lost' \in BOOLEAN /\ UNCHANGED <<declared, persisted, overrides>>
    BY <1>0, <1>7 DEF ShutdownRuntime, Drained, VarTypes
  <2>2. ~InFlight'
    BY <2>1 DEF InFlight
  <2>3. VarTypes'
    <3>1. /\ emitting' \in [Writers -> VarEvents \cup {NoEvent}]
          /\ resetting' \in [Writers -> VarValues \cup {NoValue}]
          /\ varQueue' \in Seq(VarEvents) /\ varFinal' \in Seq(VarEvents)
      BY <2>1
    <3>2. declared' \in Declarations /\ persisted' \in VarValues \cup {NoRow}
          /\ overrides' \in VarValues \cup {NoRow, NotLoaded} /\ deployed' \in BOOLEAN
      BY <1>0, <1>7, <2>1 DEF VarTypes, ShutdownRuntime
    <3> QED BY <2>1, <3>1, <3>2 DEF VarTypes
  <2>4. Quiet' /\ ResetsRight' /\ OneEmits'
    BY <2>1, <2>2 DEF Quiet, NoOneEmits, ResetsRight, OneEmits
  <2> QED BY <2>1, <2>3, <2>4 DEF VarInv, YoungestIsSeen, EntryMatchesDeclaration, ChangeIsEntry
<1>8. CASE LoadOverrides
  BY <1>0, <1>8 DEF LoadOverrides, heldVars, pipeVars, VarInv, VarTypes, ResetsRight, Quiet, InFlight, NoOneEmits,
     YoungestIsSeen, Latest, OneEmits, EntryMatchesDeclaration, ChangeIsEntry
<1>9. CASE DeployVariables
  <2>1. PICK d \in Declarations :
          /\ declared' = d /\ entry' = [value |-> Restored(d), initial |-> d.initial]
          /\ change' = (IF Restored(d) = d.initial THEN Unseen ELSE Restored(d))
          /\ lost' = (persisted # overrides)
    BY <1>9 DEF DeployVariables, pipeVars
  <2>2. /\ ~deployed /\ overrides # NotLoaded /\ deployed' = TRUE /\ overrides' = NotLoaded
        /\ UNCHANGED <<emitting, resetting, varQueue, varFinal, proxy, storing, persisted>>
    BY <1>9 DEF DeployVariables, pipeVars
  <2>3. /\ d.initial \in VarValues /\ Restored(d) \in VarValues
        /\ TypeMatches(d.type, Restored(d))
        /\ Restored(d) # d.initial => Restored(d) = overrides
    BY <1>0, <2>2, DeclarationTypes DEF Restored, VarTypes
  <2>4. NoOneEmits /\ ~InFlight /\ \A w \in Writers : resetting[w] = NoValue
    BY <2>2 DEF VarInv, Quiet
  <2>5. entry' \in [value : VarValues, initial : VarValues] /\ entry' # NoEntry
        /\ entry'.value = Restored(d) /\ entry'.initial = d.initial
    BY <2>1, <2>3, EntryMarks
  <2>6. VarTypes'
    BY <1>0, <2>1, <2>2, <2>3, <2>5 DEF VarTypes, VarEvents
  <2>7. ResetsRight' /\ Quiet' /\ OneEmits'
    BY <2>2, <2>4 DEF ResetsRight, Quiet, OneEmits, NoOneEmits
  <2>8. EntryMatchesDeclaration' /\ ChangeIsEntry'
    BY <2>1, <2>3, <2>5 DEF EntryMatchesDeclaration, ChangeIsEntry
  <2>9. YoungestIsSeen'
    <3>1. varQueue = <<>> /\ varFinal = <<>> /\ proxy \in {Selecting, SendingEvent} /\ storing = NoEvent
      BY <1>0, <2>4 DEF InFlight, VarTypes
    <3>2. Latest' = (IF persisted = NoRow THEN Deleted ELSE persisted)
      BY <2>2, <3>1 DEF Latest
    <3>3. ~lost' /\ change' # Unseen => persisted = change' /\ change' # NoRow
      BY <2>1, <2>3, Marks
    <3> QED BY <2>2, <2>4, <3>2, <3>3 DEF YoungestIsSeen, NoOneEmits
  <2> QED BY <2>6, <2>7, <2>8, <2>9 DEF VarInv
<1>10. CASE UNCHANGED varVars
  BY <1>0, <1>10 DEF varVars, heldVars, pipeVars, VarInv, VarTypes, ResetsRight, Quiet, InFlight, NoOneEmits,
     YoungestIsSeen, Latest, OneEmits, EntryMatchesDeclaration, ChangeIsEntry
<1>11. ASSUME NEW x \in Watchers, Subscribe(x) \/ Unsubscribe(x)
       PROVE  VarInv'
  BY <1>0, <1>11 DEF Subscribe, Unsubscribe, pipeVars, VarInv, VarTypes, ResetsRight, Quiet, InFlight,
     NoOneEmits, YoungestIsSeen, Latest, OneEmits, EntryMatchesDeclaration, ChangeIsEntry
<1> QED BY <1>1, <1>2, <1>3, <1>4, <1>5, <1>6, <1>7, <1>8, <1>9, <1>10, <1>11 DEF VarNext, Writers

\* Nobody has subscribed.
LEMMA WatchInitOk == VarInit => WatchInv
  BY Marks DEF VarInit, WatchInv, Subscribed, WatchFollowsEntry

\* A change is told to everybody who has subscribed.
LEMMA TellOk ==
  ASSUME WatchInv, NEW v \in VarEvents, Tell(v)
  PROVE  /\ watch' \in [Watchers -> VarEvents \cup {Away}] /\ Subscribed' = Subscribed
         /\ \A x \in Subscribed' : watch'[x] = v
<1>1. v # Away
  BY Marks DEF VarEvents
<1> QED BY <1>1 DEF Tell, Subscribed, WatchInv

\* A write tells its watchers what the entry holds from now on.
LEMMA WriteTells ==
  ASSUME VarTypes, WatchInv, deployed, deployed' = deployed, entry # NoEntry,
         NEW w \in Writers, NEW v \in VarValues, WriteEntry(w, v)
  PROVE  WatchInv'
<1>1. /\ entry' = [entry EXCEPT !.value = v] /\ entry'.value = v
      /\ entry' \in [value : VarValues, initial : VarValues] /\ entry' # NoEntry
  BY EntryMarks DEF WriteEntry, VarTypes
<1>2. \A x \in Writers : emitting[x] # Deleted
  BY DEF WatchInv
<1>3. CASE v = entry.value
  BY <1>1, <1>2, <1>3 DEF WriteEntry, WatchInv, WatchFollowsEntry, Subscribed
<1>4. CASE v # entry.value
  <2>1. Tell(v) /\ emitting' = [emitting EXCEPT ![w] = v] /\ v # Deleted
    BY <1>4, Marks DEF WriteEntry
  <2>2. \A x \in Writers : emitting'[x] # Deleted
    BY <1>2, <2>1 DEF VarTypes
  <2>3. /\ watch' \in [Watchers -> VarEvents \cup {Away}]
        /\ \A x \in Subscribed' : watch'[x] = v
    BY <2>1, TellOk DEF VarEvents
  <2> QED BY <1>1, <2>2, <2>3 DEF WatchInv, WatchFollowsEntry
<1> QED BY <1>3, <1>4

\* Every step keeps the watchers' knowledge.
LEMMA WatchStepOk ==
  ASSUME VarInv, WatchInv, [VarNext]_varVars
  PROVE  WatchInv'
<1>0. VarTypes /\ declared.initial \in VarValues
  BY DeclarationTypes DEF VarInv, VarTypes
<1>1. ASSUME NEW w \in Writers, SetVariable(w) \/ CompareAndSwap(w)
      PROVE  WatchInv'
  <2>1. deployed /\ deployed' = deployed /\ entry # NoEntry /\ \E v \in VarValues : WriteEntry(w, v)
    BY <1>1 DEF SetVariable, CompareAndSwap
  <2> QED BY <1>0, <2>1, WriteTells
<1>2. ASSUME NEW w \in Writers, EmitVariableEvent(w)
      PROVE  WatchInv'
  <2>1. /\ emitting' = [emitting EXCEPT ![w] = NoEvent]
        /\ UNCHANGED <<deployed, entry>>
    BY <1>2 DEF EmitVariableEvent, Emits
  <2>2. \A x \in Writers : emitting'[x] = IF x = w THEN NoEvent ELSE emitting[x]
    BY <1>0, <2>1 DEF VarTypes
  <2>3. \A x \in Writers : emitting'[x] = Deleted => emitting[x] = Deleted
    BY <2>2, Marks
  <2>4. CASE emitting[w] = Deleted
    <3>1. Tell(Deleted) /\ entry = NoEntry
      BY <1>2, <2>4 DEF EmitVariableEvent, WatchInv
    <3>2. /\ watch' \in [Watchers -> VarEvents \cup {Away}] /\ Subscribed' = Subscribed
          /\ \A x \in Subscribed' : watch'[x] = Deleted
      BY <3>1, TellOk DEF VarEvents
    <3> QED BY <2>1, <2>3, <3>1, <3>2 DEF WatchInv, WatchFollowsEntry
  <2>5. CASE emitting[w] # Deleted
    <3>1. watch' = watch
      BY <1>2, <2>5 DEF EmitVariableEvent
    <3> QED BY <2>1, <2>2, <2>3, <2>5, <3>1 DEF WatchInv, WatchFollowsEntry, Subscribed
  <2> QED BY <2>4, <2>5
<1>3. ASSUME NEW w \in IpcCommands, ResetRead(w)
      PROVE  WatchInv'
  BY <1>3 DEF ResetRead, WatchInv, WatchFollowsEntry, Subscribed
<1>4. ASSUME NEW w \in IpcCommands, ResetWrite(w)
      PROVE  WatchInv'
  <2>0. w \in Writers
    BY DEF Writers
  <2>1. deployed /\ deployed' = deployed /\ resetting[w] = declared.initial
    BY <1>4, <2>0 DEF ResetWrite, VarInv, ResetsRight
  <2>2. CASE entry = NoEntry
    BY <1>4, <2>2 DEF ResetWrite, WatchInv, WatchFollowsEntry, Subscribed
  <2>3. CASE entry # NoEntry
    <3>1. WriteEntry(w, declared.initial)
      BY <1>4, <2>1, <2>3 DEF ResetWrite
    <3> QED BY <1>0, <2>0, <2>1, <2>3, <3>1, WriteTells
  <2> QED BY <2>2, <2>3
<1>5. ASSUME NEW w \in IpcCommands, RemoveVariable(w)
      PROVE  WatchInv'
  <2>0. w \in Writers
    BY DEF Writers
  <2>1. deployed /\ deployed' = deployed /\ entry' = NoEntry /\ watch' = watch
        /\ emitting' = [emitting EXCEPT ![w] = Deleted]
    BY <1>5 DEF RemoveVariable
  <2>2. emitting'[w] = Deleted
    BY <1>0, <2>0, <2>1 DEF VarTypes
  <2> QED BY <2>0, <2>1, <2>2 DEF WatchInv, WatchFollowsEntry
<1>6. CASE ProxyStep \/ ProxyTakesVariable \/ ForwarderStep
  <2>1. UNCHANGED heldVars
    BY <1>6 DEF ProxyStep, ForwarderStep, ProxyTakesEvent, ProxyTakesVariable, ProxySends, ForwardEvent,
       ForwardVariable, StoreVariable
  <2> QED BY <2>1 DEF heldVars, WatchInv, WatchFollowsEntry, Subscribed
<1>7. CASE ShutdownRuntime
  <2>1. /\ ~deployed' /\ watch' = [x \in Watchers |-> Away]
        /\ emitting' = [x \in Writers |-> NoEvent]
    BY <1>7 DEF ShutdownRuntime
  <2> QED BY <2>1, Marks DEF WatchInv, WatchFollowsEntry, Subscribed
<1>8. CASE LoadOverrides
  BY <1>8 DEF LoadOverrides, heldVars, WatchInv, WatchFollowsEntry, Subscribed
<1>9. CASE DeployVariables
  <2>1. Subscribed = {} /\ UNCHANGED <<watch, emitting>> /\ \A w \in Writers : emitting[w] # Deleted
    BY <1>9, Marks DEF DeployVariables, WatchInv, VarInv, Quiet, NoOneEmits
  <2> QED BY <2>1 DEF WatchInv, WatchFollowsEntry, Subscribed
<1>10. ASSUME NEW x \in Watchers, Subscribe(x)
       PROVE  WatchInv'
  <2>1. /\ deployed /\ entry # NoEntry /\ watch' = [watch EXCEPT ![x] = entry.value]
        /\ UNCHANGED <<deployed, entry, emitting>>
    BY <1>10 DEF Subscribe
  <2>2. entry.value \in VarEvents
    BY <1>0, <2>1 DEF VarTypes, VarEvents
  <2>3. \A y \in Watchers : watch'[y] = IF y = x THEN entry.value ELSE watch[y]
    BY <2>1 DEF WatchInv
  <2> QED BY <2>1, <2>2, <2>3 DEF WatchInv, WatchFollowsEntry, Subscribed
<1>11. ASSUME NEW x \in Watchers, Unsubscribe(x)
       PROVE  WatchInv'
  <2>1. watch' = [watch EXCEPT ![x] = Away] /\ UNCHANGED <<deployed, entry, emitting>>
    BY <1>11 DEF Unsubscribe
  <2>2. \A y \in Watchers : watch'[y] = IF y = x THEN Away ELSE watch[y]
    BY <2>1 DEF WatchInv
  <2> QED BY <2>1, <2>2 DEF WatchInv, WatchFollowsEntry, Subscribed
<1>12. CASE UNCHANGED varVars
  BY <1>12 DEF varVars, heldVars, WatchInv, WatchFollowsEntry, Subscribed
<1> QED BY <1>1, <1>2, <1>3, <1>4, <1>5, <1>6, <1>7, <1>8, <1>9, <1>10, <1>11, <1>12 DEF VarNext, Writers

\* The entry has its declared type, whoever has subscribed knows its value though
\* the channel stores nothing while nobody has, and the database has that value as soon as nothing is under way, unless an event
\* was dropped, aborted or overtaken (core/src/variables, workflow_deploy.rs):
\* for any number of nodes and commands that write, any channels and values.
THEOREM VariablesAreSound == VarSpec => []VariablesSound
<1>1. VarInv /\ WatchInv => VariablesSound
  <2> SUFFICES ASSUME VarInv, WatchInv PROVE VariablesSound
    OBVIOUS
  <2>1. DatabaseCatchesUp
    <3> SUFFICES ASSUME deployed, ~lost, ~InFlight, NoOneEmits, change # Unseen
                 PROVE  persisted = (IF entry = NoEntry THEN NoRow ELSE entry.value)
      BY DEF DatabaseCatchesUp
    <3>1. varQueue = <<>> /\ varFinal = <<>> /\ proxy \in {Selecting, SendingEvent} /\ storing = NoEvent
      BY DEF InFlight, VarInv, VarTypes
    <3>2. change = (IF persisted = NoRow THEN Deleted ELSE persisted)
      BY <3>1 DEF VarInv, YoungestIsSeen, Latest
    <3>3. \/ change = Deleted /\ entry = NoEntry
          \/ entry # NoEntry /\ change = entry.value /\ change \in VarValues
      BY DEF VarInv, ChangeIsEntry, VarTypes
    <3>4. persisted \in VarValues \cup {NoRow}
      BY DEF VarInv, VarTypes
    <3> QED BY <3>2, <3>3, <3>4, Marks
  <2> QED BY <2>1 DEF VarInv, WatchInv, VariablesSound
<1> QED BY <1>1, VarInitOk, VarStepOk, WatchInitOk, WatchStepOk, PTL DEF VarSpec

(***************************************************************************)
(* The pull path (DataPull).                                               *)
(***************************************************************************)
PullPhases == {"idle", "pull", "subscribe", "blocked", "memo", "evaluate", "transform", "ended"}
Traces     == PullTraces \cup {CHOOSE t \in PullTraces : TRUE}

PullTypes ==
  /\ cacheSlot \in [value : Nat, age : Nat]
  /\ memo \subseteq [trace : Traces, input : Nat, result : Nat, shape : {"object", "other"}]
  /\ pullPhase \in [Consumers -> PullPhases] /\ pullTrace \in [Consumers -> Traces]
  /\ pullEdge \in [Consumers -> Nat] /\ waitLeft \in [Consumers -> Nat]
  /\ pullInput \in [Consumers -> Nat] /\ pulled \in [Consumers -> Nat]

\* The result of an entry is that of its own input, the key it is found by.
MemoRight == \A m \in memo : m.result = m.input

PullInv == PullTypes /\ MemoRight /\ PureMatchesInput /\ MemoOnlyLeaksUnfinished

\* A step of the task of one consumer leaves the other tasks alone, and its own
\* either goes on with its trace or notes it as unfinished.
LEMMA OnePulls ==
  ASSUME PullInv, NEW c \in Consumers, NEW p \in PullPhases,
         \A d \in Consumers : pullPhase'[d] = IF d = c THEN p ELSE pullPhase[d],
         PullTypes', pullTrace' = pullTrace,
         \A d \in Consumers : d # c => pulled'[d] = pulled[d] /\ pullInput'[d] = pullInput[d],
         p = "transform" => pulled'[c] = pullInput'[c],
         MemoRight', unfinished \subseteq unfinished',
         \A m \in memo' : m \in memo \/ (m.trace = pullTrace[c] /\ p \notin {"idle", "ended"}),
         p \in {"idle", "ended"} =>
           pullTrace[c] \in unfinished' \/ \A m \in memo' : m.trace # pullTrace[c]
  PROVE  PullInv'
<1>2. PureMatchesInput'
  BY DEF PullInv, PureMatchesInput
<1>3. MemoOnlyLeaksUnfinished'
  <2> SUFFICES ASSUME NEW m \in memo', m.trace \notin unfinished'
               PROVE  \E d \in Consumers : pullTrace[d] = m.trace /\ pullPhase'[d] \notin {"idle", "ended"}
    BY DEF MemoOnlyLeaksUnfinished
  <2>1. CASE m.trace = pullTrace[c] /\ p \notin {"idle", "ended"}
    BY <2>1
  <2>2. CASE m \in memo
    <3>1. PICK d \in Consumers : pullTrace[d] = m.trace /\ pullPhase[d] \notin {"idle", "ended"}
      BY <2>2 DEF PullInv, MemoOnlyLeaksUnfinished
    <3>2. CASE d = c
      BY <3>1, <3>2
    <3>3. CASE d # c
      BY <3>1, <3>3
    <3> QED BY <3>2, <3>3
  <2> QED BY <2>1, <2>2
<1> QED BY <1>2, <1>3 DEF PullInv

\* The cache, or the policy of the pin, answers.
LEMMA DeliverKeeps ==
  ASSUME PullInv, NEW c \in Consumers, NEW v \in Nat, PullDeliver(c, v),
         waitLeft' \in [Consumers -> Nat], UNCHANGED <<cacheSlot, memo, pullTrace, unfinished>>
  PROVE  PullInv'
<1>0. PullTypes
  BY DEF PullInv
<1>1. pullInput' = [pullInput EXCEPT ![c] = v] /\ pullInput' \in [Consumers -> Nat]
  BY <1>0 DEF PullDeliver, PullTypes
<1>2. \A d \in Consumers : pullInput'[d] = IF d = c THEN v ELSE pullInput[d]
  BY <1>0, <1>1 DEF PullTypes
<1>3. CASE PullTarget(c) = "pure"
  <2>1. pullPhase' = [pullPhase EXCEPT ![c] = "memo"] /\ UNCHANGED <<pullEdge, pulled>>
    BY <1>3 DEF PullDeliver, PullTo
  <2>2. PullTypes' /\ "memo" \in PullPhases
    BY <1>0, <1>1, <2>1 DEF PullTypes, PullPhases
  <2>3. MemoRight'
    BY DEF PullInv, MemoRight
  <2>4. \A d \in Consumers : pullPhase'[d] = IF d = c THEN "memo" ELSE pullPhase[d]
    BY <1>0, <2>1 DEF PullTypes
  <2> QED BY <1>2, <2>1, <2>2, <2>3, <2>4, OnePulls
<1>4. CASE PullTarget(c) # "pure"
  <2>1. EdgeDone(c, v)
    BY <1>4 DEF PullDeliver
  <2>2. PICK p \in {"pull", "transform"} : pullPhase' = [pullPhase EXCEPT ![c] = p]
    BY <2>1 DEF EdgeDone, PullTo
  <2>3. pulled' = [pulled EXCEPT ![c] = v] /\ pulled' \in [Consumers -> Nat]
    BY <1>0, <2>1 DEF EdgeDone, PullTypes
  <2>4. \A d \in Consumers : pulled'[d] = IF d = c THEN v ELSE pulled[d]
    BY <1>0, <2>3 DEF PullTypes
  <2>5. pullEdge' \in [Consumers -> Nat]
    <3>1. pullEdge \in [Consumers -> Nat]
      BY <1>0 DEF PullTypes
    <3>2. pullEdge' = [pullEdge EXCEPT ![c] = @ + 1] \/ pullEdge' = pullEdge
      BY <2>1 DEF EdgeDone
    <3>3. pullEdge[c] + 1 \in Nat
      BY <3>1
    <3> QED BY <3>1, <3>2, <3>3
  <2>6. PullTypes' /\ p \in PullPhases
    BY <1>0, <1>1, <2>2, <2>3, <2>5 DEF PullTypes, PullPhases
  <2>7. MemoRight'
    BY DEF PullInv, MemoRight
  <2>8. \A d \in Consumers : pullPhase'[d] = IF d = c THEN p ELSE pullPhase[d]
    BY <1>0, <2>2 DEF PullTypes
  <2> QED BY <1>2, <2>2, <2>4, <2>6, <2>7, <2>8, OnePulls
<1> QED BY <1>3, <1>4

\* A pull ends with an error.
LEMMA FailKeeps ==
  ASSUME PullInv, NEW c \in Consumers, PullFails(c), waitLeft' \in [Consumers -> Nat],
         UNCHANGED <<cacheSlot, memo, pullTrace>>
  PROVE  PullInv'
<1>0. PullTypes
  BY DEF PullInv
<1>1. /\ pullPhase' = [pullPhase EXCEPT ![c] = "idle"] /\ unfinished' = unfinished \cup {pullTrace[c]}
      /\ pullEdge' = [pullEdge EXCEPT ![c] = 1]
      /\ pullInput' = [pullInput EXCEPT ![c] = 0] /\ pulled' = [pulled EXCEPT ![c] = 0]
  BY DEF PullFails, PullForget, PullTo
<1>2. PullTypes' /\ "idle" \in PullPhases
  BY <1>0, <1>1 DEF PullTypes, PullPhases
<1>3. \A d \in Consumers : d # c => pulled'[d] = pulled[d] /\ pullInput'[d] = pullInput[d]
  BY <1>0, <1>1 DEF PullTypes
<1>4. MemoRight'
  BY DEF PullInv, MemoRight
<1>5. PICK p \in PullPhases : p = "idle"
  BY DEF PullPhases
<1>6. \A m \in memo' : m \in memo
  OBVIOUS
<1>7. pullTrace[c] \in unfinished' /\ unfinished \subseteq unfinished' /\ p # "transform"
      /\ pullPhase' = [pullPhase EXCEPT ![c] = p] /\ pullTrace' = pullTrace
  BY <1>1, <1>5
<1>8. \A d \in Consumers : pullPhase'[d] = IF d = c THEN p ELSE pullPhase[d]
  BY <1>0, <1>7 DEF PullTypes
<1>9. /\ p = "transform" => pulled'[c] = pullInput'[c]
      /\ \A m \in memo' : m \in memo \/ (m.trace = pullTrace[c] /\ p \notin {"idle", "ended"})
      /\ p \in {"idle", "ended"} =>
           pullTrace[c] \in unfinished' \/ \A m \in memo' : m.trace # pullTrace[c]
  BY <1>6, <1>7
<1> QED BY <1>2, <1>3, <1>4, <1>7, <1>8, <1>9, OnePulls, Zenon

\* A consumer waits, or goes on to the memo or the node, without a value.
LEMMA PhaseKeeps ==
  ASSUME PullInv, NEW c \in Consumers, NEW p \in {"subscribe", "blocked", "evaluate"}, PullTo(c, p),
         waitLeft' \in [Consumers -> Nat],
         UNCHANGED <<cacheSlot, memo, pullTrace, pullEdge, pullInput, pulled, unfinished>>
  PROVE  PullInv'
<1>1. pullPhase' = [pullPhase EXCEPT ![c] = p] /\ p \in PullPhases
  BY DEF PullTo, PullPhases
<1>2. PullTypes' /\ MemoRight'
  BY <1>1 DEF PullInv, PullTypes, MemoRight
<1>3. \A d \in Consumers : pullPhase'[d] = IF d = c THEN p ELSE pullPhase[d]
  BY <1>1 DEF PullInv, PullTypes
<1> QED BY <1>1, <1>2, <1>3, OnePulls

\* The pure node, or the memo, answers for the input of the consumer.
LEMMA PureKeeps ==
  ASSUME PullInv, NEW c \in Consumers, EdgeDone(c, pullInput[c]),
         \/ memo' = memo
         \/ \E s \in {"object", "other"} :
              memo' = (memo \ MemoEntry(c)) \cup
                {[trace |-> pullTrace[c], input |-> pullInput[c], result |-> pullInput[c], shape |-> s]},
         UNCHANGED <<cacheSlot, pullTrace, pullInput, waitLeft, unfinished>>
  PROVE  PullInv'
<1>0. PullTypes /\ pullInput[c] \in Nat /\ pullTrace[c] \in Traces
  BY DEF PullInv, PullTypes
<1>1. PICK p \in {"pull", "transform"} : pullPhase' = [pullPhase EXCEPT ![c] = p]
  BY DEF EdgeDone, PullTo
<1>2. pulled' = [pulled EXCEPT ![c] = pullInput[c]] /\ pulled' \in [Consumers -> Nat]
  BY <1>0 DEF EdgeDone, PullTypes
<1>3. \A d \in Consumers : pulled'[d] = IF d = c THEN pullInput[c] ELSE pulled[d]
  BY <1>0, <1>2 DEF PullTypes
<1>4. pullEdge' \in [Consumers -> Nat]
  <2>1. pullEdge \in [Consumers -> Nat]
    BY <1>0 DEF PullTypes
  <2>2. pullEdge' = [pullEdge EXCEPT ![c] = @ + 1] \/ pullEdge' = pullEdge
    BY DEF EdgeDone
  <2>3. pullEdge[c] + 1 \in Nat
    BY <2>1
  <2> QED BY <2>1, <2>2, <2>3
<1>5. \A m \in memo' : \/ m \in memo
                       \/ /\ m \in [trace : Traces, input : Nat, result : Nat, shape : {"object", "other"}]
                          /\ m.trace = pullTrace[c] /\ m.result = m.input
  BY <1>0
<1>6. PullTypes' /\ p \in PullPhases
  <2>1. memo' \subseteq [trace : Traces, input : Nat, result : Nat, shape : {"object", "other"}]
    BY <1>0, <1>5 DEF PullTypes
  <2> QED BY <1>0, <1>1, <1>2, <1>4, <2>1 DEF PullTypes, PullPhases
<1>7. MemoRight'
  BY <1>5 DEF PullInv, MemoRight
<1>8. \A d \in Consumers : pullPhase'[d] = IF d = c THEN p ELSE pullPhase[d]
  BY <1>0, <1>1 DEF PullTypes
<1> QED BY <1>1, <1>3, <1>5, <1>6, <1>7, <1>8, OnePulls

\* The cache and the memo are empty.
LEMMA PullInitOk == PullInit => PullInv
<1> SUFFICES ASSUME PullInit PROVE PullInv
  OBVIOUS
<1>1. PullTypes
  BY DEF PullInit, PullTypes, PullPhases, Traces
<1> QED BY <1>1 DEF PullInit, PullInv, MemoRight, PureMatchesInput, MemoOnlyLeaksUnfinished

\* Every step of the Exec node, of the clock and of a consumer keeps the invariant.
LEMMA PullStepOk ==
  ASSUME PullInv, [PullNext]_pullVars
  PROVE  PullInv'
<1>0. PullTypes /\ (CacheFresh(cacheSlot) => cacheSlot.value \in Nat)
      /\ \A d \in Consumers, n \in Nat : [waitLeft EXCEPT ![d] = n] \in [Consumers -> Nat]
  BY DEF PullInv, PullTypes
<1>1. ASSUME cacheSlot' \in [value : Nat, age : Nat], waitLeft' \in [Consumers -> Nat],
             UNCHANGED <<memo, pullPhase, pullTrace, pullEdge, pullInput, pulled, unfinished>>
      PROVE  PullInv'
  BY <1>1 DEF PullInv, PullTypes, MemoRight, PureMatchesInput, MemoOnlyLeaksUnfinished
<1>2. CASE CacheWrite
  <2>1. cacheSlot' \in [value : Nat, age : Nat]
    BY <1>2, DataPullAssumption DEF CacheWrite
  <2> QED BY <1>0, <1>1, <1>2, <2>1 DEF CacheWrite, PullTypes
<1>3. CASE TimePasses
  <2>1. cacheSlot' \in [value : Nat, age : Nat]
    BY <1>0, <1>3 DEF TimePasses, PullTypes
  <2>2. waitLeft' \in [Consumers -> Nat]
    BY <1>0, <1>3, SMTT(60) DEF TimePasses, PullTypes
  <2> QED BY <1>1, <1>3, <2>1, <2>2 DEF TimePasses
<1>4. ASSUME NEW c \in Consumers, ReceiveTrace(c)
      PROVE  PullInv'
  <2>1. PICK t \in PullTraces : pullTrace' = [pullTrace EXCEPT ![c] = t]
    BY <1>4 DEF ReceiveTrace
  <2>2. PICK p \in {"pull", "transform"} : /\ pullPhase' = [pullPhase EXCEPT ![c] = p]
                                           /\ p = "transform" => DataInEdges[c] = <<>>
    BY <1>4 DEF ReceiveTrace, PullTo
  <2>3. /\ \A d \in Consumers : pullPhase'[d] = IF d = c THEN p ELSE pullPhase[d]
        /\ \A d \in Consumers : pullTrace'[d] = IF d = c THEN t ELSE pullTrace[d]
        /\ pullPhase[c] = "idle"
    BY <1>0, <1>4, <2>1, <2>2 DEF PullTypes, ReceiveTrace
  <2>4. PullTypes' /\ MemoRight'
    BY <1>0, <1>4, <2>1, <2>2 DEF PullInv, PullTypes, PullPhases, Traces, MemoRight, ReceiveTrace
  <2>5. UNCHANGED <<memo, pullInput, pulled, unfinished>>
    BY <1>4 DEF ReceiveTrace
  <2>6. PureMatchesInput'
    BY <2>2, <2>3, <2>5 DEF PullInv, PureMatchesInput
  <2>7. MemoOnlyLeaksUnfinished'
    <3> SUFFICES ASSUME NEW m \in memo, m.trace \notin unfinished
                 PROVE  \E d \in Consumers : pullTrace'[d] = m.trace /\ pullPhase'[d] \notin {"idle", "ended"}
      BY <2>5 DEF MemoOnlyLeaksUnfinished
    <3>1. PICK d \in Consumers : pullTrace[d] = m.trace /\ pullPhase[d] \notin {"idle", "ended"}
      BY DEF PullInv, MemoOnlyLeaksUnfinished
    <3> QED BY <2>3, <3>1
  <2> QED BY <2>4, <2>6, <2>7 DEF PullInv
<1>5. ASSUME NEW c \in Consumers, ReadCache(c) \/ SubscribeCache(c)
      PROVE  PullInv'
  <2>1. /\ waitLeft' \in [Consumers -> Nat] /\ UNCHANGED <<cacheSlot, memo, pullTrace, unfinished>>
        /\ \/ \E v \in Nat : PullDeliver(c, v)
           \/ \E p \in {"subscribe", "blocked"} : PullTo(c, p) /\ UNCHANGED <<pullEdge, pullInput, pulled>>
    <3>1. BlockTimeout \in Nat
      BY DataPullAssumption
    <3> QED BY <1>0, <1>5, <3>1 DEF ReadCache, SubscribeCache, PullTypes, DefaultValue, NullValue
  <2> QED BY <2>1, DeliverKeeps, PhaseKeeps
<1>6. ASSUME NEW c \in Consumers, CacheChanged(c) \/ BlockTimesOut(c)
      PROVE  PullInv'
  <2>1. /\ waitLeft' \in [Consumers -> Nat] /\ UNCHANGED <<cacheSlot, memo, pullTrace>>
        /\ \/ PullDeliver(c, cacheSlot.value) /\ UNCHANGED unfinished /\ cacheSlot.value \in Nat
           \/ PullFails(c)
    BY <1>0, <1>6 DEF CacheChanged, BlockTimesOut
  <2> QED BY <2>1, DeliverKeeps, FailKeeps
<1>7. ASSUME NEW c \in Consumers, ReadMemo(c) \/ PureFails(c) \/ PureReturns(c)
      PROVE  PullInv'
  <2>1. /\ waitLeft' = waitLeft /\ waitLeft \in [Consumers -> Nat] /\ UNCHANGED <<cacheSlot, pullTrace>>
    BY <1>0, <1>7 DEF ReadMemo, PureFails, PureReturns, PullTypes
  <2>2. CASE PureReturns(c)
    BY <2>1, <2>2, PureKeeps DEF PureReturns
  <2>3. CASE PureFails(c)
    BY <2>1, <2>3, FailKeeps DEF PureFails
  <2>4. CASE ReadMemo(c)
    <3>1. CASE PullTo(c, "evaluate") /\ UNCHANGED <<pullEdge, pullInput, pulled, unfinished>>
      BY <2>1, <2>4, <3>1, PhaseKeeps DEF ReadMemo
    <3>2. CASE PullFails(c)
      BY <2>1, <2>4, <3>2, FailKeeps DEF ReadMemo
    <3>3. ASSUME NEW m \in MemoEntry(c), EdgeDone(c, m.result), UNCHANGED <<pullInput, unfinished>>
          PROVE  PullInv'
      <4>1. m.result = pullInput[c]
        BY DEF MemoEntry, PullInv, MemoRight
      <4> QED BY <2>1, <2>4, <3>3, <4>1, PureKeeps DEF ReadMemo
    <3> QED BY <2>4, <3>1, <3>2, <3>3 DEF ReadMemo
  <2> QED BY <1>7, <2>2, <2>3, <2>4
<1>8. ASSUME NEW c \in Consumers, TransformEnds(c) \/ SendFailsAfterPull(c)
      PROVE  PullInv'
  <2>1. PICK p \in {"idle", "ended"} :
          /\ pullPhase' = [pullPhase EXCEPT ![c] = p] /\ unfinished \subseteq unfinished'
          /\ memo' \subseteq memo
          /\ pullTrace[c] \in unfinished' \/ \A m \in memo' : m.trace # pullTrace[c]
    BY <1>8 DEF TransformEnds, SendFailsAfterPull, PullTo
  <2>2. /\ pullEdge' = [pullEdge EXCEPT ![c] = 1]
        /\ pullInput' = [pullInput EXCEPT ![c] = 0] /\ pulled' = [pulled EXCEPT ![c] = 0]
        /\ UNCHANGED <<cacheSlot, pullTrace, waitLeft>>
    BY <1>8 DEF TransformEnds, SendFailsAfterPull, PullForget
  <2>3. PullTypes' /\ p \in PullPhases
    BY <1>0, <2>1, <2>2 DEF PullTypes, PullPhases
  <2>4. \A d \in Consumers : d # c => pulled'[d] = pulled[d] /\ pullInput'[d] = pullInput[d]
    BY <1>0, <2>2 DEF PullTypes
  <2>5. MemoRight'
    BY <2>1 DEF PullInv, MemoRight
  <2>6. p # "transform" /\ pullTrace' = pullTrace /\ \A m \in memo' : m \in memo
    BY <2>1, <2>2
  <2>7. \A d \in Consumers : pullPhase'[d] = IF d = c THEN p ELSE pullPhase[d]
    BY <1>0, <2>1 DEF PullTypes
  <2>8. /\ p = "transform" => pulled'[c] = pullInput'[c]
        /\ \A m \in memo' : m \in memo \/ (m.trace = pullTrace[c] /\ p \notin {"idle", "ended"})
        /\ p \in {"idle", "ended"} =>
             pullTrace[c] \in unfinished' \/ \A m \in memo' : m.trace # pullTrace[c]
    BY <2>1, <2>6
  <2> QED BY <2>1, <2>3, <2>4, <2>5, <2>6, <2>7, <2>8, OnePulls, Zenon
<1>9. CASE UNCHANGED pullVars
  BY <1>0, <1>1, <1>9 DEF pullVars, PullTypes
<1> QED BY <1>2, <1>3, <1>4, <1>5, <1>6, <1>7, <1>8, <1>9 DEF PullNext, PullStep

\* What a consumer is given was computed from the input of its own pull,
\* although the memo is shared and the cache rewritten in between, and the memo
\* keeps no entry of a trace that ended well (graph/src/pull/collector.rs,
\* memo.rs, runner.rs:385): for any consumers, edges, traces and times.
THEOREM PullIsSound == PullSpec => []PullSound
<1>1. PullInv => PullSound
  BY DEF PullInv, PullSound
<1> QED BY <1>1, PullInitOk, PullStepOk, PTL DEF PullSpec

(***************************************************************************)
(* The lane of the dispatch router (DispatchRouter).                       *)
(***************************************************************************)
LaneBusy == hand.phase # "recv"
Sent(c)  == call[c] \in {"ok", "uncounted"}
CapacityMost == 4096
InitialMost == 200
MaxMost == 1200
RouterPolicies ==
  [capacity : 1..CapacityMost, retries : 0..8, initial : 1..InitialMost, max : 4..MaxMost,
   strategy : {"block", "reject"}]

CallStates == {"idle", "error", "routed", "sending", "uncounted", "ok"}
Calls      == [Dispatches -> CallStates]
Hands      == [env : Dispatches \cup {"none"}, phase : {"recv", "count", "submit", "backoff"},
               root : Nat, attempts : Nat]
Receipts   == [Dispatches -> [1..RootCount -> Nat]]

LaneTypes ==
  /\ policy \in RouterPolicies \cup {NoPolicy}
  /\ listed \in BOOLEAN /\ laneUp \in BOOLEAN
  /\ call \in Calls /\ hand \in Hands /\ got \in Receipts
  /\ LaneBusy => hand.env \in Dispatches
  /\ laneQueue \in Seq(Dispatches) /\ laneDepth \in Int /\ buried \in Nat
  /\ rootOpen \subseteq 1..RootCount
  /\ given \subseteq Dispatches /\ slept \in Seq(Nat)

\* An envelope is sent before it is anywhere, and is in one place only.
OnePlace ==
  /\ \A i \in 1..Len(laneQueue) :
       Sent(laneQueue[i]) /\ laneQueue[i] \notin given /\ (LaneBusy => laneQueue[i] # hand.env)
  /\ \A i, j \in 1..Len(laneQueue) : laneQueue[i] = laneQueue[j] => i = j
  /\ LaneBusy => Sent(hand.env) /\ hand.env \notin given
  /\ \A c \in given : Sent(c) \/ call[c] = "error"

\* While the lane runs, what was sent is somewhere.
Kept ==
  laneUp => \A c \in Dispatches : Sent(c) =>
    \/ \E i \in 1..Len(laneQueue) : laneQueue[i] = c
    \/ LaneBusy /\ hand.env = c
    \/ DeliveredToAll(c) \/ c \in given

\* The roots before the next one have the envelope.
Visited ==
  /\ hand.phase = "count" => hand.root = 1
  /\ hand.phase = "submit" => \A r \in 1..RootCount : r < hand.root => got[hand.env][r] > 0

\* Nothing happens before the router exists.
NoRouterYet ==
  policy = NoPolicy =>
    /\ ~laneUp /\ ~listed /\ ~LaneBusy /\ laneQueue = <<>> /\ laneDepth = 0 /\ slept = <<>>
    /\ \A c \in Dispatches : call[c] \in {"idle", "error"}

\* What is counted, and what a blocking lane counts exactly.
Taken == IF hand.phase = "count" THEN 1 ELSE 0
Depths ==
  /\ IsFiniteSet(Waiting) /\ IsFiniteSet(Uncounted)
  /\ policy.strategy = "block" => Uncounted = {}
  /\ laneUp => laneDepth + Cardinality(Uncounted) >= Len(laneQueue) + Cardinality(Waiting) + Taken
  /\ laneUp /\ policy.strategy = "block" => laneDepth = Len(laneQueue) + Cardinality(Waiting) + Taken

\* The back-offs are those of the attempts.
Backoffs ==
  /\ LaneBusy => Len(slept) = hand.attempts /\ hand.attempts <= policy.retries
  /\ \A i \in 1..Len(slept) : i <= 8 /\ slept[i] = RetryBackoff(i)

Letters == IsFiniteSet(given) /\ buried = Cardinality(given)

LaneInv ==
  LaneTypes /\ OnePlace /\ Kept /\ Visited /\ NoRouterYet /\ Depths /\ Backoffs /\ Letters

\* The lesser and the greater of two numbers.
LEMMA LesserAndGreater ==
  ASSUME NEW m \in Nat, NEW n \in Nat
  PROVE  /\ LaneMin(m, n) \in Nat /\ LaneMin(m, n) <= m /\ LaneMin(m, n) <= n
         /\ LaneMax(m, n) \in Nat /\ m <= LaneMax(m, n) /\ n <= LaneMax(m, n)
<1>1. CASE m <= n
  BY <1>1 DEF LaneMin, LaneMax
<1>2. CASE ~(m <= n)
  BY <1>2 DEF LaneMin, LaneMax
<1> QED BY <1>1, <1>2

\* A number between two bounds.
LEMMA Clamped ==
  ASSUME NEW n \in Nat, NEW low \in Nat, NEW high \in Nat, low <= high
  PROVE  LaneMin(LaneMax(n, low), high) \in low..high
<1> DEFINE x == LaneMax(n, low)
<1>1. x \in Nat /\ low <= x
  BY LesserAndGreater
<1> HIDE DEF x
<1>2. LaneMin(x, high) \in low..high
  <2>1. CASE x <= high
    BY <1>1, <2>1 DEF LaneMin
  <2>2. CASE ~(x <= high)
    BY <1>1, <2>2 DEF LaneMin
  <2> QED BY <2>1, <2>2
<1> QED BY <1>2 DEF x

\* A back-off of base a, ceiling b and multiple m.
Backed(m, a, b) == LaneMin(LaneMax(m, a), LaneMax(b, a))

LEMMA BackedBounds ==
  ASSUME NEW m \in Nat, NEW a \in Nat, NEW b \in Nat
  PROVE  Backed(m, a, b) \in Nat /\ a <= Backed(m, a, b) /\ Backed(m, a, b) <= LaneMax(a, b)
<1> DEFINE x == LaneMax(m, a)
           y == LaneMax(b, a)
<1>1. x \in Nat /\ a <= x /\ y \in Nat /\ a <= y
  BY LesserAndGreater
<1>2. y = LaneMax(a, b)
  <2>1. CASE a <= b
    BY <2>1 DEF LaneMax
  <2>2. CASE ~(a <= b)
    BY <2>2 DEF LaneMax
  <2> QED BY <2>1, <2>2
<1> HIDE DEF x, y
<1>3. LaneMin(x, y) \in Nat /\ LaneMin(x, y) <= y
  BY <1>1, LesserAndGreater
<1>4. a <= LaneMin(x, y)
  BY <1>1 DEF LaneMin
<1> QED BY <1>2, <1>3, <1>4 DEF Backed, x, y

\* What is at most another stays so under the same bounds.
LEMMA MaxMoves ==
  ASSUME NEW m \in Nat, NEW n \in Nat, NEW a \in Nat, m <= n
  PROVE  LaneMax(m, a) <= LaneMax(n, a)
<1>1. CASE a <= n
  BY <1>1 DEF LaneMax
<1>2. CASE ~(a <= n)
  BY <1>2 DEF LaneMax
<1> QED BY <1>1, <1>2

LEMMA MinMoves ==
  ASSUME NEW m \in Nat, NEW n \in Nat, NEW a \in Nat, m <= n
  PROVE  LaneMin(m, a) <= LaneMin(n, a)
<1>1. CASE m <= a
  BY <1>1 DEF LaneMin
<1>2. CASE ~(m <= a)
  BY <1>2 DEF LaneMin
<1> QED BY <1>1, <1>2

LEMMA BackedMoves ==
  ASSUME NEW m \in Nat, NEW n \in Nat, NEW a \in Nat, NEW b \in Nat, m <= n
  PROVE  Backed(m, a, b) <= Backed(n, a, b)
<1>1. /\ LaneMax(m, a) \in Nat /\ LaneMax(n, a) \in Nat /\ LaneMax(b, a) \in Nat
      /\ LaneMax(m, a) <= LaneMax(n, a)
  BY LesserAndGreater, MaxMoves
<1> QED BY <1>1, MinMoves DEF Backed

\* A policy from outside is brought into its bounds.
LEMMA PolicyBounds == \A p \in Policies : FromInput(p) \in RouterPolicies /\ FromInput(p) # NoPolicy
<1> SUFFICES ASSUME NEW p \in Policies PROVE FromInput(p) \in RouterPolicies /\ FromInput(p) # NoPolicy
  OBVIOUS
<1>1. p \in [capacity : Nat, retries : Nat, initial : Nat, max : Nat, strategy : {"block", "reject"}]
  BY DispatchAssumption
<1>2. FromInput(p) \in RouterPolicies
  <2>0. p.capacity \in Nat /\ p.initial \in Nat /\ p.max \in Nat /\ p.retries \in Nat
    BY <1>1
  <2>5. CapacityMost \in Nat /\ 1 <= CapacityMost
    BY SMTT(30) DEF CapacityMost
  <2>6. InitialMost \in Nat /\ 1 <= InitialMost
    BY SMTT(30) DEF InitialMost
  <2>7. MaxMost \in Nat /\ 4 <= MaxMost
    BY SMTT(30) DEF MaxMost
  <2>8. 1 \in Nat /\ 4 \in Nat
    OBVIOUS
  <2>9. FromInput(p) = [capacity |-> LaneMin(LaneMax(p.capacity, 1), CapacityMost),
                        retries |-> LaneMin(p.retries, 8),
                        initial |-> LaneMin(LaneMax(p.initial, 1), InitialMost),
                        max |-> LaneMin(LaneMax(p.max, 4), MaxMost), strategy |-> p.strategy]
    BY Zenon DEF FromInput, CapacityMost, InitialMost, MaxMost
  <2>1. LaneMin(LaneMax(p.capacity, 1), CapacityMost) \in 1..CapacityMost
    BY <2>0, <2>5, <2>8, Clamped, Zenon
  <2>2. LaneMin(LaneMax(p.initial, 1), InitialMost) \in 1..InitialMost
    BY <2>0, <2>6, <2>8, Clamped, Zenon
  <2>3. LaneMin(LaneMax(p.max, 4), MaxMost) \in 4..MaxMost
    BY <2>0, <2>7, <2>8, Clamped, Zenon
  <2>4. LaneMin(p.retries, 8) \in 0..8
    BY <2>0 DEF LaneMin
  <2> QED BY <1>1, <2>1, <2>2, <2>3, <2>4, <2>9 DEF RouterPolicies
<1> QED BY <1>2 DEF RouterPolicies, NoPolicy

\* The multiplier of an attempt, for the eight a policy allows.
Doubling(n) == 2 ^ n
LEMMA Doublings ==
  /\ \A n \in 0..7 : Doubling(n) \in Nat
  /\ \A n \in 1..7 : Doubling(n - 1) <= Doubling(n)
<1>1. /\ Doubling(0) = 1 /\ Doubling(1) = 2 /\ Doubling(2) = 4 /\ Doubling(3) = 8
      /\ Doubling(4) = 16 /\ Doubling(5) = 32 /\ Doubling(6) = 64 /\ Doubling(7) = 128
  BY DEF Doubling
<1> QED BY <1>1

\* The back-offs of a policy grow, between its bounds.
LEMMA BackoffGrows ==
  ASSUME policy \in RouterPolicies
  PROVE  /\ \A i \in 1..8 : RetryBackoff(i) \in Nat /\ policy.initial <= RetryBackoff(i)
                            /\ RetryBackoff(i) <= LaneMax(policy.initial, policy.max)
         /\ \A i \in 2..8 : RetryBackoff(i - 1) <= RetryBackoff(i)
<1>1. policy.initial \in Nat /\ policy.max \in Nat
  BY DEF RouterPolicies
<1>4. \A i \in 1..8 : i - 1 \in 0..7 /\ policy.initial * Doubling(i - 1) \in Nat
  <2> SUFFICES ASSUME NEW i \in 1..8 PROVE i - 1 \in 0..7 /\ policy.initial * Doubling(i - 1) \in Nat
    OBVIOUS
  <2>1. i - 1 \in 0..7
    OBVIOUS
  <2>2. Doubling(i - 1) \in Nat
    BY <2>1, Doublings
  <2> QED BY <1>1, <2>1, <2>2
<1>5. \A i \in 2..8 : policy.initial * Doubling(i - 1 - 1) <= policy.initial * Doubling(i - 1)
  <2> SUFFICES ASSUME NEW i \in 2..8
               PROVE  policy.initial * Doubling(i - 1 - 1) <= policy.initial * Doubling(i - 1)
    OBVIOUS
  <2>1. i - 1 \in 0..7 /\ i - 1 - 1 \in 0..7
    OBVIOUS
  <2>2. /\ Doubling(i - 1 - 1) \in Nat /\ Doubling(i - 1) \in Nat
        /\ Doubling(i - 1 - 1) <= Doubling(i - 1)
    BY <2>1, Doublings
  <2>3. \A a, m, n \in Nat : m <= n => a * m <= a * n
    OBVIOUS
  <2> QED BY <1>1, <2>2, <2>3
<1>8. \A i \in 1..8 :
        RetryBackoff(i) = Backed(policy.initial * Doubling(i - 1), policy.initial, policy.max)
  BY DEF RetryBackoff, Doubling, Backed
<1>6. \A i \in 1..8 : RetryBackoff(i) \in Nat /\ policy.initial <= RetryBackoff(i)
                      /\ RetryBackoff(i) <= LaneMax(policy.initial, policy.max)
  <2> SUFFICES ASSUME NEW i \in 1..8
               PROVE  RetryBackoff(i) \in Nat /\ policy.initial <= RetryBackoff(i)
                      /\ RetryBackoff(i) <= LaneMax(policy.initial, policy.max)
    OBVIOUS
  <2> DEFINE m == policy.initial * Doubling(i - 1)
  <2>1. m \in Nat /\ RetryBackoff(i) = Backed(m, policy.initial, policy.max)
    BY <1>4, <1>8
  <2> HIDE DEF m
  <2> QED BY <1>1, <2>1, BackedBounds
<1>7. \A i \in 2..8 : RetryBackoff(i - 1) <= RetryBackoff(i)
  <2> SUFFICES ASSUME NEW i \in 2..8 PROVE RetryBackoff(i - 1) <= RetryBackoff(i)
    OBVIOUS
  <2>1. i \in 1..8 /\ i - 1 \in 1..8
    OBVIOUS
  <2> DEFINE m == policy.initial * Doubling(i - 1 - 1)
             n == policy.initial * Doubling(i - 1)
  <2>2. m \in Nat /\ n \in Nat /\ m <= n
    BY <1>4, <1>5, <2>1
  <2>3. /\ RetryBackoff(i - 1) = Backed(m, policy.initial, policy.max)
        /\ RetryBackoff(i) = Backed(n, policy.initial, policy.max)
    BY <1>8, <2>1
  <2> HIDE DEF m, n
  <2> QED BY <1>1, <2>2, <2>3, BackedMoves
<1> QED BY <1>6, <1>7

\* There is no router yet.
LEMMA LaneInitOk == LaneInit => LaneInv
<1> SUFFICES ASSUME LaneInit PROVE LaneInv
  OBVIOUS
<1>1. LaneTypes
  <2>1. call \in Calls /\ hand \in Hands /\ got \in Receipts
    BY DEF LaneInit, Calls, CallStates, Hands, Idle, Receipts
  <2>2. laneQueue \in Seq(Dispatches) /\ slept \in Seq(Nat)
    BY DEF LaneInit
  <2>3. listed \in BOOLEAN /\ laneUp \in BOOLEAN
    BY ZenonT(90) DEF LaneInit
  <2>4. ~LaneBusy
    BY DEF LaneInit, LaneBusy, Idle
  <2>5. policy = NoPolicy /\ laneDepth = 0 /\ buried = 0 /\ rootOpen = 1..RootCount /\ given = {}
    BY DEF LaneInit
  <2> QED BY <2>1, <2>2, <2>3, <2>4, <2>5 DEF LaneTypes
<1>2. OnePlace /\ Kept /\ Visited /\ NoRouterYet
  BY DEF LaneInit, OnePlace, Kept, Visited, NoRouterYet, LaneBusy, Idle
<1>3. Waiting = {} /\ Uncounted = {}
  BY DEF LaneInit, Waiting, Uncounted
<1>4. Depths
  BY <1>3, FS_EmptySet DEF LaneInit, Depths, NoPolicy
<1>5. Backoffs /\ Letters
  BY FS_EmptySet, SMTT(60) DEF LaneInit, Backoffs, Letters, LaneBusy, Idle
<1> QED BY <1>1, <1>2, <1>4, <1>5 DEF LaneInv

\* What a step makes of a call, of the hand and of a root.
LEMMA Typed ==
  /\ \A f \in Calls, c \in Dispatches, v \in CallStates :
       /\ [f EXCEPT ![c] = v] \in Calls
       /\ \A d \in Dispatches : [f EXCEPT ![c] = v][d] = IF d = c THEN v ELSE f[d]
  /\ Idle \in Hands /\ Idle.phase = "recv"
  /\ \A h \in Hands, p \in {"submit", "backoff"}, n \in Nat :
       /\ [h EXCEPT !.phase = p] \in Hands /\ [h EXCEPT !.root = n] \in Hands
       /\ [h EXCEPT !.phase = p, !.attempts = n] \in Hands /\ [h EXCEPT !.phase = p, !.root = n] \in Hands
       /\ h.root \in Nat /\ h.attempts \in Nat
  /\ \A c \in Dispatches : [Idle EXCEPT !.env = c, !.phase = "count"] \in Hands
<1>1. /\ \A f \in Calls, c \in Dispatches, v \in CallStates :
           /\ [f EXCEPT ![c] = v] \in Calls
           /\ \A d \in Dispatches : [f EXCEPT ![c] = v][d] = IF d = c THEN v ELSE f[d]
  BY DEF Calls
<1>2. Idle \in Hands /\ Idle.phase = "recv" /\ \A c \in Dispatches : [Idle EXCEPT !.env = c, !.phase = "count"] \in Hands
  BY DEF Hands, Idle
<1>3. \A h \in Hands, p \in {"submit", "backoff"}, n \in Nat :
        /\ [h EXCEPT !.phase = p] \in Hands /\ [h EXCEPT !.root = n] \in Hands
        /\ [h EXCEPT !.phase = p, !.attempts = n] \in Hands /\ [h EXCEPT !.phase = p, !.root = n] \in Hands
        /\ h.root \in Nat /\ h.attempts \in Nat
  BY ZenonT(90) DEF Hands
<1> QED BY <1>1, <1>2, <1>3

\* The next root, and the next attempt.
LEMMA AttemptOrRoot ==
  \A h \in Hands :
    /\ [h EXCEPT !.root = h.root + 1] \in Hands /\ [h EXCEPT !.root = h.root + 1].env = h.env
    /\ [h EXCEPT !.phase = "backoff", !.attempts = h.attempts + 1] \in Hands
    /\ [h EXCEPT !.phase = "backoff", !.attempts = h.attempts + 1].env = h.env
<1> SUFFICES ASSUME NEW h \in Hands
             PROVE  /\ [h EXCEPT !.root = h.root + 1] \in Hands
                    /\ [h EXCEPT !.root = h.root + 1].env = h.env
                    /\ [h EXCEPT !.phase = "backoff", !.attempts = h.attempts + 1] \in Hands
                    /\ [h EXCEPT !.phase = "backoff", !.attempts = h.attempts + 1].env = h.env
  OBVIOUS
<1>1. h.root + 1 \in Nat /\ h.attempts + 1 \in Nat
  BY DEF Hands
<1> QED BY <1>1 DEF Hands

\* One delivery more.
LEMMA Receipt ==
  ASSUME NEW g \in Receipts, NEW e \in Dispatches, NEW n \in 1..RootCount
  PROVE  /\ [g EXCEPT ![e][n] = @ + 1] \in Receipts
         /\ \A d \in Dispatches, m \in 1..RootCount :
              [g EXCEPT ![e][n] = @ + 1][d][m] = IF d = e /\ m = n THEN g[d][m] + 1 ELSE g[d][m]
<1>0. g[e] \in [1..RootCount -> Nat]
  BY DEF Receipts
<1>3. g[e][n] \in Nat
  BY <1>0
<1>1. g[e] \in [1..RootCount -> Nat] /\ g[e][n] + 1 \in Nat
  BY <1>0, <1>3
<1>2. [g[e] EXCEPT ![n] = g[e][n] + 1] \in [1..RootCount -> Nat]
  BY <1>1
<1> QED BY <1>1, <1>2 DEF Receipts

\* A busy lane has a router, and its next attempt a back-off.
LEMMA NextAttempt ==
  ASSUME LaneInv, LaneBusy
  PROVE  /\ policy \in RouterPolicies
         /\ hand.attempts < policy.retries =>
              hand.attempts + 1 \in 1..8 /\ RetryBackoff(hand.attempts + 1) \in Nat
<1>1. policy \in RouterPolicies
  BY DEF LaneInv, LaneTypes, NoRouterYet
<1>2. policy.retries \in 0..8 /\ hand.attempts \in Nat
  <2>1. hand \in Hands
    BY DEF LaneInv, LaneTypes
  <2> QED BY <1>1, <2>1 DEF RouterPolicies, Hands
<1>3. hand.attempts < policy.retries => hand.attempts + 1 \in 1..8
  BY <1>2
<1> QED BY <1>1, <1>3, BackoffGrows

\* Every step keeps the types.
LEMMA LaneTypesStep ==
  ASSUME LaneInv, [LaneNext]_laneVars
  PROVE  LaneTypes'
<1>0. LaneTypes
  BY DEF LaneInv
<1> USE <1>0 DEF LaneTypes
<1>1. CASE CreateRouter
  BY <1>1, PolicyBounds DEF CreateRouter, LaneBusy
<1>2. ASSUME NEW c \in Dispatches,
             DispatchPayload(c) \/ CountThenSend(c) \/ SendRefused(c) \/ CountAfterSend(c)
      PROVE  LaneTypes'
  <2>1. PICK v \in CallStates : call' = [call EXCEPT ![c] = v]
    <3>1. ASSUME DispatchPayload(c) PROVE \E v \in CallStates : call' = [call EXCEPT ![c] = v]
      BY <3>1 DEF DispatchPayload, CallStates
    <3> QED BY <1>2, <3>1 DEF CountThenSend, SendRefused, CountAfterSend, CallStates
  <2>2. call' \in Calls
    BY <2>1, Typed
  <2>3. laneDepth' \in Int
    BY <1>2 DEF DispatchPayload, CountThenSend, SendRefused, CountAfterSend
  <2> QED BY <1>2, <2>2, <2>3 DEF DispatchPayload, CountThenSend, SendRefused, CountAfterSend, LaneBusy
<1>3. ASSUME NEW c \in Dispatches, SendCompletes(c) \/ TrySend(c)
      PROVE  LaneTypes'
  <2>1. Append(laneQueue, c) \in Seq(Dispatches)
    BY Enqueued
  <2>2. PICK v \in CallStates : call' = [call EXCEPT ![c] = v]
    BY <1>3 DEF SendCompletes, TrySend, CallStates
  <2>3. call' \in Calls
    BY <2>2, Typed
  <2>4. laneQueue' \in Seq(Dispatches)
    BY <1>3, <2>1 DEF SendCompletes, TrySend
  <2>5. buried' \in Nat /\ given' \subseteq Dispatches
    BY <1>3 DEF SendCompletes, TrySend
  <2> QED BY <1>3, <2>3, <2>4, <2>5 DEF SendCompletes, TrySend, LaneBusy
<1>4. CASE LaneReceives
  <2>1. Head(laneQueue) \in Dispatches /\ Tail(laneQueue) \in Seq(Dispatches)
    BY <1>4, Dequeued, SMTT(60) DEF LaneReceives
  <2>2. hand' \in Hands
    BY <1>4, <2>1, Typed DEF LaneReceives
  <2>3. slept' \in Seq(Nat)
    BY <1>4 DEF LaneReceives
  <2>4. hand'.env \in Dispatches
    BY <1>4, <2>1 DEF LaneReceives, Idle
  <2> QED BY <1>4, <2>1, <2>2, <2>3, <2>4 DEF LaneReceives
<1>5. CASE LaneCounts
  <2>1. hand' \in Hands /\ hand'.env = hand.env /\ LaneBusy
    BY <1>5, Typed, ZenonT(90) DEF LaneCounts, LaneBusy, Hands
  <2>2. laneDepth' \in Int
    BY <1>5 DEF LaneCounts, Decremented
  <2> QED BY <1>5, <2>1, <2>2 DEF LaneCounts
<1>6. CASE SubmitToRoot
  <2>1. hand.env \in Dispatches /\ hand.root \in 1..RootCount
    BY <1>6 DEF SubmitToRoot, LaneBusy
  <2>2. CASE hand' = Idle
    <3>1. hand' \in Hands /\ ~LaneBusy'
      BY <2>2, Typed DEF LaneBusy
    <3>2. got' \in Receipts
      BY <1>6, <2>1, Receipt DEF SubmitToRoot
    <3> QED BY <1>6, <3>1, <3>2, SMTT(60) DEF SubmitToRoot
  <2>3. CASE hand' = [hand EXCEPT !.root = hand.root + 1]
    <3>1. hand' \in Hands /\ hand'.env = hand.env
      BY <2>1, <2>3, AttemptOrRoot
    <3>2. got' \in Receipts
      BY <1>6, <2>1, Receipt DEF SubmitToRoot
    <3> QED BY <1>6, <2>1, <3>1, <3>2 DEF SubmitToRoot
  <2> QED BY <1>6, <2>2, <2>3 DEF SubmitToRoot
<1>7. CASE SubmitFails
  <2>0. LaneBusy
    BY <1>7 DEF SubmitFails, LaneBusy
  <2>1. hand' = [hand EXCEPT !.phase = "backoff", !.attempts = hand.attempts + 1]
    BY <1>7 DEF SubmitFails
  <2>2. hand' \in Hands /\ hand'.env = hand.env
    BY <2>1, AttemptOrRoot
  <2>3. slept' \in Seq(Nat)
    BY <1>7, <2>0, NextAttempt DEF SubmitFails
  <2> QED BY <1>7, <2>0, <2>2, <2>3 DEF SubmitFails
<1>8. CASE BackoffEnds
  <2>1. hand' \in Hands /\ hand'.env = hand.env /\ LaneBusy
    BY <1>8 DEF BackoffEnds, Hands, LaneBusy
  <2> QED BY <1>8, <2>1 DEF BackoffEnds
<1>9. CASE Bury
  <2>1. hand' \in Hands /\ ~LaneBusy' /\ hand.env \in Dispatches
    BY <1>9, Typed DEF Bury, LaneBusy
  <2> QED BY <1>9, <2>1, SMTT(60) DEF Bury
<1>10. CASE RootEnds \/ Unlist
  BY <1>10 DEF RootEnds, Unlist, LaneBusy
<1>11. CASE AbortLane
  <2>1. laneQueue' \in Seq(Dispatches)
    BY <1>11, SMTT(60) DEF AbortLane
  <2>2. hand' \in Hands /\ ~LaneBusy'
    BY <1>11, Typed DEF AbortLane, LaneBusy
  <2> QED BY <1>11, <2>1, <2>2 DEF AbortLane
<1>12. CASE UNCHANGED laneVars
  BY <1>12 DEF laneVars, LaneBusy
<1> QED BY <1>1, <1>2, <1>3, <1>4, <1>5, <1>6, <1>7, <1>8, <1>9, <1>10, <1>11, <1>12 DEF LaneNext, LaneStep

\* A call that goes on without an envelope being sent.
LEMMA CallKeeps ==
  ASSUME LaneInv, NEW c \in Dispatches, NEW v \in CallStates, call' = [call EXCEPT ![c] = v],
         \/ ~Sent(c) /\ v \notin {"ok", "uncounted"} /\ call[c] # "error"
         \/ Sent(c) /\ v \in {"ok", "uncounted"},
         policy = NoPolicy => v \in {"idle", "error"}, laneUp => policy # NoPolicy,
         UNCHANGED <<policy, listed, laneQueue, buried, hand, laneUp, got, given, slept>>,
         policy = NoPolicy => laneDepth' = laneDepth
  PROVE  OnePlace' /\ Kept' /\ Visited' /\ NoRouterYet' /\ Letters'
<1>0. LaneTypes
  BY DEF LaneInv
<1>1. \A d \in Dispatches : call'[d] = IF d = c THEN v ELSE call[d]
  BY <1>0 DEF LaneTypes, Calls
<1>2. \A d \in Dispatches : Sent(d)' <=> Sent(d)
  BY <1>1 DEF Sent
<1>3. /\ given \subseteq Dispatches /\ (LaneBusy => hand.env \in Dispatches)
      /\ \A i \in 1..Len(laneQueue) : laneQueue[i] \in Dispatches
  BY <1>0 DEF LaneTypes
<1>4. OnePlace'
  BY <1>1, <1>2, <1>3 DEF LaneInv, OnePlace, LaneBusy, Sent
<1>5. Kept'
  BY <1>2 DEF LaneInv, Kept, LaneBusy, DeliveredToAll
<1>6. NoRouterYet'
  BY <1>1 DEF LaneInv, NoRouterYet, LaneBusy
<1> QED BY <1>4, <1>5, <1>6 DEF LaneInv, Visited, Letters

\* An envelope enters the channel.
LEMMA SendKeeps ==
  ASSUME LaneInv, NEW c \in Dispatches, NEW v \in {"ok", "uncounted"}, call' = [call EXCEPT ![c] = v],
         call[c] \in {"routed", "sending"}, laneQueue' = Append(laneQueue, c),
         UNCHANGED <<policy, listed, buried, hand, laneUp, got, given, slept>>
  PROVE  OnePlace' /\ Kept' /\ Visited' /\ NoRouterYet' /\ Letters'
<1>0. LaneTypes /\ v \in CallStates
  BY DEF LaneInv, CallStates
<1>1. \A d \in Dispatches : call'[d] = IF d = c THEN v ELSE call[d]
  BY <1>0 DEF LaneTypes, Calls
<1>2. /\ given \subseteq Dispatches /\ (LaneBusy => hand.env \in Dispatches)
      /\ \A i \in 1..Len(laneQueue) : laneQueue[i] \in Dispatches
      /\ Len(laneQueue) \in Nat
  BY <1>0 DEF LaneTypes
<1>3. /\ Len(laneQueue') = Len(laneQueue) + 1 /\ laneQueue'[Len(laneQueue) + 1] = c
      /\ \A i \in 1..Len(laneQueue) : laneQueue'[i] = laneQueue[i]
  BY <1>0, Enqueued DEF LaneTypes
<1>4. \A i \in 1..Len(laneQueue') : i \in 1..Len(laneQueue) \/ i = Len(laneQueue) + 1
  BY <1>2, <1>3
<1>5. /\ \A i \in 1..Len(laneQueue) : laneQueue[i] # c
      /\ c \notin given /\ (LaneBusy => hand.env # c)
  BY DEF LaneInv, OnePlace, Sent
<1>6. Sent(c)' /\ \A d \in Dispatches : Sent(d) => Sent(d)'
  BY <1>1 DEF Sent
<1>7. OnePlace'
  <2>1. \A i \in 1..Len(laneQueue') : /\ call'[laneQueue'[i]] \in {"ok", "uncounted"}
                                      /\ laneQueue'[i] \notin given
                                      /\ LaneBusy => laneQueue'[i] # hand.env
    BY <1>1, <1>2, <1>3, <1>4, <1>5 DEF LaneInv, OnePlace, Sent
  <2>2. \A i, j \in 1..Len(laneQueue') : laneQueue'[i] = laneQueue'[j] => i = j
    BY <1>3, <1>4, <1>5 DEF LaneInv, OnePlace
  <2>3. LaneBusy => Sent(hand.env)' /\ hand.env \notin given
    BY <1>2, <1>6 DEF LaneInv, OnePlace
  <2>4. \A d \in given : Sent(d)' \/ call'[d] = "error"
    BY <1>1, <1>2, <1>5, <1>6 DEF LaneInv, OnePlace
  <2> QED BY <2>1, <2>2, <2>3, <2>4 DEF OnePlace, LaneBusy, Sent
<1>8. Kept'
  <2> SUFFICES ASSUME laneUp, NEW d \in Dispatches, Sent(d)'
               PROVE  \/ \E i \in 1..Len(laneQueue') : laneQueue'[i] = d
                      \/ LaneBusy /\ hand.env = d
                      \/ DeliveredToAll(d) \/ d \in given
    BY DEF Kept, LaneBusy, DeliveredToAll
  <2>1. CASE d = c
    BY <1>2, <1>3, <2>1
  <2>2. CASE d # c
    <3>1. Sent(d)
      BY <1>1, <2>2 DEF Sent
    <3>2. 1..Len(laneQueue) \subseteq 1..Len(laneQueue')
      BY <1>2, <1>3
    <3> QED BY <1>3, <3>1, <3>2 DEF LaneInv, Kept
  <2> QED BY <2>1, <2>2
<1>9. NoRouterYet'
  BY DEF LaneInv, NoRouterYet
<1> QED BY <1>7, <1>8, <1>9 DEF LaneInv, Visited, Letters

\* A step of a command keeps the places of the envelopes.
LEMMA CommandPlaces ==
  ASSUME LaneInv, NEW c \in Dispatches,
         \/ DispatchPayload(c) \/ CountThenSend(c) \/ SendCompletes(c) \/ SendRefused(c)
         \/ TrySend(c) \/ CountAfterSend(c)
  PROVE  OnePlace' /\ Kept' /\ Visited' /\ NoRouterYet' /\ Letters'
<1>0. LaneTypes /\ (laneUp => policy # NoPolicy)
  BY DEF LaneInv, NoRouterYet
<1>1. CASE DispatchPayload(c)
  <2>1. PICK v \in {"routed", "error"} : /\ call' = [call EXCEPT ![c] = v]
                                         /\ ~listed => v = "error"
    BY <1>1 DEF DispatchPayload
  <2>2. policy = NoPolicy => v = "error"
    BY <2>1 DEF LaneInv, NoRouterYet
  <2> QED BY <1>0, <1>1, <2>1, <2>2, CallKeeps DEF DispatchPayload, Sent, CallStates
<1>2. CASE CountThenSend(c)
  <2>1. policy # NoPolicy
    BY <1>2 DEF CountThenSend, NoPolicy
  <2> QED BY <1>2, <2>1, CallKeeps DEF CountThenSend, Sent, CallStates
<1>3. CASE SendRefused(c)
  <2>1. policy # NoPolicy
    BY <1>3 DEF SendRefused, LaneInv, NoRouterYet
  <2> QED BY <1>3, <2>1, CallKeeps DEF SendRefused, Sent, CallStates
<1>4. CASE CountAfterSend(c)
  <2>1. policy # NoPolicy
    BY <1>4 DEF CountAfterSend, LaneInv, NoRouterYet
  <2> QED BY <1>4, <2>1, CallKeeps DEF CountAfterSend, Sent, CallStates
<1>5. CASE SendCompletes(c)
  BY <1>5, SendKeeps DEF SendCompletes
<1>6. CASE TrySend(c)
  <2>0. policy # NoPolicy /\ call[c] = "routed"
    BY <1>6 DEF TrySend, NoPolicy
  <2>1. CASE laneQueue' = Append(laneQueue, c) /\ call' = [call EXCEPT ![c] = "uncounted"]
             /\ UNCHANGED <<buried, given>>
    BY <1>6, <2>0, <2>1, SendKeeps DEF TrySend
  <2>2. CASE call' = [call EXCEPT ![c] = "error"] /\ UNCHANGED <<laneQueue, buried, given>>
    BY <1>6, <2>0, <2>2, CallKeeps DEF TrySend, Sent, CallStates
  <2>3. CASE /\ call' = [call EXCEPT ![c] = "error"] /\ UNCHANGED laneQueue
             /\ buried' = buried + 1 /\ given' = given \cup {c}
    <3>1. \A d \in Dispatches : call'[d] = IF d = c THEN "error" ELSE call[d]
      BY <1>0, <2>3 DEF LaneTypes, Calls
    <3>2. \A d \in Dispatches : Sent(d)' <=> Sent(d)
      BY <2>0, <3>1 DEF Sent
    <3>3. /\ given \subseteq Dispatches /\ (LaneBusy => hand.env \in Dispatches)
          /\ \A i \in 1..Len(laneQueue) : laneQueue[i] \in Dispatches
      BY <1>0 DEF LaneTypes
    <3>4. ~Sent(c) /\ c \notin given
      BY <2>0 DEF LaneInv, OnePlace, Sent
    <3>5. UNCHANGED <<policy, listed, hand, laneUp, got, slept, laneDepth>>
      BY <1>6 DEF TrySend
    <3>6. OnePlace'
      BY <2>3, <3>1, <3>2, <3>3, <3>4, <3>5 DEF LaneInv, OnePlace, LaneBusy, Sent
    <3>7. Kept'
      BY <2>3, <3>2, <3>5 DEF LaneInv, Kept, LaneBusy, DeliveredToAll
    <3>8. Letters'
      BY <2>3, <3>4, FS_AddElement DEF LaneInv, Letters
    <3> QED BY <2>0, <3>5, <3>6, <3>7, <3>8 DEF LaneInv, Visited, NoRouterYet
  <2> QED BY <1>6, <2>1, <2>2, <2>3 DEF TrySend
<1> QED BY <1>1, <1>2, <1>3, <1>4, <1>5, <1>6

\* The lane goes on with the envelope in its hand.
LEMMA HandKeeps ==
  ASSUME LaneInv, LaneBusy, LaneBusy', hand'.env = hand.env,
         \/ hand'.phase = "backoff"
         \/ hand'.phase = "submit" /\ hand'.root = 1,
         UNCHANGED <<policy, listed, call, laneQueue, buried, laneUp, got, given>>
  PROVE  OnePlace' /\ Kept' /\ Visited' /\ NoRouterYet' /\ Letters'
<1>1. OnePlace'
  BY DEF LaneInv, OnePlace, Sent
<1>2. Kept'
  BY DEF LaneInv, Kept, Sent, DeliveredToAll
<1>3. Visited'
  BY DEF Visited
<1>4. NoRouterYet'
  BY DEF LaneInv, NoRouterYet
<1> QED BY <1>1, <1>2, <1>3, <1>4 DEF LaneInv, Letters

\* A step of the lane task keeps the places of the envelopes.
LEMMA TaskPlaces ==
  ASSUME LaneInv, LaneStep
  PROVE  OnePlace' /\ Kept' /\ Visited' /\ NoRouterYet' /\ Letters'
<1>0. /\ LaneTypes /\ hand \in Hands /\ given \subseteq Dispatches
      /\ \A i \in 1..Len(laneQueue) : laneQueue[i] \in Dispatches
  BY DEF LaneInv, LaneTypes
<1>1. CASE LaneReceives
  <2>1. /\ laneQueue # <<>> /\ ~LaneBusy /\ laneUp
        /\ hand' = [Idle EXCEPT !.env = Head(laneQueue), !.phase = "count"]
        /\ laneQueue' = Tail(laneQueue)
        /\ UNCHANGED <<policy, listed, call, buried, laneUp, got, given>>
    BY <1>1 DEF LaneReceives, LaneBusy
  <2>2. hand'.env = laneQueue[1] /\ hand'.phase = "count" /\ hand'.root = 1
    BY <1>0, <2>1, Dequeued DEF Idle, LaneTypes
  <2>3. /\ Len(laneQueue) \in Nat /\ Len(laneQueue) > 0 /\ Len(laneQueue') = Len(laneQueue) - 1
        /\ \A i \in 1..Len(laneQueue') : i + 1 \in 1..Len(laneQueue) /\ laneQueue'[i] = laneQueue[i + 1]
    BY <1>0, <2>1, Dequeued DEF LaneTypes
  <2>4. 1 \in 1..Len(laneQueue)
    BY <2>3
  <2>5. OnePlace'
    <3>1. \A i \in 1..Len(laneQueue') : /\ call[laneQueue'[i]] \in {"ok", "uncounted"}
                                        /\ laneQueue'[i] \notin given /\ laneQueue'[i] # hand'.env
      <4> SUFFICES ASSUME NEW i \in 1..Len(laneQueue')
                   PROVE  /\ call[laneQueue'[i]] \in {"ok", "uncounted"}
                          /\ laneQueue'[i] \notin given /\ laneQueue'[i] # hand'.env
        OBVIOUS
      <4>1. i + 1 \in 1..Len(laneQueue) /\ laneQueue'[i] = laneQueue[i + 1] /\ i + 1 # 1
        BY <2>3
      <4>2. call[laneQueue[i + 1]] \in {"ok", "uncounted"} /\ laneQueue[i + 1] \notin given
        BY <4>1 DEF LaneInv, OnePlace, Sent
      <4>3. laneQueue[i + 1] # laneQueue[1]
        BY <2>4, <4>1 DEF LaneInv, OnePlace
      <4> QED BY <2>2, <4>1, <4>2, <4>3
    <3>2. \A i, j \in 1..Len(laneQueue') : laneQueue'[i] = laneQueue'[j] => i = j
      <4> SUFFICES ASSUME NEW i \in 1..Len(laneQueue'), NEW j \in 1..Len(laneQueue'),
                          laneQueue'[i] = laneQueue'[j]
                   PROVE  i = j
        OBVIOUS
      <4>1. i + 1 \in 1..Len(laneQueue) /\ j + 1 \in 1..Len(laneQueue)
            /\ laneQueue[i + 1] = laneQueue[j + 1]
        BY <2>3
      <4>2. i + 1 = j + 1
        BY <4>1 DEF LaneInv, OnePlace
      <4> QED BY <4>2
    <3>3. call[hand'.env] \in {"ok", "uncounted"} /\ hand'.env \notin given
      BY <2>2, <2>4 DEF LaneInv, OnePlace, Sent
    <3>4. \A d \in given : call[d] \in {"ok", "uncounted", "error"}
      BY DEF LaneInv, OnePlace, Sent
    <3> QED BY <2>1, <3>1, <3>2, <3>3, <3>4 DEF OnePlace, Sent
  <2>6. Kept'
    <3> SUFFICES ASSUME NEW d \in Dispatches, Sent(d)
                 PROVE  \/ \E i \in 1..Len(laneQueue') : laneQueue'[i] = d
                        \/ hand'.env = d \/ DeliveredToAll(d) \/ d \in given
      BY <2>1, <2>2 DEF Kept, LaneBusy, DeliveredToAll, Sent
    <3>1. CASE \E i \in 1..Len(laneQueue) : laneQueue[i] = d
      <4>1. PICK i \in 1..Len(laneQueue) : laneQueue[i] = d
        BY <3>1
      <4>2. CASE i = 1
        BY <2>2, <4>1, <4>2
      <4>3. CASE i # 1
        <5>1. i - 1 \in 1..Len(laneQueue') /\ i - 1 + 1 = i
          BY <2>3, <4>3
        <5> QED BY <2>3, <4>1, <5>1
      <4> QED BY <4>2, <4>3
    <3> QED BY <2>1, <3>1 DEF LaneInv, Kept
  <2> QED BY <2>1, <2>2, <2>5, <2>6 DEF LaneInv, Visited, NoRouterYet, Letters
<1>2. CASE LaneCounts
  <2>1. LaneBusy /\ hand' = [hand EXCEPT !.phase = "submit"] /\ hand.root = 1
    BY <1>2 DEF LaneCounts, LaneBusy, LaneInv, Visited
  <2>2. LaneBusy' /\ hand'.env = hand.env /\ hand'.phase = "submit" /\ hand'.root = 1
    BY <1>0, <2>1 DEF Hands, LaneBusy
  <2> QED BY <1>2, <2>1, <2>2, HandKeeps DEF LaneCounts
<1>3. CASE SubmitFails
  <2>1. LaneBusy /\ hand' = [hand EXCEPT !.phase = "backoff", !.attempts = hand.attempts + 1]
    BY <1>3 DEF SubmitFails, LaneBusy
  <2>2. LaneBusy' /\ hand'.env = hand.env /\ hand'.phase = "backoff"
    BY <1>0, <2>1 DEF Hands, LaneBusy
  <2> QED BY <1>3, <2>1, <2>2, HandKeeps DEF SubmitFails
<1>4. CASE BackoffEnds
  <2>1. LaneBusy /\ hand' = [hand EXCEPT !.phase = "submit", !.root = 1]
    BY <1>4 DEF BackoffEnds, LaneBusy
  <2>2. LaneBusy' /\ hand'.env = hand.env /\ hand'.phase = "submit" /\ hand'.root = 1
    BY <1>0, <2>1 DEF Hands, LaneBusy
  <2> QED BY <1>4, <2>1, <2>2, HandKeeps DEF BackoffEnds
<1>5. CASE SubmitToRoot
  <2>1. /\ LaneBusy /\ hand.phase = "submit" /\ hand.env \in Dispatches /\ hand.root \in 1..RootCount
        /\ laneUp /\ got' = [got EXCEPT ![hand.env][hand.root] = @ + 1]
        /\ UNCHANGED <<policy, listed, call, laneQueue, buried, laneUp, given>>
    BY <1>0, <1>5 DEF SubmitToRoot, LaneBusy, LaneTypes
  <2>2. \A d \in Dispatches, m \in 1..RootCount :
          got'[d][m] = IF d = hand.env /\ m = hand.root THEN got[d][m] + 1 ELSE got[d][m]
    <3>1. got \in Receipts
      BY <1>0 DEF LaneTypes
    <3> QED BY <2>1, <3>1 DEF Receipts
  <2>3. \A d \in Dispatches, m \in 1..RootCount : got[d][m] \in Nat
    BY <1>0, ZenonT(90) DEF LaneTypes, Receipts
  <2>4. /\ \A d \in Dispatches : DeliveredToAll(d) => DeliveredToAll(d)'
        /\ \A m \in 1..RootCount : m <= hand.root => got'[hand.env][m] > 0
    BY <1>0, <2>1, <2>2, <2>3, SMTT(60) DEF LaneInv, DeliveredToAll, Visited
  <2>5. CASE hand.root = RootCount /\ hand' = Idle
    <3>1. ~LaneBusy' /\ hand'.phase = "recv"
      BY <2>5, Typed DEF LaneBusy
    <3>2. \A d \in Dispatches : d = hand.env => DeliveredToAll(d)'
      BY <2>4, <2>5 DEF DeliveredToAll
    <3>3. OnePlace'
      BY <2>1, <3>1 DEF LaneInv, OnePlace, Sent
    <3>4. Kept'
      BY <2>1, <2>4, <3>1, <3>2 DEF LaneInv, Kept, Sent
    <3> QED BY <2>1, <3>1, <3>3, <3>4 DEF LaneInv, Visited, NoRouterYet, Letters
  <2>6. CASE hand' = [hand EXCEPT !.root = hand.root + 1]
    <3>1. LaneBusy' /\ hand'.env = hand.env /\ hand'.phase = "submit" /\ hand'.root = hand.root + 1
      BY <1>0, <2>1, <2>6 DEF Hands, LaneBusy
    <3>2. OnePlace'
      BY <2>1, <3>1 DEF LaneInv, OnePlace, Sent
    <3>3. Kept'
      BY <2>1, <2>4, <3>1 DEF LaneInv, Kept, Sent
    <3>4. Visited'
      BY <2>1, <2>4, <3>1 DEF Visited
    <3> QED BY <2>1, <3>1, <3>2, <3>3, <3>4 DEF LaneInv, NoRouterYet, Letters
  <2> QED BY <1>5, <2>5, <2>6 DEF SubmitToRoot
<1>6. CASE Bury
  <2>1. /\ LaneBusy /\ hand' = Idle /\ hand.env \in Dispatches
        /\ buried' = buried + 1 /\ given' = given \cup {hand.env}
        /\ UNCHANGED <<policy, listed, call, laneQueue, laneUp, got>>
    BY <1>0, <1>6, SMTT(60) DEF Bury, LaneBusy, LaneTypes
  <2>2. ~LaneBusy' /\ hand'.phase = "recv"
    BY <2>1, Typed DEF LaneBusy
  <2>3. Sent(hand.env) /\ hand.env \notin given
        /\ \A i \in 1..Len(laneQueue) : laneQueue[i] # hand.env
    BY <2>1 DEF LaneInv, OnePlace
  <2>4. OnePlace'
    BY <2>1, <2>2, <2>3 DEF LaneInv, OnePlace, Sent
  <2>5. Kept'
    BY <2>1, <2>2 DEF LaneInv, Kept, Sent, DeliveredToAll
  <2>6. Letters'
    BY <2>1, <2>3, FS_AddElement DEF LaneInv, Letters
  <2> QED BY <2>1, <2>2, <2>4, <2>5, <2>6, SMTT(60) DEF LaneInv, Visited, NoRouterYet
<1> QED BY <1>1, <1>2, <1>3, <1>4, <1>5, <1>6 DEF LaneStep

\* Every step keeps the places of the envelopes.
LEMMA PlacesStep ==
  ASSUME LaneInv, [LaneNext]_laneVars
  PROVE  OnePlace' /\ Kept' /\ Visited' /\ NoRouterYet' /\ Letters'
<1>1. CASE CreateRouter
  <2>1. /\ policy = NoPolicy /\ policy' # NoPolicy
        /\ UNCHANGED <<call, laneQueue, buried, hand, got, given>>
    BY <1>1, PolicyBounds DEF CreateRouter
  <2>2. \A c \in Dispatches : ~Sent(c)'
    BY <2>1 DEF LaneInv, NoRouterYet, Sent
  <2>3. OnePlace'
    BY <2>1 DEF LaneInv, OnePlace, Sent, LaneBusy
  <2> QED BY <2>1, <2>2, <2>3 DEF LaneInv, Kept, Visited, NoRouterYet, Letters
<1>2. CASE RootEnds \/ Unlist
  <2>1. /\ UNCHANGED <<policy, call, laneQueue, buried, hand, laneUp, got, given, laneDepth, slept>>
        /\ policy = NoPolicy => listed' = listed
    BY <1>2 DEF RootEnds, Unlist, LaneInv, NoRouterYet
  <2>2. OnePlace' /\ Kept'
    BY <2>1, SMTT(60) DEF LaneInv, OnePlace, Kept, Sent, LaneBusy, DeliveredToAll
  <2> QED BY <2>1, <2>2 DEF LaneInv, Visited, NoRouterYet, Letters, LaneBusy
<1>3. CASE AbortLane
  <2>1. /\ policy # NoPolicy /\ ~laneUp' /\ laneQueue' = <<>> /\ hand' = Idle
        /\ UNCHANGED <<policy, call, buried, given>>
    BY <1>3, SMTT(60) DEF AbortLane, LaneInv, NoRouterYet
  <2>2. ~LaneBusy' /\ hand'.phase = "recv"
    BY <2>1, Typed DEF LaneBusy
  <2>3. OnePlace'
    BY <2>1, <2>2 DEF LaneInv, OnePlace, Sent
  <2> QED BY <2>1, <2>2, <2>3, SMTT(60) DEF LaneInv, Kept, Visited, NoRouterYet, Letters
<1>4. CASE UNCHANGED laneVars
  <2>1. OnePlace' /\ Kept'
    BY <1>4 DEF laneVars, LaneInv, OnePlace, Kept, Sent, LaneBusy, DeliveredToAll
  <2> QED BY <1>4, <2>1 DEF laneVars, LaneInv, Visited, NoRouterYet, Letters, LaneBusy
<1> QED BY <1>1, <1>2, <1>3, <1>4, CommandPlaces, TaskPlaces DEF LaneNext

\* What a step of a call does to those that wait and those that are not counted.
LEMMA Counting ==
  ASSUME NEW c \in Dispatches, NEW v \in CallStates,
         \A d \in Dispatches : call'[d] = IF d = c THEN v ELSE call[d],
         IsFiniteSet(Waiting), IsFiniteSet(Uncounted)
  PROVE  /\ IsFiniteSet(Waiting') /\ IsFiniteSet(Uncounted')
         /\ Cardinality(Waiting) \in Nat /\ Cardinality(Uncounted) \in Nat
         /\ Cardinality(Waiting') = Cardinality(Waiting) + (IF v = "sending" THEN 1 ELSE 0)
                                                         - (IF call[c] = "sending" THEN 1 ELSE 0)
         /\ Cardinality(Uncounted') = Cardinality(Uncounted) + (IF v = "uncounted" THEN 1 ELSE 0)
                                                             - (IF call[c] = "uncounted" THEN 1 ELSE 0)
         /\ v # "uncounted" /\ Uncounted = {} => Uncounted' = {}
<1>2. /\ Waiting' = IF v = "sending" THEN Waiting \cup {c} ELSE Waiting \ {c}
      /\ c \in Waiting <=> call[c] = "sending"
  BY DEF Waiting
<1>3. /\ Uncounted' = IF v = "uncounted" THEN Uncounted \cup {c} ELSE Uncounted \ {c}
      /\ c \in Uncounted <=> call[c] = "uncounted"
  BY DEF Uncounted
<1>4. \A S : IsFiniteSet(S) =>
        /\ Cardinality(S) \in Nat
        /\ IsFiniteSet(S \cup {c}) /\ IsFiniteSet(S \ {c})
        /\ Cardinality(S \cup {c}) = IF c \in S THEN Cardinality(S) ELSE Cardinality(S) + 1
        /\ Cardinality(S \ {c}) = IF c \in S THEN Cardinality(S) - 1 ELSE Cardinality(S)
  BY FS_AddElement, FS_RemoveElement, FS_CardinalityType
<1>5. /\ IsFiniteSet(Waiting') /\ Cardinality(Waiting) \in Nat
      /\ Cardinality(Waiting') = Cardinality(Waiting) + (IF v = "sending" THEN 1 ELSE 0)
                                                      - (IF call[c] = "sending" THEN 1 ELSE 0)
  <2>0. /\ Cardinality(Waiting) \in Nat
        /\ IsFiniteSet(Waiting \cup {c}) /\ IsFiniteSet(Waiting \ {c})
        /\ Cardinality(Waiting \cup {c}) = IF c \in Waiting THEN Cardinality(Waiting) ELSE Cardinality(Waiting) + 1
        /\ Cardinality(Waiting \ {c}) = IF c \in Waiting THEN Cardinality(Waiting) - 1 ELSE Cardinality(Waiting)
    BY <1>4
  <2>1. CASE v = "sending"
    <3>1. Waiting' = Waiting \cup {c}
      BY <1>2, <2>1
    <3>2. IsFiniteSet(Waiting') /\ Cardinality(Waiting') = IF c \in Waiting THEN Cardinality(Waiting) ELSE Cardinality(Waiting) + 1
      BY <2>0, <3>1
    <3> QED BY <1>2, <2>0, <2>1, <3>2
  <2>2. CASE v # "sending"
    <3>1. Waiting' = Waiting \ {c}
      BY <1>2, <2>2
    <3>2. IsFiniteSet(Waiting') /\ Cardinality(Waiting') = IF c \in Waiting THEN Cardinality(Waiting) - 1 ELSE Cardinality(Waiting)
      BY <2>0, <3>1
    <3> QED BY <1>2, <2>0, <2>2, <3>2
  <2> QED BY <2>1, <2>2
<1>6. /\ IsFiniteSet(Uncounted') /\ Cardinality(Uncounted) \in Nat
      /\ Cardinality(Uncounted') = Cardinality(Uncounted) + (IF v = "uncounted" THEN 1 ELSE 0)
                                                          - (IF call[c] = "uncounted" THEN 1 ELSE 0)
  <2>0. /\ Cardinality(Uncounted) \in Nat
        /\ IsFiniteSet(Uncounted \cup {c}) /\ IsFiniteSet(Uncounted \ {c})
        /\ Cardinality(Uncounted \cup {c}) = IF c \in Uncounted THEN Cardinality(Uncounted) ELSE Cardinality(Uncounted) + 1
        /\ Cardinality(Uncounted \ {c}) = IF c \in Uncounted THEN Cardinality(Uncounted) - 1 ELSE Cardinality(Uncounted)
    BY <1>4
  <2>1. CASE v = "uncounted"
    <3>1. Uncounted' = Uncounted \cup {c}
      BY <1>3, <2>1
    <3>2. IsFiniteSet(Uncounted') /\ Cardinality(Uncounted') = IF c \in Uncounted THEN Cardinality(Uncounted) ELSE Cardinality(Uncounted) + 1
      BY <2>0, <3>1
    <3> QED BY <1>3, <2>0, <2>1, <3>2
  <2>2. CASE v # "uncounted"
    <3>1. Uncounted' = Uncounted \ {c}
      BY <1>3, <2>2
    <3>2. IsFiniteSet(Uncounted') /\ Cardinality(Uncounted') = IF c \in Uncounted THEN Cardinality(Uncounted) - 1 ELSE Cardinality(Uncounted)
      BY <2>0, <3>1
    <3> QED BY <1>3, <2>0, <2>2, <3>2
  <2> QED BY <2>1, <2>2
<1>7. v # "uncounted" /\ Uncounted = {} => Uncounted' = {}
  BY <1>3
<1> QED BY <1>5, <1>6, <1>7

\* Every step keeps the depth a bound of what is queued.
LEMMA DepthsStep ==
  ASSUME LaneInv, [LaneNext]_laneVars
  PROVE  Depths'
<1>0. /\ call \in Calls /\ laneQueue \in Seq(Dispatches) /\ laneDepth \in Int
      /\ IsFiniteSet(Waiting) /\ IsFiniteSet(Uncounted)
      /\ Cardinality(Waiting) \in Nat /\ Cardinality(Uncounted) \in Nat /\ Len(laneQueue) \in Nat
      /\ Taken \in {0, 1}
  BY FS_CardinalityType DEF LaneInv, LaneTypes, Depths, Taken
<1>1. CASE CreateRouter
  <2>1. /\ \A c \in Dispatches : call[c] \in {"idle", "error"}
        /\ laneDepth = 0 /\ laneQueue = <<>> /\ ~LaneBusy
    BY <1>1 DEF CreateRouter, LaneInv, NoRouterYet
  <2>2. Waiting' = {} /\ Uncounted' = {} /\ Len(laneQueue') = 0 /\ laneDepth' = 0 /\ Taken' = 0
    BY <1>1, <2>1 DEF CreateRouter, Waiting, Uncounted, Taken, LaneBusy
  <2> QED BY <2>2, FS_EmptySet DEF Depths
<1>2. ASSUME NEW c \in Dispatches, DispatchPayload(c)
      PROVE  Depths'
  <2>1. PICK v \in {"routed", "error"} : call' = [call EXCEPT ![c] = v]
    BY <1>2 DEF DispatchPayload
  <2>2. v \in CallStates /\ call[c] = "idle" /\ Taken' = Taken
        /\ UNCHANGED <<policy, laneUp, laneDepth, laneQueue>>
    BY <1>2 DEF DispatchPayload, CallStates, Taken
  <2>4. \A d \in Dispatches : call'[d] = IF d = c THEN v ELSE call[d]
    BY <1>0, <2>1, <2>2 DEF Calls
  <2>5. /\ IsFiniteSet(Waiting') /\ IsFiniteSet(Uncounted')
        /\ Cardinality(Waiting') = Cardinality(Waiting)
        /\ Cardinality(Uncounted') = Cardinality(Uncounted)
        /\ Uncounted = {} => Uncounted' = {}
    BY <1>0, <2>1, <2>2, <2>4, Counting, SMTT(60)
  <2> QED BY <1>0, <2>2, <2>5 DEF LaneInv, Depths
<1>3. ASSUME NEW c \in Dispatches, CountThenSend(c)
      PROVE  Depths'
  <2>1. /\ call' = [call EXCEPT ![c] = "sending"] /\ "sending" \in CallStates /\ call[c] = "routed"
        /\ Taken' = Taken /\ laneDepth' = laneDepth + 1 /\ UNCHANGED <<policy, laneUp, laneQueue>>
    BY <1>3 DEF CountThenSend, CallStates, Taken
  <2>4. \A d \in Dispatches : call'[d] = IF d = c THEN "sending" ELSE call[d]
    BY <1>0, <2>1 DEF Calls
  <2>5. /\ IsFiniteSet(Waiting') /\ IsFiniteSet(Uncounted')
        /\ Cardinality(Waiting') = Cardinality(Waiting) + 1
        /\ Cardinality(Uncounted') = Cardinality(Uncounted)
        /\ Uncounted = {} => Uncounted' = {}
    BY <1>0, <2>1, <2>4, Counting
  <2> QED BY <1>0, <2>1, <2>5, SMTT(60) DEF LaneInv, Depths
<1>4. ASSUME NEW c \in Dispatches, SendCompletes(c)
      PROVE  Depths'
  <2>1. /\ call' = [call EXCEPT ![c] = "ok"] /\ "ok" \in CallStates /\ call[c] = "sending"
        /\ Taken' = Taken /\ UNCHANGED <<policy, laneUp, laneDepth>>
    BY <1>4 DEF SendCompletes, CallStates, Taken
  <2>2. Len(laneQueue') = Len(laneQueue) + 1
    BY <1>0, <1>4, Enqueued DEF SendCompletes
  <2>3. PICK v \in CallStates : v = "ok"
    BY <2>1
  <2>4. \A d \in Dispatches : call'[d] = IF d = c THEN v ELSE call[d]
    BY <1>0, <2>1, <2>3 DEF Calls
  <2>5. /\ IsFiniteSet(Waiting') /\ IsFiniteSet(Uncounted')
        /\ Cardinality(Waiting') = Cardinality(Waiting) - 1
        /\ Cardinality(Uncounted') = Cardinality(Uncounted)
        /\ Uncounted = {} => Uncounted' = {}
    BY <1>0, <2>1, <2>3, <2>4, Counting
  <2> QED BY <1>0, <2>1, <2>2, <2>5, SMTT(60) DEF LaneInv, Depths
<1>5. ASSUME NEW c \in Dispatches, SendRefused(c)
      PROVE  Depths'
  <2>1. /\ call' = [call EXCEPT ![c] = "error"] /\ "error" \in CallStates
        /\ ~laneUp' /\ UNCHANGED policy
    BY <1>5 DEF SendRefused, CallStates
  <2>4. \A d \in Dispatches : call'[d] = IF d = c THEN "error" ELSE call[d]
    BY <1>0, <2>1 DEF Calls
  <2>5. /\ IsFiniteSet(Waiting') /\ IsFiniteSet(Uncounted')
        /\ Uncounted = {} => Uncounted' = {}
    BY <1>0, <2>1, <2>4, Counting
  <2> QED BY <2>1, <2>5 DEF LaneInv, Depths
<1>6. ASSUME NEW c \in Dispatches, TrySend(c)
      PROVE  Depths'
  <2>1. /\ policy.strategy = "reject" /\ call[c] = "routed" /\ Taken' = Taken
        /\ UNCHANGED <<policy, laneUp, laneDepth>>
    BY <1>6 DEF TrySend, Taken
  <2>2. CASE laneQueue' = Append(laneQueue, c) /\ call' = [call EXCEPT ![c] = "uncounted"]
    <3>1. Len(laneQueue') = Len(laneQueue) + 1 /\ "uncounted" \in CallStates
      BY <1>0, <2>2, Enqueued DEF CallStates
    <3>4. \A d \in Dispatches : call'[d] = IF d = c THEN "uncounted" ELSE call[d]
      BY <1>0, <2>1, <2>2, <3>1 DEF Calls
    <3>5. /\ IsFiniteSet(Waiting') /\ IsFiniteSet(Uncounted')
          /\ Cardinality(Waiting') = Cardinality(Waiting)
          /\ Cardinality(Uncounted') = Cardinality(Uncounted) + 1
      BY <1>0, <2>1, <2>2, <3>1, <3>4, Counting
    <3> QED BY <1>0, <2>1, <3>1, <3>5 DEF LaneInv, Depths
  <2>3. CASE laneQueue' = laneQueue /\ call' = [call EXCEPT ![c] = "error"]
    <3>1. PICK v \in CallStates : v = "error"
      BY DEF CallStates
    <3>4. \A d \in Dispatches : call'[d] = IF d = c THEN v ELSE call[d]
      BY <1>0, <2>1, <2>3, <3>1 DEF Calls
    <3>5. /\ IsFiniteSet(Waiting') /\ IsFiniteSet(Uncounted')
          /\ Cardinality(Waiting') = Cardinality(Waiting)
          /\ Cardinality(Uncounted') = Cardinality(Uncounted)
      BY <1>0, <2>1, <3>1, <3>4, Counting
    <3> QED BY <1>0, <2>1, <2>3, <3>5 DEF LaneInv, Depths
  <2> QED BY <1>6, <2>2, <2>3 DEF TrySend
<1>7. ASSUME NEW c \in Dispatches, CountAfterSend(c)
      PROVE  Depths'
  <2>1. /\ call' = [call EXCEPT ![c] = "ok"] /\ "ok" \in CallStates /\ call[c] = "uncounted"
        /\ Taken' = Taken /\ laneDepth' = laneDepth + 1 /\ UNCHANGED <<policy, laneUp, laneQueue>>
    BY <1>7 DEF CountAfterSend, CallStates, Taken
  <2>2. policy.strategy # "block"
    BY <2>1 DEF LaneInv, Depths, Uncounted
  <2>4. \A d \in Dispatches : call'[d] = IF d = c THEN "ok" ELSE call[d]
    BY <1>0, <2>1 DEF Calls
  <2>5. /\ IsFiniteSet(Waiting') /\ IsFiniteSet(Uncounted')
        /\ Cardinality(Waiting') = Cardinality(Waiting)
        /\ Cardinality(Uncounted') = Cardinality(Uncounted) - 1
    BY <1>0, <2>1, <2>4, Counting
  <2> QED BY <1>0, <2>1, <2>2, <2>5 DEF LaneInv, Depths
<1>8. ASSUME UNCHANGED <<policy, call, laneDepth, laneQueue>>, laneUp' => laneUp, Taken' = Taken
      PROVE  Depths'
  BY <1>8 DEF LaneInv, Depths, Waiting, Uncounted
<1>9. CASE LaneReceives
  <2>1. Taken = 0 /\ Taken' = 1
    BY <1>9 DEF LaneReceives, Taken, Idle
  <2>2. Len(laneQueue') = Len(laneQueue) - 1
    BY <1>0, <1>9, Dequeued DEF LaneReceives
  <2>3. Waiting' = Waiting /\ Uncounted' = Uncounted /\ UNCHANGED <<policy, laneDepth, laneUp>>
    BY <1>9 DEF LaneReceives, Waiting, Uncounted
  <2> QED BY <1>0, <2>1, <2>2, <2>3 DEF LaneInv, Depths
<1>10. CASE LaneCounts
  <2>1. hand \in Hands
    BY DEF LaneInv, LaneTypes
  <2>2. Taken = 1 /\ Taken' = 0
    BY <1>10, <2>1 DEF LaneCounts, Taken, Hands
  <2>3. Waiting' = Waiting /\ Uncounted' = Uncounted /\ UNCHANGED <<policy, laneQueue, laneUp>>
        /\ laneDepth' = IF laneDepth > 0 THEN laneDepth - 1 ELSE 0
    BY <1>10 DEF LaneCounts, Waiting, Uncounted, Decremented
  <2> QED BY <1>0, <2>2, <2>3 DEF LaneInv, Depths
<1>11. CASE SubmitToRoot \/ SubmitFails \/ BackoffEnds \/ Bury
  <2>1. hand \in Hands
    BY DEF LaneInv, LaneTypes
  <2>2. Taken = 0 /\ Taken' = 0
    <3>0. \/ hand' = Idle
          \/ hand' = [hand EXCEPT !.root = hand.root + 1]
          \/ hand' = [hand EXCEPT !.phase = "backoff", !.attempts = hand.attempts + 1]
          \/ hand' = [hand EXCEPT !.phase = "submit", !.root = 1]
      BY <1>11 DEF SubmitToRoot, SubmitFails, BackoffEnds, Bury
    <3>1. hand.phase # "count"
      BY <1>11 DEF SubmitToRoot, SubmitFails, BackoffEnds, Bury
    <3>2. hand'.phase # "count"
      <4>1. CASE hand' = [hand EXCEPT !.root = hand.root + 1]
        BY <2>1, <3>1, <4>1 DEF Hands
      <4>2. CASE hand' = [hand EXCEPT !.phase = "backoff", !.attempts = hand.attempts + 1]
        BY <2>1, <4>2 DEF Hands
      <4>3. CASE hand' = [hand EXCEPT !.phase = "submit", !.root = 1]
        BY <2>1, <4>3 DEF Hands
      <4> QED BY <3>0, <4>1, <4>2, <4>3 DEF Idle
    <3> QED BY <3>1, <3>2 DEF Taken
  <2> QED BY <1>8, <1>11, <2>2 DEF SubmitToRoot, SubmitFails, BackoffEnds, Bury
<1>12. CASE AbortLane
  <2>1. ~laneUp' /\ UNCHANGED <<policy, call>>
    BY <1>12 DEF AbortLane
  <2> QED BY <2>1 DEF LaneInv, Depths, Waiting, Uncounted
<1>13. CASE RootEnds \/ Unlist \/ UNCHANGED laneVars
  BY <1>8, <1>13 DEF RootEnds, Unlist, laneVars, Taken
<1> QED BY <1>1, <1>2, <1>3, <1>4, <1>5, <1>6, <1>7, <1>9, <1>10, <1>11, <1>12, <1>13 DEF LaneNext, LaneStep

\* Every step keeps the back-offs those of the attempts.
LEMMA BackoffsStep ==
  ASSUME LaneInv, [LaneNext]_laneVars
  PROVE  Backoffs'
<1>0. hand \in Hands /\ slept \in Seq(Nat)
  BY DEF LaneInv, LaneTypes
<1>1. CASE CreateRouter
  BY <1>1 DEF CreateRouter, LaneInv, NoRouterYet, Backoffs, LaneBusy
<1>2. ASSUME UNCHANGED <<policy, slept>>, LaneBusy' => LaneBusy /\ hand'.attempts = hand.attempts
      PROVE  Backoffs'
  BY <1>2 DEF LaneInv, Backoffs, RetryBackoff
<1>3. ASSUME NEW c \in Dispatches,
             \/ DispatchPayload(c) \/ CountThenSend(c) \/ SendCompletes(c) \/ SendRefused(c)
             \/ TrySend(c) \/ CountAfterSend(c)
      PROVE  Backoffs'
  <2>1. UNCHANGED <<policy, slept, hand>>
    BY <1>3 DEF DispatchPayload, CountThenSend, SendCompletes, SendRefused, TrySend, CountAfterSend
  <2> QED BY <1>2, <2>1 DEF LaneBusy
<1>4. CASE LaneReceives
  <2>1. slept' = <<>> /\ hand'.attempts = 0 /\ policy' = policy
    BY <1>4 DEF LaneReceives, Idle
  <2>2. laneUp
    BY <1>4 DEF LaneReceives
  <2>3. policy.retries \in 0..8
    BY <2>2 DEF LaneInv, LaneTypes, NoRouterYet, RouterPolicies
  <2> QED BY <2>1, <2>3 DEF Backoffs
<1>5. CASE SubmitFails
  <2>1. /\ LaneBusy /\ hand.attempts < policy.retries /\ policy' = policy
        /\ hand' = [hand EXCEPT !.phase = "backoff", !.attempts = hand.attempts + 1]
        /\ slept' = Append(slept, RetryBackoff(hand.attempts + 1))
    BY <1>5 DEF SubmitFails, LaneBusy
  <2>2. /\ hand'.attempts = hand.attempts + 1 /\ hand.attempts \in Nat
    BY <1>0, <2>1 DEF Hands
  <2>3. /\ policy \in RouterPolicies
        /\ hand.attempts + 1 \in 1..8 /\ RetryBackoff(hand.attempts + 1) \in Nat
    BY <2>1, NextAttempt
  <2>4. /\ Len(slept) = hand.attempts /\ Len(slept') = hand.attempts + 1
        /\ \A i \in 1..Len(slept) : slept'[i] = slept[i]
        /\ slept'[hand.attempts + 1] = RetryBackoff(hand.attempts + 1)
    <3>1. Len(slept) = hand.attempts
      BY <2>1 DEF LaneInv, Backoffs
    <3> QED BY <1>0, <2>1, <2>3, <3>1, Enqueued
  <2>5. hand.attempts + 1 <= policy.retries
    BY <2>1, <2>2, <2>3, SMTT(60) DEF RouterPolicies
  <2>6. \A i \in 1..Len(slept') : i <= 8 /\ slept'[i] = RetryBackoff(i)
    <3> SUFFICES ASSUME NEW i \in 1..Len(slept') PROVE i <= 8 /\ slept'[i] = RetryBackoff(i)
      OBVIOUS
    <3>1. CASE i = hand.attempts + 1
      BY <2>3, <2>4, <3>1
    <3>2. CASE i \in 1..Len(slept)
      BY <2>4, <3>2 DEF LaneInv, Backoffs
    <3> QED BY <2>2, <2>4, <3>1, <3>2
  <2> QED BY <2>1, <2>2, <2>4, <2>5, <2>6 DEF Backoffs, RetryBackoff
<1>6. CASE LaneCounts \/ BackoffEnds \/ SubmitToRoot \/ Bury
  <2>1. LaneBusy /\ UNCHANGED <<policy, slept>>
    BY <1>6 DEF LaneCounts, BackoffEnds, SubmitToRoot, Bury, LaneBusy
  <2>2. hand'.phase = "recv" \/ hand'.attempts = hand.attempts
    <3>1. \/ hand' = Idle
          \/ hand' = [hand EXCEPT !.root = hand.root + 1]
          \/ hand' = [hand EXCEPT !.phase = "submit"]
          \/ hand' = [hand EXCEPT !.phase = "submit", !.root = 1]
      BY <1>6 DEF LaneCounts, BackoffEnds, SubmitToRoot, Bury
    <3>2. CASE hand' = [hand EXCEPT !.root = hand.root + 1]
      BY <1>0, <3>2 DEF Hands
    <3>3. CASE hand' = [hand EXCEPT !.phase = "submit"]
      BY <1>0, <3>3 DEF Hands
    <3>4. CASE hand' = [hand EXCEPT !.phase = "submit", !.root = 1]
      BY <1>0, <3>4 DEF Hands
    <3> QED BY <3>1, <3>2, <3>3, <3>4 DEF Idle
  <2> QED BY <1>2, <2>1, <2>2 DEF LaneBusy
<1>7. CASE RootEnds \/ Unlist \/ UNCHANGED laneVars
  BY <1>2, <1>7 DEF RootEnds, Unlist, laneVars, LaneBusy
<1>8. CASE AbortLane
  <2>1. ~LaneBusy' /\ UNCHANGED <<policy, slept>>
    BY <1>8, Typed DEF AbortLane, LaneBusy
  <2> QED BY <1>2, <2>1, SMTT(60)
<1> QED BY <1>1, <1>3, <1>4, <1>5, <1>6, <1>7, <1>8 DEF LaneNext, LaneStep

\* An envelope a command was told Ok about is queued, in the hand of the lane,
\* delivered to every root or counted as a dead letter; the depth covers what
\* is queued, exactly so for a blocking lane; the back-offs keep the policy
\* (src-tauri/src/runtime.rs:236-500): for any commands, roots and policies.
THEOREM LaneIsSound == LaneSpec => []LaneSound
<1>1. LaneInv => LaneSound
  <2> SUFFICES ASSUME LaneInv PROVE LaneSound
    OBVIOUS
  <2>1. NoSilentLoss
    BY DEF LaneInv, Letters, Kept, Sent, NoSilentLoss
  <2>2. DepthCoversQueue
    <3>1. laneDepth \in Int /\ Cardinality(Uncounted) \in Nat /\ Cardinality(Waiting) \in Nat
          /\ Len(laneQueue) \in Nat
      BY FS_CardinalityType DEF LaneInv, LaneTypes, Depths
    <3> QED BY <3>1 DEF LaneInv, Depths, Taken, DepthCoversQueue
  <2>3. BackoffWithinPolicy
    <3>1. CASE policy = NoPolicy
      BY <3>1 DEF LaneInv, NoRouterYet, BackoffWithinPolicy
    <3>2. CASE policy \in RouterPolicies
      <4>1. \A i \in 1..Len(slept) : i \in 1..8 /\ slept[i] = RetryBackoff(i)
        BY DEF LaneInv, LaneTypes, Backoffs
      <4>2. \A i \in 1..Len(slept) : i > 1 => i \in 2..8 /\ i - 1 \in 1..Len(slept)
        BY <4>1 DEF LaneInv, LaneTypes
      <4> QED BY <3>2, <4>1, <4>2, BackoffGrows DEF BackoffWithinPolicy
    <3> QED BY <3>1, <3>2 DEF LaneInv, LaneTypes
  <2> QED BY <2>1, <2>2, <2>3 DEF LaneSound
<1>2. LaneInv /\ [LaneNext]_laneVars => LaneInv'
  BY LaneTypesStep, PlacesStep, DepthsStep, BackoffsStep DEF LaneInv
<1> QED BY <1>1, <1>2, LaneInitOk, PTL DEF LaneSpec

(***************************************************************************)
(* Outcomes of the I/O nodes (NodeIo).                                     *)
(***************************************************************************)
\* A streak counts up to the threshold; its faults are booked on the record when
\* every node that met one tells of it.
IoTypes ==
  /\ ioHealth \in H!Record
  /\ ioStreak.kinds \subseteq NodeKinds /\ ioStreak.faults \in 0..IoThreshold
  /\ ioStreak = [kinds |-> ioStreak.kinds, faults |-> ioStreak.faults]
StreakIsBooked ==
  ioStreak.kinds \subseteq Telling =>
    /\ ioHealth.fails >= ioStreak.faults
    /\ ioStreak.faults = IoThreshold => ioHealth.phase = "CircuitOpen" /\ H!Running(ioHealth.circuit)

IoInv == IoTypes /\ StreakIsBooked /\ SimulationIsAsked

\* The limits and times of the connection.
LEMMA IoLimits ==
  /\ IoThreshold \in Nat /\ IoThreshold > 0 /\ IoOpenTime \in Nat /\ IoOpenTime > 0
  /\ H!None \in H!Moment /\ IoOpenTime \in H!Moment /\ 1 \in H!Moment
  /\ \A n \in Nat \ {0} : H!ReconnectDelay(n) \in H!Moment
<1>1. IoThreshold \in Nat /\ IoThreshold > 0 /\ IoOpenTime \in Nat /\ IoOpenTime > 0
  BY NodeIoAssumption
<1>2. ASSUME NEW n \in Nat \ {0} PROVE H!ReconnectDelay(n) \in Nat
  <2> DEFINE i == H!Least(n, 7)
  <2>1. i \in 1..7
    BY DEF H!Least
  <2> HIDE DEF i
  <2>2. H!Doublings[i] \in Nat
    BY <2>1 DEF H!Doublings
  <2>3. H!ReconnectDelay(n) = H!Least(1 * H!Doublings[i], 1)
    BY DEF H!ReconnectDelay, i
  <2> QED BY <2>2, <2>3 DEF H!Least
<1> QED BY <1>1, <1>2 DEF H!Moment

\* What the transitions of a health record yield (ConnectionHealth): a fault is
\* counted, and the circuit opens at the threshold.
LEMMA IoFailed ==
  ASSUME NEW r \in H!Record
  PROVE  /\ H!Failed(r, FALSE) \in H!Record
         /\ H!Failed(r, FALSE).fails = H!Least(r.fails + 1, IoThreshold)
         /\ r.fails + 1 >= IoThreshold =>
              H!Failed(r, FALSE).phase = "CircuitOpen" /\ H!Failed(r, FALSE).circuit = IoOpenTime
<1> DEFINE n == H!Least(r.fails + 1, IoThreshold)
           f == [r EXCEPT !.fails = n, !.faulty = TRUE]
<1>1. n \in 0..IoThreshold /\ n \in Nat \ {0} /\ (n >= IoThreshold <=> r.fails + 1 >= IoThreshold)
  BY IoLimits DEF H!Record, H!Least
<1>2. f \in H!Record /\ f.fails = n
  BY <1>1 DEF H!Record
<1>3. H!ReconnectDelay(n) \in H!Moment
  BY <1>1, IoLimits
<1> HIDE DEF n, f
<1>4. H!Failed(r, FALSE) = IF n >= IoThreshold
        THEN [f EXCEPT !.phase = "CircuitOpen", !.circuit = IoOpenTime, !.retry = IoOpenTime]
        ELSE [f EXCEPT !.phase = "Reconnecting", !.circuit = H!None, !.retry = H!ReconnectDelay(n)]
  BY DEF H!Failed, n, f
<1>5. CASE n >= IoThreshold
  BY <1>1, <1>2, <1>4, <1>5, IoLimits, ZenonT(90) DEF H!Record, H!Phase, n
<1>6. CASE ~(n >= IoThreshold)
  BY <1>1, <1>2, <1>3, <1>4, <1>6, IoLimits, ZenonT(90) DEF H!Record, H!Phase, n
<1> QED BY <1>5, <1>6

LEMMA IoSucceeded == \A r \in H!Record : H!Succeeded(r) \in H!Record
<1>1. 0 \in 0..IoThreshold /\ 0 + 1 \in H!Moment
  BY IoLimits DEF H!Moment
<1> QED BY <1>1, IoLimits DEF H!Succeeded, H!Record, H!Phase

\* The checks of time keep the counter, and an open circuit that still runs.
LEMMA IoReconciled ==
  ASSUME NEW r \in H!Record
  PROVE  /\ H!Reconcile(r) \in H!Record /\ H!Reconcile(r).fails = r.fails
         /\ r.phase = "CircuitOpen" /\ H!Running(r.circuit) =>
              H!Reconcile(r).phase = "CircuitOpen" /\ H!Reconcile(r).circuit = r.circuit
<1> DEFINE StaysOpen(q, p) ==
             /\ p \in H!Record /\ p.fails = q.fails
             /\ q.phase = "CircuitOpen" /\ H!Running(q.circuit) =>
                  p.phase = "CircuitOpen" /\ p.circuit = q.circuit
<1>1. ASSUME NEW q \in H!Record PROVE StaysOpen(q, H!LimitOver(q))
  <2>1. H!LimitOver(q) \in H!Record
    BY ZenonT(90) DEF H!LimitOver, H!Record, H!Moment, H!Ended, H!None, H!Phase
  <2>2. H!LimitOver(q).fails = q.fails
    BY DEF H!LimitOver, H!Record
  <2>3. ASSUME q.phase = "CircuitOpen", H!Running(q.circuit)
        PROVE  H!LimitOver(q).phase = "CircuitOpen" /\ H!LimitOver(q).circuit = q.circuit
    BY <2>3 DEF H!LimitOver, H!Record, H!Moment, H!Ended, H!None, H!Running
  <2> QED BY <2>1, <2>2, <2>3
<1>2. ASSUME NEW q \in H!Record PROVE StaysOpen(q, H!CircuitOver(q))
  <2>1. H!CircuitOver(q) \in H!Record
    BY ZenonT(90) DEF H!CircuitOver, H!Record, H!Moment, H!Ended, H!None, H!Phase
  <2>2. H!CircuitOver(q).fails = q.fails
    BY DEF H!CircuitOver, H!Record
  <2>3. ASSUME q.phase = "CircuitOpen", H!Running(q.circuit)
        PROVE  H!CircuitOver(q).phase = "CircuitOpen" /\ H!CircuitOver(q).circuit = q.circuit
    BY <2>3 DEF H!CircuitOver, H!Record, H!Moment, H!Ended, H!None, H!Running
  <2> QED BY <2>1, <2>2, <2>3
<1>3. ASSUME NEW q \in H!Record PROVE StaysOpen(q, H!WaitOver(q))
  <2>1. H!WaitOver(q) \in H!Record
    BY ZenonT(90) DEF H!WaitOver, H!Record, H!Moment, H!Ended, H!None, H!Phase
  <2>2. H!WaitOver(q).fails = q.fails
    BY DEF H!WaitOver, H!Record
  <2>3. ASSUME q.phase = "CircuitOpen", H!Running(q.circuit)
        PROVE  H!WaitOver(q).phase = "CircuitOpen" /\ H!WaitOver(q).circuit = q.circuit
    BY <2>3 DEF H!WaitOver, H!Record, H!Moment, H!Ended, H!None, H!Running
  <2> QED BY <2>1, <2>2, <2>3
<1>4. ASSUME NEW q \in H!Record PROVE StaysOpen(q, H!Unattended(q))
  <2>1. H!Unattended(q) \in H!Record
    BY DEF H!Unattended, H!Record, H!Moment, H!Ended, H!None, H!Phase
  <2>2. H!Unattended(q).fails = q.fails
    BY DEF H!Unattended, H!Record
  <2>3. ASSUME q.phase = "CircuitOpen", H!Running(q.circuit)
        PROVE  H!Unattended(q).phase = "CircuitOpen" /\ H!Unattended(q).circuit = q.circuit
    BY <2>3 DEF H!Unattended, H!Record, H!Moment, H!Ended, H!None, H!Running
  <2> QED BY <2>1, <2>2, <2>3
<1> QED BY <1>1, <1>2, <1>3, <1>4 DEF H!Reconcile

LEMMA IoOlder ==
  ASSUME NEW r \in H!Record
  PROVE  H!Older(r) \in H!Record
<1>1. \A t \in H!Moment : H!Down(t) \in H!Moment
  BY DEF H!Down, H!Moment, H!None
<1>2. /\ H!Down(r.retry) \in H!Moment /\ H!Down(r.circuit) \in H!Moment
      /\ H!Down(r.rate) \in H!Moment /\ H!Down(r.beat) \in H!Moment
  BY <1>1 DEF H!Record
<1> QED BY <1>2 DEF H!Older, H!Record

\* What a mark makes of the record: a failure that is told or marked is booked.
LEMMA IoMarked ==
  ASSUME NEW r \in H!Record, NEW mark \in {"none", "told", "failure", "success", "pending"}
  PROVE  /\ AfterMark(r, mark) \in H!Record
         /\ mark \in {"told", "failure"} =>
              /\ AfterMark(r, mark).fails = H!Least(r.fails + 1, IoThreshold)
              /\ r.fails + 1 >= IoThreshold =>
                   AfterMark(r, mark).phase = "CircuitOpen" /\ AfterMark(r, mark).circuit = IoOpenTime
<1> DEFINE b == H!Borrowed(r)
           q == [b EXCEPT !.inUse = FALSE]
<1>1. b \in H!Record /\ b.fails = r.fails
  BY DEF H!Borrowed, H!Record, H!Phase
<1>2. q \in H!Record /\ q.fails = r.fails
  BY <1>1 DEF H!Record
<1> HIDE DEF b, q
<1>3. CASE mark = "none"
  BY <1>3 DEF AfterMark
<1>4. CASE mark = "told"
  BY <1>4, IoFailed DEF AfterMark
<1>5. CASE mark = "failure"
  <2>1. H!CountsOnDrop(q, "failure", 0, FALSE) /\ (0 > 0) = FALSE
    BY DEF H!CountsOnDrop
  <2>2. AfterMark(r, mark) = H!Failed(q, FALSE)
    BY <1>5, <2>1 DEF AfterMark, H!Released, b, q
  <2> QED BY <1>2, <1>5, <2>2, IoFailed
<1>6. CASE mark = "success"
  <2>1. ~H!CountsOnDrop(q, "success", 0, FALSE)
    BY DEF H!CountsOnDrop
  <2>2. AfterMark(r, mark) = H!Succeeded(q)
    BY <1>6, <2>1 DEF AfterMark, H!Released, b, q
  <2> QED BY <1>2, <1>6, <2>2, IoSucceeded
<1>7. CASE mark = "pending"
  <2>1. ~H!CountsOnDrop(q, "pending", 0, FALSE)
    BY DEF H!CountsOnDrop
  <2>2. AfterMark(r, mark) = [q EXCEPT !.phase = "Degraded"]
    BY <1>7, <2>1 DEF AfterMark, H!Released, b, q
  <2> QED BY <1>2, <1>7, <2>2 DEF H!Record, H!Phase
<1> QED BY <1>3, <1>4, <1>5, <1>6, <1>7

\* The ways out of the transforms: what they mark, who simulates, and who tells of
\* a faulty peer.
IoMarks == {"none", "told", "failure", "success", "pending"}
Honest(kind, w, config, peer) ==
  LET t == Transform(kind, w, config, peer)
  IN  /\ t.mark \in IoMarks
      /\ t.result = "simulated" => w.sim /\ ~w.conn
      /\ w.conn /\ kind \in Telling /\ config = "good" /\ PeerFaulty(peer) => t.mark \in {"told", "failure"}

LEMMA SimulationAsksFirst ==
  ASSUME NEW w \in Wiring, NEW config, NEW peer
  PROVE  LET t == ModbusTransform(w, config, peer)
         IN  t.mark \in IoMarks /\ (t.result = "simulated" => w.sim /\ ~w.conn)
<1>0. w.conn \in BOOLEAN /\ w.sim \in BOOLEAN
  BY DEF Wiring
<1>1. CASE ~w.conn /\ ~w.sim
  BY <1>1 DEF ModbusTransform, Ends, IoMarks
<1>2. CASE ~w.conn /\ w.sim
  BY <1>2 DEF ModbusTransform, Ends, IoMarks
<1>3. CASE w.conn
  BY <1>3 DEF ModbusTransform, ReadModbusTcp, Ends, IoMarks
<1> QED BY <1>0, <1>1, <1>2, <1>3

LEMMA TransformsAreHonest ==
  ASSUME NEW kind \in NodeKinds \ SessionKinds, NEW w \in Wiring, NEW config \in Configs, NEW peer \in Peers
  PROVE  Honest(kind, w, config, peer)
<1>0. w.conn \in BOOLEAN /\ w.sim \in BOOLEAN
  BY DEF Wiring
<1> USE DEF Honest, Transform, IoMarks, Ends, Telling, Talking, SessionKinds
<1>1. CASE kind = "native"
  BY <1>0, <1>1 DEF NativeTransform
<1>2. CASE kind = "httpClient"
  BY <1>0, <1>2 DEF HttpTransform, HttpRequest, Configs
<1>3. CASE kind = "barkPush"
  BY <1>0, <1>3 DEF BarkTransform, BarkEndpoint, BarkBody, BarkRefused, Configs
<1>4. CASE kind = "modbusRead"
  BY <1>4, SimulationAsksFirst
<1>5. CASE kind = "mqttPublish"
  BY <1>0, <1>5 DEF MqttPublish
<1>6. CASE kind = "mqttSubscribed"
  BY <1>0, <1>6 DEF MqttSubscribed
<1>7. CASE kind = "mqttDeploy"
  BY <1>0, <1>7 DEF MqttDeploy
<1>8. CASE kind = "sqlWriter"
  BY <1>0, <1>8 DEF SqlTransform
<1> QED BY <1>1, <1>2, <1>3, <1>4, <1>5, <1>6, <1>7, <1>8 DEF NodeKinds, Lending

\* What becomes of a shared session: a report or none, and no report of a fault
\* without a fault.
LEMMA SessionMarks ==
  ASSUME NEW kind \in SessionKinds, NEW w \in Wiring, NEW config \in Configs, NEW peer \in Peers, NEW way
  PROVE  LET t == SessionTransform(kind, w, config, peer, way)
         IN  /\ t.mark \in {"none", "told"}
             /\ t.result = "simulated" => w.sim /\ ~w.conn
<1>0. w.conn \in BOOLEAN /\ w.sim \in BOOLEAN
  BY DEF Wiring
<1>1. OverSession(way, peer).mark \in {"none", "told"} /\ OverSession(way, peer).result # "simulated"
  BY DEF OverSession, Ends
<1>2. LET t == CanTransform(w, config, peer, way)
      IN  t.mark \in {"none", "told"} /\ (t.result = "simulated" => w.sim /\ ~w.conn)
  <2>1. CASE w.conn /\ config # "malformed"
    BY <1>1, <2>1 DEF CanTransform
  <2>2. CASE ~w.conn \/ config = "malformed"
    BY <1>0, <2>2 DEF CanTransform, Ends
  <2> QED BY <2>1, <2>2
<1>3. LET t == PdoTransform(w, config, peer, way)
      IN  t.mark \in {"none", "told"} /\ t.result # "simulated"
  <2>1. CASE w.conn /\ config # "malformed"
    BY <1>1, <2>1 DEF PdoTransform
  <2>2. CASE ~w.conn \/ config = "malformed"
    BY <1>0, <2>2 DEF PdoTransform, Ends
  <2> QED BY <2>1, <2>2
<1> QED BY <1>2, <1>3 DEF SessionTransform

LEMMA IoStarts == IoInit => IoInv
<1> SUFFICES ASSUME IoInit PROVE IoInv
  OBVIOUS
<1>1. ioHealth \in H!Record
  BY IoLimits DEF IoInit, H!NewRecord, H!Record, H!Phase
<1>2. /\ ioStreak.kinds = {} /\ ioStreak.faults = 0 /\ ioStreak = [kinds |-> {}, faults |-> 0]
      /\ ioHealth.fails = 0
  BY DEF IoInit, H!NewRecord, NoFaults
<1>3. IoTypes /\ StreakIsBooked
  BY <1>1, <1>2, IoLimits DEF IoTypes, StreakIsBooked
<1> QED BY <1>3 DEF IoInit, NoTransform, IoInv, SimulationIsAsked

\* A streak that is over, and a step that touches neither the record nor the streak.
LEMMA NoStreak ==
  ASSUME ioHealth' \in H!Record, ioStreak' = NoFaults
  PROVE  IoTypes' /\ StreakIsBooked'
<1>1. ioStreak'.kinds = {} /\ ioStreak'.faults = 0 /\ ioStreak' = [kinds |-> {}, faults |-> 0]
  BY DEF NoFaults
<1>2. ioHealth'.fails >= 0
  BY IoLimits DEF H!Record
<1> QED BY <1>1, <1>2, IoLimits DEF IoTypes, StreakIsBooked

\* One more fault: when the record had booked the streak before, and the node books
\* this one, the record has booked the longer streak.
LEMMA OneMoreBooked ==
  ASSUME NEW kind \in NodeKinds, NEW streak, NEW r \in H!Record, NEW mark \in IoMarks,
         streak.kinds \subseteq NodeKinds, streak.faults \in 0..IoThreshold,
         streak.kinds \subseteq Telling => r.fails >= streak.faults,
         kind \in Telling => mark \in {"told", "failure"},
         ioHealth' = AfterMark(r, mark), ioStreak' = OneMore(streak, kind)
  PROVE  IoTypes' /\ StreakIsBooked'
<1>1. /\ AfterMark(r, mark) \in H!Record
      /\ mark \in {"told", "failure"} =>
           /\ AfterMark(r, mark).fails = H!Least(r.fails + 1, IoThreshold)
           /\ r.fails + 1 >= IoThreshold =>
                AfterMark(r, mark).phase = "CircuitOpen" /\ AfterMark(r, mark).circuit = IoOpenTime
  BY IoMarked DEF IoMarks
<1>2. /\ ioStreak'.kinds = streak.kinds \cup {kind}
      /\ ioStreak'.faults = H!Least(streak.faults + 1, IoThreshold)
      /\ ioStreak' = [kinds |-> ioStreak'.kinds, faults |-> ioStreak'.faults]
  BY DEF OneMore
<1>3. r.fails \in 0..IoThreshold
  BY DEF H!Record
<1>4. IoTypes'
  BY <1>1, <1>2, IoLimits DEF IoTypes, H!Least
<1>5. ASSUME ioStreak'.kinds \subseteq Telling
      PROVE  /\ ioHealth'.fails >= ioStreak'.faults
             /\ ioStreak'.faults = IoThreshold =>
                  ioHealth'.phase = "CircuitOpen" /\ H!Running(ioHealth'.circuit)
  <2>1. mark \in {"told", "failure"} /\ r.fails >= streak.faults
    BY <1>2, <1>5
  <2>2. ioHealth'.fails >= ioStreak'.faults
    BY <1>1, <1>2, <1>3, <2>1, IoLimits DEF H!Least
  <2>3. ioStreak'.faults = IoThreshold => r.fails + 1 >= IoThreshold
    BY <1>2, <1>3, <2>1, IoLimits DEF H!Least
  <2> QED BY <1>1, <2>1, <2>2, <2>3, IoLimits DEF H!Running
<1> QED BY <1>4, <1>5 DEF StreakIsBooked

LEMMA RunNodePreserves ==
  ASSUME IoInv, NEW kind \in NodeKinds, RunNode(kind)
  PROVE  IoInv'
<1>1. PICK w \in Wiring, config \in Configs, peer \in Peers :
        LET t == Transform(kind, w, config, peer)
            talked == w.conn /\ kind \in Talking /\ config = "good"
        IN  /\ kind \notin SessionKinds /\ (w.conn => kind \in Lending /\ ~CircuitRefuses)
            /\ ioHealth' = IF w.conn THEN AfterMark(Found, t.mark) ELSE ioHealth
            /\ ioLast' = [conn |-> w.conn, sim |-> w.sim, result |-> t.result]
            /\ ioStreak' = IF talked /\ PeerFaulty(peer) THEN OneMore(ioStreak, kind)
                           ELSE IF w.conn THEN NoFaults ELSE ioStreak
            /\ UNCHANGED ioSession
  BY DEF RunNode
<1> DEFINE t == Transform(kind, w, config, peer)
<1>2. /\ t.mark \in IoMarks
      /\ t.result = "simulated" => w.sim /\ ~w.conn
      /\ w.conn /\ kind \in Telling /\ config = "good" /\ PeerFaulty(peer) => t.mark \in {"told", "failure"}
  BY <1>1, TransformsAreHonest DEF Honest
<1> HIDE DEF t
<1>3. SimulationIsAsked'
  BY <1>1, <1>2 DEF SimulationIsAsked, t
<1>4. Found \in H!Record /\ Found.fails = ioHealth.fails
  BY IoReconciled DEF Found, IoInv, IoTypes
<1>6. CASE ~w.conn
  <2>1. ioHealth' = ioHealth /\ ioStreak' = ioStreak
    BY <1>1, <1>6
  <2> QED BY <1>3, <2>1 DEF IoInv, IoTypes, StreakIsBooked
<1>7. CASE w.conn /\ ~(kind \in Talking /\ config = "good" /\ PeerFaulty(peer))
  <2>1. AfterMark(Found, t.mark) \in H!Record
    BY <1>2, <1>4, IoMarked DEF IoMarks
  <2>2. ioHealth' \in H!Record /\ ioStreak' = NoFaults
    BY <1>1, <1>7, <2>1 DEF t
  <2> QED BY <1>3, <2>2, NoStreak DEF IoInv
<1>8. CASE w.conn /\ kind \in Talking /\ config = "good" /\ PeerFaulty(peer)
  <2>1. ioHealth' = AfterMark(Found, t.mark) /\ ioStreak' = OneMore(ioStreak, kind)
    BY <1>1, <1>8 DEF t
  <2>2. /\ ioStreak.kinds \subseteq NodeKinds /\ ioStreak.faults \in 0..IoThreshold
        /\ ioStreak.kinds \subseteq Telling => Found.fails >= ioStreak.faults
    BY <1>4 DEF IoInv, IoTypes, StreakIsBooked
  <2>3. kind \in Telling => t.mark \in {"told", "failure"}
    BY <1>2, <1>8
  <2>4. IoTypes' /\ StreakIsBooked'
    BY <1>2, <1>4, <2>1, <2>2, <2>3, OneMoreBooked
  <2> QED BY <1>3, <2>4 DEF IoInv
<1> QED BY <1>6, <1>7, <1>8

\* ensure_session and what follows: a success in between ends the streak, a reported
\* fault goes on with it.
Ways == {"held", "foreign", "unreadable", "opened", "unopened"}
LEMMA UsePreserves ==
  ASSUME IoInv, NEW kind \in SessionKinds, NEW way \in Ways, NEW mark \in {"none", "told"},
         ioHealth' = AfterMark(Entered(way), mark),
         \/ ioStreak' = StreakAfter(kind, way, mark)
         \/ way = "held" /\ mark = "none" /\ ioStreak' = ioStreak
  PROVE  IoTypes' /\ StreakIsBooked'
<1> DEFINE r == Entered(way)
           before == IF way = "opened" THEN NoFaults ELSE ioStreak
<1>1. /\ Found \in H!Record /\ Found.fails = ioHealth.fails /\ ioHealth \in H!Record
      /\ ioHealth.phase = "CircuitOpen" /\ H!Running(ioHealth.circuit) =>
           Found.phase = "CircuitOpen" /\ Found.circuit = ioHealth.circuit
  BY IoReconciled DEF Found, IoInv, IoTypes
<1>2. /\ way # "opened" => r \in {ioHealth, Found}
      /\ way = "opened" => r = H!Succeeded(Found)
  BY DEF Entered, Ways
<1>3. r \in H!Record
  BY <1>1, <1>2, IoSucceeded DEF Ways
<1>4. CASE mark = "told"
  <2>1. NoFaults.kinds = {} /\ NoFaults.faults = 0
    BY DEF NoFaults
  <2>2. before.kinds \subseteq NodeKinds /\ before.faults \in 0..IoThreshold
    BY <2>1, IoLimits DEF IoInv, IoTypes
  <2>3. before.kinds \subseteq Telling => r.fails >= before.faults
    <3>1. CASE way = "opened"
      <4>1. r.fails >= 0
        BY <1>3, IoLimits DEF H!Record
      <4> QED BY <2>1, <3>1, <4>1
    <3>2. CASE way # "opened"
      BY <1>1, <1>2, <3>2 DEF IoInv, StreakIsBooked
    <3> QED BY <3>1, <3>2
  <2>4. ioStreak' = OneMore(before, kind)
    BY <1>4 DEF StreakAfter
  <2>5. kind \in NodeKinds /\ mark \in IoMarks /\ mark \in {"told", "failure"} /\ ioHealth' = AfterMark(r, mark)
    BY <1>4 DEF NodeKinds, IoMarks
  <2> HIDE DEF r, before
  <2> QED BY <1>3, <2>2, <2>3, <2>4, <2>5, OneMoreBooked
<1>5. CASE mark = "none"
  <2>1. ioHealth' = r
    BY <1>5 DEF AfterMark
  <2>2. CASE ioStreak' = NoFaults
    BY <1>3, <2>1, <2>2, NoStreak
  <2>3. CASE ioStreak' = ioStreak /\ way # "opened"
    BY <1>1, <1>2, <2>1, <2>3 DEF IoInv, IoTypes, StreakIsBooked
  <2> QED BY <1>5, <2>2, <2>3 DEF StreakAfter
<1> QED BY <1>4, <1>5

LEMMA WaysAreThese ==
  ASSUME NEW kind, NEW config
  PROVE  SessionWays(kind, config) \subseteq Ways
BY DEF SessionWays, Ways

LEMMA RunSessionPreserves ==
  ASSUME IoInv, NEW kind \in SessionKinds, RunSession(kind)
  PROVE  IoInv'
<1>1. PICK w \in Wiring, config \in Configs, peer \in Peers : \E way \in SessionWays(kind, config) :
        LET t == SessionTransform(kind, w, config, peer, way)
        IN  /\ ioLast' = [conn |-> w.conn, sim |-> w.sim, result |-> t.result]
            /\ IF w.conn /\ config # "malformed"
               THEN /\ ioHealth' = AfterMark(Entered(way), t.mark)
                    /\ ioSession' = SessionAfter(kind, way, t.mark)
                    /\ ioStreak' = StreakAfter(kind, way, t.mark)
               ELSE UNCHANGED <<ioHealth, ioSession, ioStreak>>
  BY DEF RunSession
<1>0. PICK way \in SessionWays(kind, config) :
        LET t == SessionTransform(kind, w, config, peer, way)
        IN  /\ ioLast' = [conn |-> w.conn, sim |-> w.sim, result |-> t.result]
            /\ IF w.conn /\ config # "malformed"
               THEN /\ ioHealth' = AfterMark(Entered(way), t.mark)
                    /\ ioStreak' = StreakAfter(kind, way, t.mark)
               ELSE UNCHANGED <<ioHealth, ioStreak>>
  BY <1>1
<1> DEFINE t == SessionTransform(kind, w, config, peer, way)
<1>2. t.mark \in {"none", "told"} /\ (t.result = "simulated" => w.sim /\ ~w.conn)
  BY SessionMarks
<1> HIDE DEF t
<1>3. SimulationIsAsked'
  BY <1>0, <1>2 DEF SimulationIsAsked, t
<1>4. CASE w.conn /\ config # "malformed"
  <2>1. ioHealth' = AfterMark(Entered(way), t.mark) /\ ioStreak' = StreakAfter(kind, way, t.mark)
    BY <1>0, <1>4 DEF t
  <2>2. IoTypes' /\ StreakIsBooked'
    BY <1>2, <2>1, WaysAreThese, UsePreserves
  <2> QED BY <1>3, <2>2 DEF IoInv
<1>5. CASE ~(w.conn /\ config # "malformed")
  <2>1. ioHealth' = ioHealth /\ ioStreak' = ioStreak
    BY <1>0, <1>5
  <2> QED BY <1>3, <2>1 DEF IoInv, IoTypes, StreakIsBooked
<1> QED BY <1>4, <1>5

LEMMA DeploySessionPreserves ==
  ASSUME IoInv, NEW kind \in SessionKinds, DeploySession(kind)
  PROVE  IoInv'
<1>0. PICK config \in Configs \ {"malformed"} : \E way \in SessionWays(kind, config) :
        LET mark == OverSession(way, "answers").mark
        IN  /\ ioHealth' = AfterMark(Entered(way), mark)
            /\ ioSession' = SessionAfter(kind, way, mark)
            /\ ioStreak' = IF way = "held" THEN ioStreak ELSE StreakAfter(kind, way, mark)
            /\ UNCHANGED ioLast
  BY DEF DeploySession
<1>1. PICK way \in SessionWays(kind, config) :
        LET mark == OverSession(way, "answers").mark
        IN  /\ ioHealth' = AfterMark(Entered(way), mark)
            /\ ioStreak' = IF way = "held" THEN ioStreak ELSE StreakAfter(kind, way, mark)
            /\ UNCHANGED ioLast
  BY <1>0
<1> DEFINE mark == OverSession(way, "answers").mark
<1>2. mark \in {"none", "told"} /\ (way = "held" => mark = "none")
  BY DEF OverSession, Ends, PeerFaulty
<1> HIDE DEF mark
<1>3. /\ ioHealth' = AfterMark(Entered(way), mark)
      /\ ioStreak' = IF way = "held" THEN ioStreak ELSE StreakAfter(kind, way, mark)
  BY <1>1 DEF mark
<1>4. IoTypes' /\ StreakIsBooked'
  BY <1>2, <1>3, WaysAreThese, UsePreserves
<1> QED BY <1>1, <1>4 DEF IoInv, SimulationIsAsked

\* A node that is refused leaves the fault count and the open circuit.
LEMMA RefusedNodePreserves ==
  ASSUME IoInv, NEW kind \in NodeKinds, Refused(kind)
  PROVE  IoInv'
<1>1. ioHealth' = Found /\ ioStreak' = ioStreak
  BY DEF Refused
<1>2. /\ Found \in H!Record /\ Found.fails = ioHealth.fails
      /\ ioHealth.phase = "CircuitOpen" /\ H!Running(ioHealth.circuit) =>
           Found.phase = "CircuitOpen" /\ Found.circuit = ioHealth.circuit
  BY IoReconciled DEF Found, IoInv, IoTypes
<1>3. IoTypes'
  BY <1>1, <1>2 DEF IoInv, IoTypes
<1>4. StreakIsBooked'
  BY <1>1, <1>2 DEF IoInv, StreakIsBooked
<1> QED BY <1>3, <1>4 DEF IoInv, Refused, SimulationIsAsked

\* A transform says what happened: a simulated result is one its configuration
\* asks for, and as many faults in a row as the threshold says, met by nodes that
\* tell of them with no bus opened in between, have opened the circuit
\* (crates/nodes-io): for every threshold and every sequence of nodes, whether they
\* borrow the connection or share its session.
THEOREM OutcomesAreSound == IoSpec => []OutcomesSound
<1>1. IoInv /\ [IoNext]_ioVars => IoInv'
  <2> SUFFICES ASSUME IoInv, [IoNext]_ioVars PROVE IoInv'
    OBVIOUS
  <2>1. CASE IoTick
    <3>1. ioHealth' \in H!Record /\ ioStreak' = NoFaults /\ ioLast' = ioLast
      BY <2>1, IoOlder DEF IoTick, IoInv, IoTypes
    <3> QED BY <3>1, NoStreak DEF IoInv, SimulationIsAsked
  <2>2. ASSUME NEW kind \in NodeKinds, RunNode(kind) \/ Refused(kind) PROVE IoInv'
    BY <2>2, RunNodePreserves, RefusedNodePreserves
  <2>3. ASSUME NEW kind \in SessionKinds, RunSession(kind) \/ DeploySession(kind) PROVE IoInv'
    BY <2>3, RunSessionPreserves, DeploySessionPreserves
  <2>4. CASE UndeploySession
    BY <2>4 DEF UndeploySession, IoInv, IoTypes, StreakIsBooked, SimulationIsAsked
  <2>5. CASE UNCHANGED ioVars
    BY <2>5 DEF ioVars, IoInv, IoTypes, StreakIsBooked, SimulationIsAsked
  <2> QED BY <2>1, <2>2, <2>3, <2>4, <2>5 DEF IoNext
<1>2. IoInv => OutcomesSound
  BY DEF IoInv, StreakIsBooked, OutcomesSound, ToldFaultsOpenCircuit
<1> QED BY <1>1, <1>2, IoStarts, PTL DEF IoSpec

(***************************************************************************)
(* Records of one trace and its status (Telemetry).                        *)
(***************************************************************************)
LEMMA LeastNatural ==
  ASSUME NEW T, T \subseteq Nat, T # {}
  PROVE  \E x \in T : \A y \in T : x <= y
<1>1. ASSUME NEW R, IsWellFoundedOn(R, Nat) PROVE \E x \in T : \A y \in T : <<y, x>> \notin R
  BY <1>1, WFMin, Zenon
<1>2. IsWellFoundedOn(OpToRel(<, Nat), Nat)
  BY NatLessThanWellFounded, Zenon
<1>3. \E x \in T : \A y \in T : <<y, x>> \notin OpToRel(<, Nat)
  BY <1>1, <1>2, Zenon
<1>4. PICK x \in T : \A y \in T : <<y, x>> \notin OpToRel(<, Nat)
  BY <1>3
<1>5. \A y \in T : x \in Nat /\ y \in Nat /\ ~(y < x)
  BY <1>4 DEF OpToRel
<1> QED BY <1>5

\* What the status of a trace comes to, said without an order of the entries.
Newest(es) == CHOOSE n \in es : \A m \in es : m <= n
Verdict(es) ==
  IF \E n \in es : records[n].kind = "failed" THEN "failed"
  ELSE IF es = {} THEN "observed"
  ELSE IF records[Newest(es)].kind = "completed" THEN "completed" ELSE "running"

LEMMA OldestThere ==
  ASSUME NEW es, es \subseteq Nat, es # {}
  PROVE  Oldest(es) \in es /\ \A m \in es : Oldest(es) <= m
<1>1. \E n \in es : \A m \in es : n <= m
  BY LeastNatural
<1> QED BY <1>1, Zenon DEF Oldest

LEMMA NewestThere ==
  ASSUME NEW k \in Nat, NEW es, es \subseteq 1..k, es # {}
  PROVE  Newest(es) \in es /\ \A m \in es : m <= Newest(es)
<1> DEFINE Bounds == {b \in Nat : \A m \in es : m <= b}
<1>1. Bounds \subseteq Nat /\ k \in Bounds
  OBVIOUS
<1>2. PICK b \in Bounds : \A c \in Bounds : b <= c
  BY <1>1, LeastNatural
<1>3. b \in es
  <2> SUFFICES ASSUME b \notin es PROVE FALSE
    OBVIOUS
  <2>1. \A m \in es : m \in Nat /\ m >= 1 /\ m < b
    BY <1>2
  <2>2. b \in Nat /\ b >= 1
    <3>1. PICK m \in es : TRUE
      OBVIOUS
    <3> QED BY <1>2, <2>1, <3>1
  <2>3. b - 1 \in Nat /\ b - 1 < b /\ \A m \in es : m <= b - 1
    BY <2>1, <2>2
  <2> QED BY <1>2, <2>2, <2>3
<1>4. \E n \in es : \A m \in es : m <= n
  BY <1>2, <1>3
<1> QED BY <1>4, Zenon DEF Newest

\* The closed form obeys the recursion.
LEMMA VerdictStep ==
  ASSUME NEW k \in Nat, NEW es, es \subseteq 1..k, es # {}
  PROVE  Verdict(es) = ApplyEntry(Verdict(es \ {Oldest(es)}), Oldest(es))
<1> DEFINE o == Oldest(es)
           r == es \ {o}
<1>1. o \in es /\ \A m \in es : o <= m
  <2>1. es \subseteq Nat
    OBVIOUS
  <2> QED BY <2>1, OldestThere
<1>2. CASE \E n \in es : records[n].kind = "failed"
  <2>1. CASE records[o].kind = "failed"
    BY <1>2, <2>1 DEF Verdict, ApplyEntry
  <2>2. CASE records[o].kind # "failed"
    <3>1. \E n \in r : records[n].kind = "failed"
      BY <1>2, <2>2
    <3> QED BY <1>2, <2>2, <3>1 DEF Verdict, ApplyEntry
  <2> QED BY <2>1, <2>2
<1>3. CASE ~\E n \in es : records[n].kind = "failed"
  <2>1. records[o].kind # "failed" /\ ~\E n \in r : records[n].kind = "failed"
    BY <1>1, <1>3
  <2>2. Newest(es) \in es /\ \A m \in es : m <= Newest(es)
    BY NewestThere
  <2>3. CASE r = {}
    <3>1. Newest(es) = o
      BY <2>2, <2>3
    <3> QED BY <1>3, <2>1, <2>3, <3>1 DEF Verdict, ApplyEntry
  <2>4. CASE r # {}
    <3>1. Newest(r) \in r /\ \A m \in r : m <= Newest(r)
      BY <2>4, NewestThere
    <3> HIDE DEF o
    <3>2. Newest(r) \in es /\ o \in es /\ Newest(es) \in 1..k /\ Newest(r) \in 1..k /\ o \in 1..k
      BY <1>1, <2>2, <3>1
    <3>3. Newest(es) \in r
      <4> SUFFICES ASSUME Newest(es) = o PROVE FALSE
        BY <2>2
      <4>1. Newest(r) <= o /\ o <= Newest(r) /\ Newest(r) # o
        BY <1>1, <2>2, <3>1, <3>2
      <4> QED BY <3>2, <4>1
    <3>4. Newest(r) = Newest(es)
      BY <2>2, <3>1, <3>2, <3>3
    <3>5. Verdict(r) = Verdict(es) /\ Verdict(r) # "observed"
      BY <1>3, <2>1, <2>4, <3>4 DEF Verdict
    <3> QED BY <2>1, <3>5 DEF ApplyEntry, o
  <2> QED BY <2>3, <2>4
<1> QED BY <1>2, <1>3

\* The recursion has one solution, its closed form: of the sets it would be
\* wrong on, one of the least cardinality would be right without its oldest.
LEMMA StatusIsVerdict ==
  ASSUME NEW k \in Nat, Events \subseteq 1..k
  PROVE  TraceStatus = Verdict(Events)
<1> DEFINE Step(g) == [es \in SUBSET Events |->
             IF es = {} THEN "observed" ELSE ApplyEntry(g[es \ {Oldest(es)}], Oldest(es))]
           h == [es \in SUBSET Events |-> Verdict(es)]
<1>1. h = Step(h)
  <2>1. ASSUME NEW es \in SUBSET Events
        PROVE  h[es] = IF es = {} THEN "observed" ELSE ApplyEntry(h[es \ {Oldest(es)}], Oldest(es))
    <3>1. CASE es = {}
      BY <3>1 DEF Verdict
    <3>2. CASE es # {}
      BY <3>2, VerdictStep
    <3> QED BY <3>1, <3>2
  <2> QED BY <2>1
<1>2. StatusAfter = Step(StatusAfter)
  <2>1. \E g : g = Step(g)
    BY <1>1
  <2>2. StatusAfter = CHOOSE g : g = Step(g)
    BY DEF StatusAfter
  <2> HIDE DEF Step
  <2> QED BY <2>1, <2>2, Zenon
<1> DEFINE Bad == {es \in SUBSET Events : StatusAfter[es] # Verdict(es)}
           Sizes == {Cardinality(es) : es \in Bad}
<1>3. \A es \in SUBSET Events : IsFiniteSet(es) /\ Cardinality(es) \in Nat
  <2>1. IsFiniteSet(1..k)
    BY FS_Interval
  <2>2. ASSUME NEW es \in SUBSET Events PROVE IsFiniteSet(es)
    <3>1. es \subseteq 1..k
      OBVIOUS
    <3> QED BY <2>1, <3>1, FS_Subset
  <2> QED BY <2>2, FS_CardinalityType
<1>4. ASSUME NEW es \in SUBSET Events
      PROVE  StatusAfter[es] = IF es = {} THEN "observed"
                               ELSE ApplyEntry(StatusAfter[es \ {Oldest(es)}], Oldest(es))
  BY <1>2
<1>5. Bad = {}
  <2> SUFFICES ASSUME Bad # {} PROVE FALSE
    OBVIOUS
  <2>1. Sizes \subseteq Nat /\ Sizes # {}
    BY <1>3
  <2>2. PICK c \in Sizes : \A d \in Sizes : c <= d
    BY <2>1, LeastNatural
  <2>3. PICK s \in Bad : c = Cardinality(s)
    BY <2>2
  <2>4. s # {}
    BY <1>4, <2>3 DEF Verdict
  <2> DEFINE o == Oldest(s)
             r == s \ {o}
  <2>5. o \in s
    BY <2>3, <2>4, OldestThere
  <2> HIDE DEF o
  <2>6. Cardinality(r) = Cardinality(s) - 1 /\ r \in SUBSET Events /\ Cardinality(s) \in Nat
    BY <1>3, <2>3, <2>5, FS_RemoveElement
  <2>7. r \notin Bad
    <3>1. ASSUME r \in Bad PROVE Cardinality(r) \in Sizes
      BY <3>1
    <3>2. ASSUME Cardinality(r) \in Sizes PROVE FALSE
      <4>1. Cardinality(s) <= Cardinality(r)
        BY <2>2, <2>3, <3>2
      <4> DEFINE x == Cardinality(r)
                 y == Cardinality(s)
      <4>2. y <= x /\ x = y - 1 /\ y \in Nat
        BY <2>6, <4>1
      <4> HIDE DEF x, y
      <4> QED BY <4>2
    <3> QED BY <3>1, <3>2
  <2>8. StatusAfter[r] = Verdict(r)
    BY <2>6, <2>7
  <2>9. StatusAfter[s] = ApplyEntry(Verdict(r), o)
    BY <1>4, <2>3, <2>4, <2>8 DEF o
  <2>10. Verdict(s) = ApplyEntry(Verdict(r), o)
    BY <2>3, <2>4, VerdictStep DEF o
  <2> QED BY <2>3, <2>9, <2>10
<1> QED BY <1>5 DEF TraceStatus

LEMMA FailuresShow ==
  ASSUME NEW k \in Nat, table \subseteq 1..k
  PROVE  FailureShows
<1>1. Events \subseteq 1..k
  BY DEF Events, Queried
<1>2. TraceStatus = Verdict(Events)
  BY <1>1, StatusIsVerdict
<1>3. (\E n \in table : /\ records[n].kind = "failed"
                       /\ Cardinality({m \in table : m > n}) < QueryLimit)
        <=> \E n \in Events : records[n].kind = "failed"
  BY DEF Events, Queried
<1>4. TraceStatus = "failed" <=> \E n \in Events : records[n].kind = "failed"
  BY <1>2 DEF Verdict
<1>5. ASSUME TraceStatus = "completed", NEW n \in Events, \A m \in Events : m <= n
      PROVE  records[n].kind = "completed"
  <2>1. Events # {} /\ records[Newest(Events)].kind = "completed"
    BY <1>2, <1>5 DEF Verdict
  <2>2. Newest(Events) \in Events /\ \A m \in Events : m <= Newest(Events)
    BY <1>1, <2>1, NewestThere
  <2>3. n \in 1..k /\ Newest(Events) \in 1..k /\ n <= Newest(Events) /\ Newest(Events) <= n
    BY <1>1, <1>5, <2>2
  <2>4. n = Newest(Events)
    BY <2>3
  <2> QED BY <2>1, <2>4
<1> QED BY <1>3, <1>4, <1>5 DEF FailureShows

(* Where the records are. *)
Entry == [kind : {"started", "completed", "failed", "result", "audit"},
          stage : Stages \cup {"workflow"}]
Once(s) == \A i, j \in 1..Len(s) : i # j => s[i] # s[j]

TelTypes == records \in Seq(Entry) /\ writerQ \in Seq(Nat) /\ buffer \in Seq(Nat)

\* A record is in one place only, and once.
RecordPlaces ==
  /\ Once(writerQ) /\ Once(buffer) /\ Elements(writerQ) \cap Elements(buffer) = {}
  /\ Pending \cap table = {} /\ Pending \cap unlogged = {} /\ table \cap unlogged = {}
  /\ 1..Len(records) = Pending \cup table \cup unlogged
  /\ dropped = Cardinality(unlogged)

DrainedAtEnd == flusher = "over" => ~writerUp /\ writerQ = <<>> /\ buffer = <<>>

TelInv == TelTypes /\ RecordPlaces /\ DrainedAtEnd

LEMMA ElementsAppend ==
  ASSUME NEW s \in Seq(Nat), NEW x \in Nat
  PROVE  /\ Elements(Append(s, x)) = Elements(s) \cup {x}
         /\ Once(s) /\ x \notin Elements(s) => Once(Append(s, x))
<1> DEFINE a == Append(s, x)
<1>1. Len(a) = Len(s) + 1 /\ Len(s) \in Nat
  OBVIOUS
<1>2. \A i \in 1..Len(s) : a[i] = s[i]
  OBVIOUS
<1>3. a[Len(s) + 1] = x
  OBVIOUS
<1> HIDE DEF a
<1>4. Elements(a) = Elements(s) \cup {x}
  BY <1>1, <1>2, <1>3, SMTT(60) DEF Elements
<1>5. Once(s) /\ x \notin Elements(s) => Once(a)
  BY <1>1, <1>2, <1>3, SMTT(60) DEF Elements, Once
<1> QED BY <1>4, <1>5 DEF a

LEMMA ElementsTail ==
  ASSUME NEW s \in Seq(Nat), s # <<>>, Once(s)
  PROVE  /\ Head(s) \in Elements(s)
         /\ Elements(Tail(s)) = Elements(s) \ {Head(s)}
         /\ Once(Tail(s))
<1> DEFINE u == Tail(s)
<1>1. Len(s) \in Nat /\ Len(s) > 0 /\ Len(u) = Len(s) - 1 /\ Head(s) = s[1]
  OBVIOUS
<1>2. \A i \in 1..Len(u) : u[i] = s[i + 1]
  OBVIOUS
<1> HIDE DEF u
<1>3. Head(s) \in Elements(s)
  BY <1>1 DEF Elements
<1>4. Elements(u) \subseteq Elements(s) \ {Head(s)}
  <2> SUFFICES ASSUME NEW i \in 1..Len(u) PROVE u[i] \in Elements(s) /\ u[i] # Head(s)
    BY DEF Elements
  <2>1. i + 1 \in 1..Len(s) /\ i + 1 # 1 /\ 1 \in 1..Len(s)
    BY <1>1
  <2> QED BY <1>1, <1>2, <2>1 DEF Elements, Once
<1>5. Elements(s) \ {Head(s)} \subseteq Elements(u)
  <2> SUFFICES ASSUME NEW i \in 1..Len(s), s[i] # Head(s) PROVE s[i] \in Elements(u)
    BY DEF Elements
  <2>1. i # 1
    BY <1>1
  <2>2. i - 1 \in 1..Len(u) /\ (i - 1) + 1 = i
    BY <1>1, <2>1
  <2> QED BY <1>2, <2>2 DEF Elements
<1>6. Once(u)
  <2> SUFFICES ASSUME NEW i \in 1..Len(u), NEW j \in 1..Len(u), i # j PROVE u[i] # u[j]
    BY DEF Once
  <2>1. i + 1 \in 1..Len(s) /\ j + 1 \in 1..Len(s) /\ i + 1 # j + 1
    BY <1>1
  <2> QED BY <1>2, <2>1 DEF Once
<1> QED BY <1>3, <1>4, <1>5, <1>6 DEF u

LEMMA ElementsEmpty == Elements(<<>>) = {} /\ Once(<<>>)
  BY DEF Elements, Once

\* A sequence without repetition has as many elements as it is long.
LEMMA ElementsCount ==
  ASSUME NEW s \in Seq(Nat), Once(s)
  PROVE  IsFiniteSet(Elements(s)) /\ Cardinality(Elements(s)) = Len(s)
<1>1. Len(s) \in Nat
  OBVIOUS
<1>2. IsFiniteSet(1..Len(s)) /\ Cardinality(1..Len(s)) = Len(s)
  <2> DEFINE n == Len(s)
  <2>1. n \in Nat
    BY <1>1
  <2> HIDE DEF n
  <2>2. IsFiniteSet(1..n) /\ Cardinality(1..n) = IF 1 > n THEN 0 ELSE n - 1 + 1
    BY <2>1, FS_Interval
  <2> QED BY <2>1, <2>2 DEF n
<1> DEFINE f == [i \in 1..Len(s) |-> s[i]]
<1>3. f \in Bijection(1..Len(s), Elements(s))
  <2>1. f \in [1..Len(s) -> Elements(s)]
    BY DEF Elements
  <2>2. \A a, b \in 1..Len(s) : f[a] = f[b] => a = b
    BY DEF Once
  <2>3. \A y \in Elements(s) : \E i \in 1..Len(s) : f[i] = y
    BY DEF Elements
  <2> HIDE DEF f
  <2> QED BY <2>1, <2>2, <2>3 DEF Bijection, Injection, Surjection, IsInjective
<1>4. ExistsBijection(1..Len(s), Elements(s))
  BY <1>3 DEF ExistsBijection
<1> QED BY <1>2, <1>4, FS_Bijection

\* A batch is written or counted as lost, as a whole.
LEMMA FlushKeeps ==
  ASSUME NEW batch \in Seq(Nat), Once(batch), Flush(batch),
         Elements(batch) \cap table = {}, Elements(batch) \cap unlogged = {},
         table \cap unlogged = {}, IsFiniteSet(unlogged), dropped = Cardinality(unlogged)
  PROVE  /\ buffer' = <<>>
         /\ table' \cup unlogged' = (table \cup unlogged) \cup Elements(batch)
         /\ table' \cap unlogged' = {}
         /\ dropped' = Cardinality(unlogged')
<1>1. CASE InsertBatch(batch) /\ UNCHANGED <<dropped, unlogged>>
  BY <1>1 DEF Flush, InsertBatch
<1>2. CASE /\ dropped' = dropped + Len(batch) /\ unlogged' = unlogged \cup Elements(batch)
           /\ UNCHANGED table
  <2>1. IsFiniteSet(Elements(batch)) /\ Cardinality(Elements(batch)) = Len(batch)
    BY ElementsCount
  <2>2. unlogged \cap Elements(batch) = {}
    OBVIOUS
  <2>3. Cardinality(unlogged \cap Elements(batch)) = 0
    BY <2>2, FS_EmptySet
  <2>4. /\ Cardinality(unlogged \cup Elements(batch))
             = Cardinality(unlogged) + Cardinality(Elements(batch)) - Cardinality(unlogged \cap Elements(batch))
        /\ Cardinality(unlogged) \in Nat /\ Cardinality(Elements(batch)) \in Nat
    BY <2>1, FS_Union, FS_CardinalityType
  <2>5. Cardinality(unlogged \cup Elements(batch)) = Cardinality(unlogged) + Cardinality(Elements(batch))
    BY <2>3, <2>4
  <2> QED BY <1>2, <2>1, <2>5 DEF Flush
<1> QED BY <1>1, <1>2 DEF Flush

\* The lost records are finitely many.
LEMMA UnloggedFinite == TelInv => IsFiniteSet(unlogged)
<1> SUFFICES ASSUME TelInv PROVE IsFiniteSet(unlogged)
  OBVIOUS
<1> DEFINE n == Len(records)
<1>1. n \in Nat /\ unlogged \subseteq 1..n
  BY DEF TelInv, TelTypes, RecordPlaces
<1> HIDE DEF n
<1>2. IsFiniteSet(1..n)
  BY <1>1, FS_Interval
<1> QED BY <1>1, <1>2, FS_Subset

\* A new record has a number of its own.
LEMMA EnqueueKeeps ==
  ASSUME TelInv, NEW e \in Entry, records' = Append(records, e), Enqueue,
         buffer' = buffer, table' = table, flusher' = flusher, writerUp' = writerUp, writerUp
  PROVE  TelInv'
<1> DEFINE n == Len(records) + 1
<1>1. Len(records) \in Nat /\ Len(records') = n /\ records' \in Seq(Entry) /\ n \in Nat
  BY DEF TelInv, TelTypes
<1>2. 1..n = (1..Len(records)) \cup {n} /\ n \notin 1..Len(records)
  BY <1>1
<1>3. n \notin Elements(writerQ) /\ n \notin Elements(buffer) /\ n \notin table /\ n \notin unlogged
  BY <1>2 DEF TelInv, RecordPlaces, Pending
<1>4. DrainedAtEnd'
  BY DEF TelInv, DrainedAtEnd
<1>5. CASE Len(writerQ) < ChannelCap
  <2>1. writerQ' = Append(writerQ, n) /\ dropped' = dropped /\ unlogged' = unlogged
    BY <1>5 DEF Enqueue
  <2>2. writerQ \in Seq(Nat) /\ buffer \in Seq(Nat) /\ Once(writerQ)
    BY DEF TelInv, TelTypes, RecordPlaces
  <2>3. TelTypes'
    BY <1>1, <2>1, <2>2 DEF TelTypes
  <2> HIDE DEF n
  <2>4. Elements(writerQ') = Elements(writerQ) \cup {n} /\ Once(writerQ')
    BY <1>1, <1>3, <2>1, <2>2, ElementsAppend
  <2>5. Elements(buffer') = Elements(buffer) /\ Pending' = Pending \cup {n}
    BY <2>4 DEF Pending
  <2>6. RecordPlaces'
    BY <1>1, <1>2, <1>3, <2>1, <2>4, <2>5 DEF TelInv, RecordPlaces, Pending
  <2> QED BY <1>4, <2>3, <2>6 DEF TelInv
<1>6. CASE ~(Len(writerQ) < ChannelCap)
  <2>1. writerQ' = writerQ /\ dropped' = dropped + 1 /\ unlogged' = unlogged \cup {n}
    BY <1>6 DEF Enqueue
  <2>2. TelTypes'
    BY <1>1, <2>1 DEF TelInv, TelTypes
  <2> HIDE DEF n
  <2>3. IsFiniteSet(unlogged)
    BY UnloggedFinite
  <2>4. Cardinality(unlogged \cup {n}) = Cardinality(unlogged) + 1
    BY <1>3, <2>3, FS_AddElement
  <2>5. dropped' = Cardinality(unlogged')
    BY <2>1, <2>4 DEF TelInv, RecordPlaces
  <2>6. Pending' = Pending
    BY <2>1 DEF Pending, Elements
  <2>7. RecordPlaces'
    BY <1>1, <1>2, <1>3, <2>1, <2>5, <2>6 DEF TelInv, RecordPlaces, Pending
  <2> QED BY <1>4, <2>2, <2>7 DEF TelInv
<1> QED BY <1>5, <1>6

\* Recording: no stage and no outcome is outside the kinds.
LEMMA RecordsKeep ==
  ASSUME TelInv,
         \/ \E s \in Stages : RecordStarted(s) \/ (\E o \in Outcome : RecordOutcome(s, o))
         \/ RecordOther
  PROVE  TelInv'
<1>1. ASSUME NEW s \in Stages, RecordStarted(s) PROVE TelInv'
  <2>1. [kind |-> "started", stage |-> s] \in Entry
    BY DEF Entry
  <2> QED BY <1>1, <2>1, EnqueueKeeps DEF RecordStarted, AddRecord
<1>2. ASSUME NEW s \in Stages, NEW o \in Outcome, RecordOutcome(s, o) PROVE TelInv'
  <2>1. [kind |-> o, stage |-> s] \in Entry
    BY DEF Entry, Outcome
  <2> QED BY <1>2, <2>1, EnqueueKeeps DEF RecordOutcome, AddRecord
<1>3. ASSUME RecordOther PROVE TelInv'
  <2>1. PICK k \in {"result", "audit"} : AddRecord(k, "workflow")
    BY <1>3 DEF RecordOther
  <2>2. [kind |-> k, stage |-> "workflow"] \in Entry
    BY DEF Entry
  <2> QED BY <1>3, <2>1, <2>2, EnqueueKeeps DEF RecordOther, AddRecord
<1> QED BY <1>1, <1>2, <1>3

\* The flush task takes the oldest number of the queue into its buffer.
LEMMA ReceiveKeeps == TelInv /\ FlusherReceives => TelInv'
<1> SUFFICES ASSUME TelInv, FlusherReceives PROVE TelInv'
  OBVIOUS
<1> DEFINE h == Head(writerQ)
           taken == Append(buffer, h)
<1>1. /\ writerQ \in Seq(Nat) /\ buffer \in Seq(Nat) /\ writerQ # <<>>
      /\ Once(writerQ) /\ Once(buffer) /\ writerQ' = Tail(writerQ)
      /\ records' = records /\ writerUp' = writerUp /\ flusher = "select"
  BY DEF TelInv, TelTypes, RecordPlaces, FlusherReceives
<1>2. h \in Nat /\ writerQ' \in Seq(Nat)
  BY <1>1
<1>3. h \in Elements(writerQ) /\ Elements(writerQ') = Elements(writerQ) \ {h} /\ Once(writerQ')
  BY <1>1, ElementsTail
<1>4. taken \in Seq(Nat)
  BY <1>1, <1>2
<1>5. IF Len(taken) >= FlushCap
      THEN Flush(taken) /\ flusher' = "pausing"
      ELSE buffer' = taken /\ UNCHANGED <<flusher, table, dropped, unlogged>>
  BY DEF FlusherReceives
<1> HIDE DEF h
<1>6. h \notin Elements(buffer)
  BY <1>3 DEF TelInv, RecordPlaces
<1>7. Elements(taken) = Elements(buffer) \cup {h} /\ Once(taken)
  BY <1>1, <1>2, <1>6, ElementsAppend
<1> HIDE DEF taken
<1>8. CASE Len(taken) >= FlushCap
  <2>1. Flush(taken) /\ flusher' = "pausing"
    BY <1>5, <1>8
  <2>2. Elements(taken) \subseteq Pending
    BY <1>3, <1>7 DEF Pending
  <2>3. /\ Elements(taken) \cap table = {} /\ Elements(taken) \cap unlogged = {}
        /\ table \cap unlogged = {} /\ dropped = Cardinality(unlogged)
    BY <2>2 DEF TelInv, RecordPlaces
  <2>4. /\ buffer' = <<>>
        /\ table' \cup unlogged' = (table \cup unlogged) \cup Elements(taken)
        /\ table' \cap unlogged' = {} /\ dropped' = Cardinality(unlogged')
    BY <1>4, <1>7, <2>1, <2>3, UnloggedFinite, FlushKeeps
  <2>5. Elements(buffer') = {} /\ Once(buffer')
    BY <2>4, ElementsEmpty
  <2>6. Pending' = Elements(writerQ) \ {h}
    BY <1>3, <2>5 DEF Pending
  <2>7. TelTypes'
    BY <1>1, <1>2, <2>4 DEF TelInv, TelTypes
  <2>8. Pending' \cap (table' \cup unlogged') = {}
    BY <1>7, <2>4, <2>6 DEF TelInv, RecordPlaces, Pending
  <2>9. Pending' \cup table' \cup unlogged' = Pending \cup table \cup unlogged
    BY <1>3, <1>7, <2>4, <2>6 DEF Pending
  <2>10. RecordPlaces'
    BY <1>1, <1>3, <2>4, <2>5, <2>8, <2>9 DEF TelInv, RecordPlaces
  <2>11. DrainedAtEnd'
    BY <2>1 DEF DrainedAtEnd
  <2> QED BY <2>7, <2>10, <2>11 DEF TelInv
<1>9. CASE ~(Len(taken) >= FlushCap)
  <2>1. /\ buffer' = taken /\ flusher' = flusher /\ table' = table
        /\ dropped' = dropped /\ unlogged' = unlogged
    BY <1>5, <1>9
  <2>2. TelTypes'
    BY <1>1, <1>2, <1>4, <2>1 DEF TelInv, TelTypes
  <2>3. Elements(buffer') = Elements(buffer) \cup {h} /\ Once(buffer')
    BY <1>7, <2>1
  <2>4. Pending' = Pending
    BY <1>3, <2>3 DEF Pending
  <2>5. RecordPlaces'
    BY <1>1, <1>3, <2>1, <2>3, <2>4 DEF TelInv, RecordPlaces
  <2>6. DrainedAtEnd'
    BY <1>1, <2>1 DEF DrainedAtEnd
  <2> QED BY <2>2, <2>5, <2>6 DEF TelInv
<1> QED BY <1>8, <1>9

\* A flush of the whole buffer.
LEMMA BufferFlushKeeps ==
  ASSUME TelInv, Flush(buffer), records' = records, writerQ' = writerQ, DrainedAtEnd'
  PROVE  TelInv'
<1>1. /\ buffer' = <<>>
      /\ table' \cup unlogged' = (table \cup unlogged) \cup Elements(buffer)
      /\ table' \cap unlogged' = {} /\ dropped' = Cardinality(unlogged')
  <2>1. /\ buffer \in Seq(Nat) /\ Once(buffer)
        /\ Elements(buffer) \cap table = {} /\ Elements(buffer) \cap unlogged = {}
        /\ table \cap unlogged = {} /\ dropped = Cardinality(unlogged)
    BY DEF TelInv, TelTypes, RecordPlaces, Pending
  <2> QED BY <2>1, UnloggedFinite, FlushKeeps
<1>2. Elements(buffer') = {} /\ Once(buffer') /\ Pending' = Elements(writerQ)
  BY <1>1, ElementsEmpty DEF Pending
<1>3. TelTypes'
  BY <1>1 DEF TelInv, TelTypes
<1>4. Pending' \cup table' \cup unlogged' = Pending \cup table \cup unlogged
  BY <1>1, <1>2 DEF Pending
<1>5. Pending' \cap (table' \cup unlogged') = {}
  BY <1>1, <1>2 DEF TelInv, RecordPlaces, Pending
<1>6. RecordPlaces'
  BY <1>1, <1>2, <1>4, <1>5 DEF TelInv, RecordPlaces
<1> QED BY <1>3, <1>6 DEF TelInv

\* A step that moves no record.
LEMMA NoMoveKeeps ==
  ASSUME TelInv, records' = records, writerQ' = writerQ, buffer' = buffer, table' = table,
         dropped' = dropped, unlogged' = unlogged, DrainedAtEnd'
  PROVE  TelInv'
<1>1. Pending' = Pending /\ Once(writerQ)' = Once(writerQ) /\ Once(buffer)' = Once(buffer)
  BY DEF Pending, Elements, Once
<1>2. RecordPlaces'
  BY <1>1 DEF TelInv, RecordPlaces, Elements
<1> QED BY <1>2 DEF TelInv, TelTypes

LEMMA TelInvHolds == TelSpec => []TelInv
<1>1. TelInit => TelInv
  <2> SUFFICES ASSUME TelInit PROVE TelInv
    OBVIOUS
  <2>1. TelTypes /\ DrainedAtEnd
    BY DEF TelInit, TelTypes, DrainedAtEnd
  <2>2. Elements(writerQ) = {} /\ Elements(buffer) = {} /\ Once(writerQ) /\ Once(buffer)
    BY ElementsEmpty DEF TelInit
  <2>3. Cardinality(unlogged) = 0 /\ 1..Len(records) = {}
    BY FS_EmptySet DEF TelInit
  <2>4. RecordPlaces
    BY <2>2, <2>3 DEF TelInit, RecordPlaces, Pending
  <2> QED BY <2>1, <2>4 DEF TelInv
<1>2. TelInv /\ [TelNext]_telVars => TelInv'
  <2> SUFFICES ASSUME TelInv, [TelNext]_telVars PROVE TelInv'
    OBVIOUS
  <2>1. CASE \/ \E s \in Stages : RecordStarted(s) \/ (\E o \in Outcome : RecordOutcome(s, o))
             \/ RecordOther
    BY <2>1, RecordsKeep
  <2>2. CASE FlusherReceives
    BY <2>2, ReceiveKeeps
  <2>3. CASE Tick
    <3>1. DrainedAtEnd'
      BY <2>3 DEF Tick, DrainedAtEnd
    <3>2. CASE flusher = "pausing" /\ UNCHANGED <<buffer, table, dropped, unlogged>>
      BY <2>3, <3>1, <3>2, NoMoveKeeps DEF Tick
    <3>3. CASE Flush(buffer)
      BY <2>3, <3>1, <3>3, BufferFlushKeeps DEF Tick
    <3> QED BY <2>3, <3>2, <3>3 DEF Tick
  <2>4. CASE FlusherFinishes
    <3>1. buffer' = <<>>
      BY <2>4 DEF FlusherFinishes, Flush
    <3>2. DrainedAtEnd'
      BY <2>4, <3>1 DEF FlusherFinishes, DrainedAtEnd
    <3>3. CASE buffer = <<>>
      BY <2>4, <3>2, <3>3, NoMoveKeeps DEF FlusherFinishes
    <3>4. CASE buffer # <<>>
      BY <2>4, <3>2, <3>4, BufferFlushKeeps DEF FlusherFinishes
    <3> QED BY <3>3, <3>4
  <2>5. CASE ShutdownWriter
    <3>1. DrainedAtEnd'
      BY <2>5 DEF ShutdownWriter, DrainedAtEnd, TelInv
    <3> QED BY <2>5, <3>1, NoMoveKeeps DEF ShutdownWriter
  <2>6. CASE DropWriter
    <3>1. DrainedAtEnd'
      BY <2>6 DEF DropWriter, DrainedAtEnd
    <3> QED BY <2>6, <3>1, NoMoveKeeps DEF DropWriter
  <2>7. CASE UNCHANGED telVars
    <3>1. DrainedAtEnd'
      BY <2>7 DEF telVars, DrainedAtEnd, TelInv
    <3> QED BY <2>7, <3>1, NoMoveKeeps DEF telVars
  <2> QED BY <2>1, <2>2, <2>3, <2>4, <2>5, <2>6, <2>7 DEF TelNext
<1> QED BY <1>1, <1>2, PTL DEF TelSpec

\* The places add up to what was recorded.
LEMMA PlacesAddUp == TelInv => RecordsAccounted
<1> SUFFICES ASSUME TelInv PROVE RecordsAccounted
  OBVIOUS
<1> DEFINE n == Len(records)
           W == Elements(writerQ)
           B == Elements(buffer)
<1>1. /\ n \in Nat /\ 1..n = (W \cup B) \cup (table \cup unlogged)
      /\ W \cap B = {} /\ (W \cup B) \cap (table \cup unlogged) = {} /\ table \cap unlogged = {}
  BY DEF TelInv, TelTypes, RecordPlaces, Pending
<1>2. IsFiniteSet(W) /\ Cardinality(W) = Len(writerQ) /\ IsFiniteSet(B) /\ Cardinality(B) = Len(buffer)
  BY ElementsCount DEF TelInv, TelTypes, RecordPlaces
<1> HIDE DEF n, W, B
<1>3. IsFiniteSet(1..n) /\ Cardinality(1..n) = n
  <2>1. IsFiniteSet(1..n) /\ Cardinality(1..n) = IF 1 > n THEN 0 ELSE n - 1 + 1
    BY <1>1, FS_Interval
  <2> QED BY <1>1, <2>1
<1>4. ASSUME NEW S, NEW T, IsFiniteSet(S), IsFiniteSet(T), S \cap T = {}
      PROVE  /\ IsFiniteSet(S \cup T) /\ Cardinality(S \cup T) = Cardinality(S) + Cardinality(T)
             /\ Cardinality(S) \in Nat /\ Cardinality(T) \in Nat
  <2>1. Cardinality(S \cap T) = 0
    BY <1>4, FS_EmptySet
  <2>2. /\ IsFiniteSet(S \cup T)
        /\ Cardinality(S \cup T) = Cardinality(S) + Cardinality(T) - Cardinality(S \cap T)
        /\ Cardinality(S) \in Nat /\ Cardinality(T) \in Nat
    BY <1>4, FS_Union, FS_CardinalityType
  <2> QED BY <2>1, <2>2
<1>5. IsFiniteSet(table) /\ IsFiniteSet(unlogged)
  <2>1. table \subseteq 1..n /\ unlogged \subseteq 1..n
    BY <1>1
  <2> QED BY <1>3, <2>1, FS_Subset
<1>6. /\ IsFiniteSet(W \cup B) /\ Cardinality(W \cup B) = Cardinality(W) + Cardinality(B)
      /\ Cardinality(W) \in Nat /\ Cardinality(B) \in Nat
  BY <1>1, <1>2, <1>4, Zenon
<1>7. /\ IsFiniteSet(table \cup unlogged)
      /\ Cardinality(table \cup unlogged) = Cardinality(table) + Cardinality(unlogged)
      /\ Cardinality(table) \in Nat /\ Cardinality(unlogged) \in Nat
  BY <1>1, <1>4, <1>5, Zenon
<1>8. Cardinality(1..n) = Cardinality(W \cup B) + Cardinality(table \cup unlogged)
  BY <1>1, <1>4, <1>6, <1>7, Zenon
<1>9. n = Cardinality(W) + Cardinality(B) + Cardinality(table) + Cardinality(unlogged)
  BY <1>3, <1>6, <1>7, <1>8
<1>10. dropped = Cardinality(unlogged) /\ 1..Len(records) = Pending \cup table \cup unlogged
  BY DEF TelInv, RecordPlaces
<1>11. Len(writerQ) + Len(buffer) + Cardinality(table) + dropped = Len(records)
  BY <1>2, <1>9, <1>10 DEF n
<1> QED BY <1>10, <1>11 DEF RecordsAccounted

THEOREM RecordsAreSound == TelSpec => []RecordsSound
<1>1. TelInv => RecordsSound
  <2> SUFFICES ASSUME TelInv PROVE RecordsSound
    OBVIOUS
  <2>1. RecordsAccounted
    BY PlacesAddUp
  <2>2. ShutdownFlushes
    BY ElementsEmpty DEF TelInv, DrainedAtEnd, ShutdownFlushes, Pending
  <2>3. FailureShows
    <3> DEFINE k == Len(records)
    <3>1. k \in Nat /\ table \subseteq 1..k
      BY DEF TelInv, TelTypes, RecordPlaces
    <3> HIDE DEF k
    <3> QED BY <3>1, FailuresShow
  <2> QED BY <2>1, <2>2, <2>3 DEF RecordsSound
<1> QED BY <1>1, TelInvHolds, PTL
==============================================================================
