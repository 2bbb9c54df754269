---------------------------- MODULE DispatchRouter ----------------------------
(***************************************************************************)
(* The manual lane of the dispatch router of a desktop workflow            *)
(* (src-tauri runtime.rs): commands enqueue envelopes under the policy of  *)
(* the workflow, one task delivers them to the roots with retries and a    *)
(* back-off, what cannot be delivered becomes a dead letter.               *)
(*                                                                         *)
(* An envelope is named after the command that submits it.                 *)
(***************************************************************************)
EXTENDS Naturals, Sequences, FiniteSets

CONSTANTS
  Dispatches,  \* dispatch_payload commands
  RootCount,   \* root nodes, in the order submit visits them
  Policies     \* runtime policies as the user may ask for them

ASSUME DispatchAssumption ==
  /\ RootCount \in Nat \ {0}
  /\ Policies \subseteq
       [capacity : Nat, retries : Nat, initial : Nat, max : Nat, strategy : {"block", "reject"}]

VARIABLES
  policy,     \* the policy of the router, NoPolicy before it is created
  listed,     \* the workflow is in the map of the deployed ones
  call,       \* what a command is doing
  laneQueue,  \* the channel of the lane
  laneDepth,  \* metrics.depth
  buried,     \* metrics.dead_lettered
  hand,       \* what the lane task holds: envelope, phase, next root, attempts
  laneUp,     \* the lane task has not been aborted
  rootOpen,   \* roots whose runner is alive
  got,        \* history: how often a root got an envelope
  given,      \* history: envelopes the lane gave up or a full queue refused
  slept       \* history: the back-offs of the envelope in hand

laneVars == <<policy, listed, call, laneQueue, laneDepth, buried, hand, laneUp, rootOpen, got, given, slept>>

NoPolicy == [capacity |-> 0, retries |-> 0, initial |-> 0, max |-> 0, strategy |-> "none"]
Idle == [env |-> "none", phase |-> "recv", root |-> 1, attempts |-> 0]
Waiting == {c \in Dispatches : call[c] = "sending"}     \* counted, not in the channel
Uncounted == {c \in Dispatches : call[c] = "uncounted"} \* in the channel, not counted
LaneMax(a, b) == IF a >= b THEN a ELSE b
LaneMin(a, b) == IF a <= b THEN a ELSE b

\* WorkflowRuntimePolicy::from_input: a queue holds 1 to 4096 envelopes and an
\* envelope is retried 8 times at most.  The back-offs are in units of 25 ms.
FromInput(p) ==
  [capacity |-> LaneMin(LaneMax(p.capacity, 1), 4096), retries |-> LaneMin(p.retries, 8),
   initial |-> LaneMin(LaneMax(p.initial, 1), 200), max |-> LaneMin(LaneMax(p.max, 4), 1200),
   strategy |-> p.strategy]

\* retry_backoff_ms: the initial back-off is never undercut by a smaller maximum.
RetryBackoff(attempt) ==
  LaneMin(LaneMax(policy.initial * 2 ^ (attempt - 1), policy.initial), LaneMax(policy.max, policy.initial))

\* decrement_queue_depth never goes below zero.
Decremented(d) == IF d > 0 THEN d - 1 ELSE 0

-----------------------------------------------------------------------------
CreateRouter ==
  /\ policy = NoPolicy
  /\ \E p \in Policies : policy' = FromInput(p)
  /\ laneUp' = TRUE /\ listed' = TRUE
  /\ UNCHANGED <<call, laneQueue, laneDepth, buried, hand, rootOpen, got, given, slept>>

\* dispatch_payload takes the router out of the map and submits to it with the
\* map unlocked: the workflow may be undeployed in between.
DispatchPayload(c) ==
  /\ call[c] = "idle" /\ call' = [call EXCEPT ![c] = IF listed THEN "routed" ELSE "error"]
  /\ UNCHANGED <<policy, listed, laneQueue, laneDepth, buried, hand, laneUp, rootOpen, got, given, slept>>

\* enqueue_async, Block: counted, then sent.
CountThenSend(c) ==
  /\ policy.strategy = "block" /\ call[c] = "routed"
  /\ call' = [call EXCEPT ![c] = "sending"] /\ laneDepth' = laneDepth + 1
  /\ UNCHANGED <<policy, listed, laneQueue, buried, hand, laneUp, rootOpen, got, given, slept>>

SendCompletes(c) ==
  /\ call[c] = "sending" /\ laneUp /\ Len(laneQueue) < policy.capacity
  /\ laneQueue' = Append(laneQueue, c) /\ call' = [call EXCEPT ![c] = "ok"]
  /\ UNCHANGED <<policy, listed, laneDepth, buried, hand, laneUp, rootOpen, got, given, slept>>

\* The channel is closed: the count is taken back.
SendRefused(c) ==
  /\ call[c] = "sending" /\ ~laneUp
  /\ call' = [call EXCEPT ![c] = "error"] /\ laneDepth' = laneDepth - 1
  /\ UNCHANGED <<policy, listed, laneQueue, buried, hand, laneUp, rootOpen, got, given, slept>>

\* enqueue_async, RejectNewest: sent, refused with a dead letter, or closed.
TrySend(c) ==
  /\ policy.strategy = "reject" /\ call[c] = "routed"
  /\ \/ /\ laneUp /\ Len(laneQueue) < policy.capacity
        /\ laneQueue' = Append(laneQueue, c) /\ call' = [call EXCEPT ![c] = "uncounted"]
        /\ UNCHANGED <<buried, given>>
     \/ /\ laneUp /\ Len(laneQueue) = policy.capacity
        /\ buried' = buried + 1 /\ given' = given \cup {c} /\ call' = [call EXCEPT ![c] = "error"]
        /\ UNCHANGED laneQueue
     \/ /\ ~laneUp /\ call' = [call EXCEPT ![c] = "error"]
        /\ UNCHANGED <<laneQueue, buried, given>>
  /\ UNCHANGED <<policy, listed, laneDepth, hand, laneUp, rootOpen, got, slept>>

\* The metrics follow the send: the lane may have taken the envelope already.
CountAfterSend(c) ==
  /\ call[c] = "uncounted"
  /\ call' = [call EXCEPT ![c] = "ok"] /\ laneDepth' = laneDepth + 1
  /\ UNCHANGED <<policy, listed, laneQueue, buried, hand, laneUp, rootOpen, got, given, slept>>

-----------------------------------------------------------------------------
(* The lane task.                                                          *)

LaneReceives ==
  /\ laneUp /\ hand.phase = "recv" /\ laneQueue # <<>>
  /\ hand' = [Idle EXCEPT !.env = Head(laneQueue), !.phase = "count"]
  /\ laneQueue' = Tail(laneQueue) /\ slept' = <<>>
  /\ UNCHANGED <<policy, listed, call, laneDepth, buried, laneUp, rootOpen, got, given>>

LaneCounts ==
  /\ laneUp /\ hand.phase = "count"
  /\ laneDepth' = Decremented(laneDepth) /\ hand' = [hand EXCEPT !.phase = "submit"]
  /\ UNCHANGED <<policy, listed, call, laneQueue, buried, laneUp, rootOpen, got, given, slept>>

\* WorkflowIngress::submit: one root after the other.
SubmitToRoot ==
  /\ laneUp /\ hand.phase = "submit" /\ hand.root <= RootCount /\ hand.root \in rootOpen
  /\ got' = [got EXCEPT ![hand.env][hand.root] = @ + 1]
  /\ hand' = IF hand.root = RootCount THEN Idle ELSE [hand EXCEPT !.root = @ + 1]
  /\ UNCHANGED <<policy, listed, call, laneQueue, laneDepth, buried, laneUp, rootOpen, given, slept>>

\* A closed root fails the whole submission, earlier roots keep what they got.
SubmitFails ==
  /\ laneUp /\ hand.phase = "submit" /\ hand.root \notin rootOpen /\ hand.attempts < policy.retries
  /\ hand' = [hand EXCEPT !.phase = "backoff", !.attempts = @ + 1]
  /\ slept' = Append(slept, RetryBackoff(hand.attempts + 1))
  /\ UNCHANGED <<policy, listed, call, laneQueue, laneDepth, buried, laneUp, rootOpen, got, given>>

\* The retry submits to all roots again.
BackoffEnds ==
  /\ laneUp /\ hand.phase = "backoff" /\ hand' = [hand EXCEPT !.phase = "submit", !.root = 1]
  /\ UNCHANGED <<policy, listed, call, laneQueue, laneDepth, buried, laneUp, rootOpen, got, given, slept>>

\* Mutant: the envelope of the last attempt is forgotten.
BuryForgets ==
  /\ laneUp /\ hand.phase = "submit" /\ hand.root \notin rootOpen /\ hand.attempts = policy.retries
  /\ hand' = Idle
  /\ UNCHANGED <<policy, listed, call, laneQueue, laneDepth, buried, laneUp, rootOpen, got, given, slept>>

\* The dead letter is counted first; a disk error of its record is ignored.
Bury ==
  /\ laneUp /\ hand.phase = "submit" /\ hand.root \notin rootOpen /\ hand.attempts = policy.retries
  /\ hand' = Idle /\ buried' = buried + 1 /\ given' = given \cup {hand.env}
  /\ UNCHANGED <<policy, listed, call, laneQueue, laneDepth, laneUp, rootOpen, got, slept>>

-----------------------------------------------------------------------------
\* The runner of a root ends (DataPlane: a send of it failed).
RootEnds ==
  /\ \E r \in rootOpen : rootOpen' = rootOpen \ {r}
  /\ UNCHANGED <<policy, listed, call, laneQueue, laneDepth, buried, hand, laneUp, got, given, slept>>

\* undeploy_workflow_by_id takes the workflow out of the map, ...
Unlist ==
  /\ listed /\ listed' = FALSE
  /\ UNCHANGED <<policy, call, laneQueue, laneDepth, buried, hand, laneUp, rootOpen, got, given, slept>>

\* ... then shutdown_runtime aborts the lane task: its queue goes with it.
AbortLane ==
  /\ laneUp /\ ~listed /\ laneUp' = FALSE /\ laneQueue' = <<>> /\ hand' = Idle
  /\ UNCHANGED <<policy, listed, call, laneDepth, buried, rootOpen, got, given, slept>>

LaneInit ==
  /\ policy = NoPolicy /\ listed = FALSE /\ call = [c \in Dispatches |-> "idle"] /\ laneQueue = <<>> /\ laneDepth = 0 /\ buried = 0
  /\ hand = Idle /\ laneUp = FALSE /\ rootOpen = 1..RootCount
  /\ got = [c \in Dispatches |-> [r \in 1..RootCount |-> 0]] /\ given = {} /\ slept = <<>>

LaneStep == LaneReceives \/ LaneCounts \/ SubmitToRoot \/ SubmitFails \/ BackoffEnds \/ Bury

LaneNext ==
  \/ CreateRouter \/ RootEnds \/ Unlist \/ AbortLane \/ LaneStep
  \/ \E c \in Dispatches : DispatchPayload(c) \/ CountThenSend(c) \/ SendCompletes(c) \/ SendRefused(c) \/ TrySend(c) \/ CountAfterSend(c)

LaneSpec == LaneInit /\ [][LaneNext]_laneVars

-----------------------------------------------------------------------------
DeliveredToAll(c) == \A r \in 1..RootCount : got[c][r] > 0

\* While the lane runs, an envelope whose command was told Ok is queued, in
\* hand, delivered to all roots, or counted as a dead letter; and the counter
\* of dead letters is the number of such envelopes (runtime.rs:458-498).
NoSilentLoss ==
  /\ buried = Cardinality(given)
  /\ laneUp => \A c \in Dispatches : call[c] = "ok" =>
       \/ \E i \in 1..Len(laneQueue) : laneQueue[i] = c
       \/ hand.env = c \/ DeliveredToAll(c) \/ c \in given

\* The depth shown to the user covers what is queued.  Blocking senders are
\* counted exactly; a rejecting lane may overstate the depth for good, when an
\* envelope is taken before it is counted, but never understates it
\* (runtime.rs:236, 255, 381).
DepthCoversQueue ==
  laneUp => LET taken == IF hand.phase = "count" THEN 1 ELSE 0
            IN /\ laneDepth + Cardinality(Uncounted) >= Len(laneQueue) + Cardinality(Waiting)
               /\ policy.strategy = "block" => laneDepth = Len(laneQueue) + Cardinality(Waiting) + taken

\* The back-offs of an envelope never shrink, start at the initial back-off
\* and stay within the larger of the two bounds (runtime.rs:395-406).
BackoffWithinPolicy ==
  \A i \in 1..Len(slept) : /\ policy.initial <= slept[i] /\ slept[i] <= LaneMax(policy.initial, policy.max)
                           /\ i > 1 => slept[i - 1] <= slept[i]

\* Every envelope the lane takes leaves its hand: retries end
\* (runtime.rs:480-492), unless the workflow is undeployed.
LaneFreesHand == hand.phase # "recv" ~> hand.phase = "recv"

\* An accepted envelope is somewhere, the depth says so, retries keep the policy
\* (src-tauri/src/runtime.rs).
LaneSound ==
  /\ NoSilentLoss
  /\ DepthCoversQueue
  /\ BackoffWithinPolicy
=============================================================================
