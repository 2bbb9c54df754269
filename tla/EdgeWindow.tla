------------------------------ MODULE EdgeWindow ------------------------------
(***************************************************************************)
(* The observation window of one edge (crates/graph edge_window.rs, called *)
(* from run_node): what the runner sends over the edge is summed up for at *)
(* least 100 ms and then emitted; a queue filled to 80 % raises an alarm,  *)
(* once per window. Events are emitted with try_send: the stream they go   *)
(* to is bounded and shared, and what it has no room for is dropped, while *)
(* the window goes on as if it had been told.                              *)
(***************************************************************************)
EXTENDS Naturals

CONSTANTS
  EdgeCap,     \* capacity of the channel of the edge
  EdgePolicy,  \* "block" or "dropNewest"
  StreamCap,   \* capacity of the event stream
  OfferBound   \* bound: messages offered to the edge

ASSUME EdgeWindowAssumption ==
  /\ EdgeCap \in Nat \ {0} /\ EdgePolicy \in {"block", "dropNewest"}
  /\ StreamCap \in Nat \ {0} /\ OfferBound \in Nat

VARIABLES
  depth,     \* messages in the channel
  window,    \* transmit_count, max_queue_depth, queue_depth_sum, reported, dropped
  full,      \* the window has lasted 100 ms
  runnerUp,  \* the loop of the runner has not ended
  stream,    \* events in the stream
  totals,    \* history: messages sent, summed up in an event, in a lost event
  alarms,    \* history: alarms of the window that arrived, and lost ones
  drops      \* history: dropped messages by what became of their report

edgeVars == <<depth, window, full, runnerUp, stream, totals, alarms, drops>>

NewWindow == [count |-> 0, deepest |-> 0, sum |-> 0, reported |-> FALSE, dropped |-> 0]
NoAlarm == [told |-> 0, lost |-> 0]
EdgeMax(a, b) == IF a >= b THEN a ELSE b

\* emit_event: the fate of an event, and the stream after it.
Fate == IF stream < StreamCap THEN "told" ELSE "lost"
EmitEvent == stream' = IF stream < StreamCap THEN stream + 1 ELSE stream

AlarmDue(d) == ~window.reported /\ d * 10 >= EdgeCap * 8

Offered == totals.sent + drops.told + drops.lost + drops.hidden + drops.waiting

\* A message is sent; record sees the depth it leaves, and an alarm speaks of
\* the drops of the window. The flag is set whether or not the alarm got through.
Record ==
  /\ runnerUp /\ Offered < OfferBound /\ depth < EdgeCap
  /\ depth' = depth + 1
  /\ window' = [window EXCEPT !.count = @ + 1, !.deepest = EdgeMax(@, depth + 1), !.sum = @ + depth + 1,
                              !.reported = @ \/ AlarmDue(depth + 1)]
  /\ totals' = [totals EXCEPT !.sent = @ + 1]
  /\ IF AlarmDue(depth + 1)
     THEN /\ EmitEvent /\ alarms' = [alarms EXCEPT ![Fate] = @ + 1]
          /\ drops' = [drops EXCEPT ![Fate] = @ + window.dropped, !.waiting = 0]
     ELSE UNCHANGED <<stream, alarms, drops>>
  /\ UNCHANGED <<full, runnerUp>>

\* DropNewest on a full channel: only the counter of the window moves.
RecordDrop ==
  /\ runnerUp /\ EdgePolicy = "dropNewest" /\ depth = EdgeCap /\ Offered < OfferBound
  /\ window' = [window EXCEPT !.dropped = @ + 1]
  /\ drops' = [drops EXCEPT !.waiting = @ + 1]
  /\ UNCHANGED <<depth, full, runnerUp, stream, totals, alarms>>

\* The node at the other end of the edge.
ConsumerTakes ==
  /\ depth > 0 /\ depth' = depth - 1
  /\ UNCHANGED <<window, full, runnerUp, stream, totals, alarms, drops>>

\* The other emitters of the workflow, and the task that forwards the events.
OthersEmit ==
  /\ stream < StreamCap /\ EmitEvent
  /\ UNCHANGED <<depth, window, full, runnerUp, totals, alarms, drops>>

EventTaken ==
  /\ stream > 0 /\ stream' = stream - 1
  /\ UNCHANGED <<depth, window, full, runnerUp, totals, alarms, drops>>

\* 100 ms since the window began.
WindowFills ==
  /\ ~full /\ full' = TRUE
  /\ UNCHANGED <<depth, window, runnerUp, stream, totals, alarms, drops>>

\* The counters start again whether or not the summary got through; drops no
\* alarm of the window spoke of are forgotten.
DoFlush ==
  /\ EmitEvent /\ totals' = [totals EXCEPT ![Fate] = @ + window.count]
  /\ drops' = [drops EXCEPT !.hidden = @ + drops.waiting, !.waiting = 0]
  /\ window' = NewWindow /\ full' = FALSE /\ alarms' = NoAlarm
  /\ UNCHANGED depth

\* After a message and at every tick: a window without traffic is not flushed.
FlushIfReady == runnerUp /\ window.count > 0 /\ full /\ DoFlush /\ UNCHANGED runnerUp

\* Mutant: the rest of a young window is left.
ForceFlushReadyOnly ==
  /\ runnerUp /\ runnerUp' = FALSE
  /\ IF window.count = 0 \/ ~full
     THEN UNCHANGED <<depth, window, full, stream, totals, alarms, drops>> ELSE DoFlush

\* The loop ends: what is left is flushed whatever the age of the window.
ForceFlush ==
  /\ runnerUp /\ runnerUp' = FALSE
  /\ IF window.count = 0
     THEN UNCHANGED <<depth, window, full, stream, totals, alarms, drops>> ELSE DoFlush

EdgeInit ==
  /\ depth = 0 /\ window = NewWindow /\ full = FALSE /\ runnerUp = TRUE /\ stream = 0
  /\ totals = [sent |-> 0, told |-> 0, lost |-> 0] /\ alarms = NoAlarm
  /\ drops = [told |-> 0, lost |-> 0, hidden |-> 0, waiting |-> 0]

EdgeNext ==
  \/ Record \/ RecordDrop \/ ConsumerTakes \/ OthersEmit \/ EventTaken
  \/ WindowFills \/ FlushIfReady \/ ForceFlush

EdgeSpec == EdgeInit /\ [][EdgeNext]_edgeVars

-----------------------------------------------------------------------------
\* Every message sent is in one summary, one that arrived or one the full stream
\* dropped, or in the open window; the end of the runner leaves none in the window
\* (edge_window.rs:134-180).
SummariesAddUp ==
  /\ totals.sent = totals.told + totals.lost + window.count
  /\ ~runnerUp => window.count = 0

\* A window raises one alarm at most, and tries to as soon as a message found the
\* queue at 80 %; an alarm the stream dropped is not raised again
\* (edge_window.rs:84-112).
OneAlarmPerWindow ==
  /\ alarms.told + alarms.lost <= 1
  /\ (alarms.told + alarms.lost = 1) <=> window.deepest * 10 >= EdgeCap * 8

\* The counter the next alarm will send is the number of drops no alarm has spoken
\* of and no flush has forgotten, those of earlier windows without traffic
\* included: no drop is told of twice, and none is left out of the counter
\* (edge_window.rs:96, :115-119, :134, :177).
NextAlarmTellsTheRest == ~window.reported => window.dropped = drops.waiting

\* dropped_since_last_report (core event.rs:101): every drop is told of by an
\* alarm at last.
AlarmTellsAllDrops == drops.hidden = 0

\* The windows of an edge count every message once, alarm once, and report a drop
\* at most once (graph/src/edge_window.rs).
WindowSound ==
  /\ SummariesAddUp
  /\ OneAlarmPerWindow
  /\ NextAlarmTellsTheRest
=============================================================================
