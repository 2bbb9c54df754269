-------------------------- MODULE EdgeWindowProofs --------------------------
(***************************************************************************)
(* The windows of an edge are right for every capacity of the channel and   *)
(* of the event stream, both policies and any number of messages.           *)
(***************************************************************************)
EXTENDS EdgeWindow, TLAPS

EdgeType ==
  /\ depth \in Nat /\ stream \in Nat
  /\ window \in [count : Nat, deepest : Nat, sum : Nat, reported : BOOLEAN, dropped : Nat]
  /\ totals \in [sent : Nat, told : Nat, lost : Nat]
  /\ alarms \in [told : Nat, lost : Nat]
  /\ drops \in [told : Nat, lost : Nat, hidden : Nat, waiting : Nat]
  /\ full \in BOOLEAN /\ runnerUp \in BOOLEAN

\* An alarm was raised exactly when the window says so.
EdgeInv ==
  /\ EdgeType
  /\ WindowSound
  /\ window.reported <=> alarms.told + alarms.lost = 1

LEMMA EdgeInitOk == EdgeInit => EdgeInv
<1> SUFFICES ASSUME EdgeInit PROVE EdgeInv
  OBVIOUS
<1>1. EdgeType
  BY DEF EdgeInit, NewWindow, NoAlarm, EdgeType
<1>2. SummariesAddUp /\ NextAlarmTellsTheRest
  BY DEF EdgeInit, NewWindow, SummariesAddUp, NextAlarmTellsTheRest
<1>3. OneAlarmPerWindow /\ (window.reported <=> alarms.told + alarms.lost = 1)
  BY EdgeWindowAssumption DEF EdgeWindowAssumption, EdgeInit, NewWindow, NoAlarm, OneAlarmPerWindow
<1> QED
  BY <1>1, <1>2, <1>3 DEF EdgeInv, WindowSound

\* Whatever becomes of an event, the stream holds a number of events, and the fate
\* is one of the two.
LEMMA Emitted ==
  ASSUME EdgeType, EmitEvent
  PROVE  stream' \in Nat /\ Fate \in {"told", "lost"}
BY EdgeWindowAssumption DEF EdgeWindowAssumption, EdgeType, EmitEvent, Fate

\* What the ledgers of alarms and drops become.
LEMMA AlarmBooked ==
  ASSUME NEW a \in [told : Nat, lost : Nat], a.told = 0, a.lost = 0, NEW f \in {"told", "lost"}
  PROVE  /\ [a EXCEPT ![f] = @ + 1] \in [told : Nat, lost : Nat]
         /\ [a EXCEPT ![f] = @ + 1].told + [a EXCEPT ![f] = @ + 1].lost = 1
<1>1. CASE f = "told"
  BY <1>1
<1>2. CASE f = "lost"
  BY <1>2
<1> QED
  BY <1>1, <1>2

LEMMA DropsBooked ==
  ASSUME NEW d \in [told : Nat, lost : Nat, hidden : Nat, waiting : Nat], NEW n \in Nat,
         NEW f \in {"told", "lost"}
  PROVE  [d EXCEPT ![f] = @ + n, !.waiting = 0] \in [told : Nat, lost : Nat, hidden : Nat, waiting : Nat]
<1> DEFINE e == [d EXCEPT ![f] = @ + n]
<1>1. e \in [told : Nat, lost : Nat, hidden : Nat, waiting : Nat]
  <2>1. CASE f = "told"
    BY <2>1
  <2>2. CASE f = "lost"
    BY <2>2
  <2> QED
    BY <2>1, <2>2
<1>2. [d EXCEPT ![f] = @ + n, !.waiting = 0] = [e EXCEPT !.waiting = 0]
  OBVIOUS
<1> HIDE DEF e
<1>3. [e EXCEPT !.waiting = 0] \in [told : Nat, lost : Nat, hidden : Nat, waiting : Nat]
  BY <1>1
<1> QED
  BY <1>2, <1>3

LEMMA DropsForgotten ==
  ASSUME NEW d \in [told : Nat, lost : Nat, hidden : Nat, waiting : Nat]
  PROVE  /\ [d EXCEPT !.hidden = @ + d.waiting, !.waiting = 0]
              \in [told : Nat, lost : Nat, hidden : Nat, waiting : Nat]
         /\ [d EXCEPT !.hidden = @ + d.waiting, !.waiting = 0].waiting = 0
<1> DEFINE e == [d EXCEPT !.hidden = @ + d.waiting]
<1>1. e \in [told : Nat, lost : Nat, hidden : Nat, waiting : Nat]
  OBVIOUS
<1>2. [d EXCEPT !.hidden = @ + d.waiting, !.waiting = 0] = [e EXCEPT !.waiting = 0]
  OBVIOUS
<1> HIDE DEF e
<1>3. /\ [e EXCEPT !.waiting = 0] \in [told : Nat, lost : Nat, hidden : Nat, waiting : Nat]
      /\ [e EXCEPT !.waiting = 0].waiting = 0
  BY <1>1
<1> QED
  BY <1>2, <1>3

\* The deepest queue of the window reaches 80 % with the message that raises the
\* alarm: at the first one that does, nothing was reported yet.
LEMMA RecordKeeps == EdgeInv /\ Record => EdgeInv'
<1> SUFFICES ASSUME EdgeInv, Record PROVE EdgeInv'
  OBVIOUS
<1> USE EdgeWindowAssumption DEF EdgeWindowAssumption
<1>0. window' = [count |-> window.count + 1, deepest |-> EdgeMax(window.deepest, depth + 1),
                 sum |-> window.sum + depth + 1,
                 reported |-> window.reported \/ AlarmDue(depth + 1), dropped |-> window.dropped]
  BY Zenon DEF EdgeInv, EdgeType, Record
<1>1. window' \in [count : Nat, deepest : Nat, sum : Nat, reported : BOOLEAN, dropped : Nat]
  <2>1. EdgeMax(window.deepest, depth + 1) \in Nat /\ window.sum + depth + 1 \in Nat /\ window.count + 1 \in Nat
    BY DEF EdgeInv, EdgeType, EdgeMax
  <2>2. (window.reported \/ AlarmDue(depth + 1)) \in BOOLEAN /\ window.dropped \in Nat
    BY DEF EdgeInv, EdgeType
  <2> QED
    BY <1>0, <2>1, <2>2
<1>2. /\ totals' \in [sent : Nat, told : Nat, lost : Nat] /\ depth' \in Nat
      /\ totals'.sent = totals.sent + 1 /\ totals'.told = totals.told /\ totals'.lost = totals.lost
  <2>1. totals' = [totals EXCEPT !.sent = @ + 1] /\ depth' = depth + 1
    BY DEF Record
  <2> QED
    BY <2>1 DEF EdgeInv, EdgeType
<1>3. full' \in BOOLEAN /\ runnerUp' = TRUE
  BY DEF EdgeInv, EdgeType, Record
<1>4. SummariesAddUp'
  BY <1>0, <1>2, <1>3 DEF EdgeInv, EdgeType, WindowSound, SummariesAddUp
<1>5. /\ window'.deepest = EdgeMax(window.deepest, depth + 1) /\ window'.dropped = window.dropped
      /\ window'.reported <=> window.reported \/ AlarmDue(depth + 1)
  BY <1>0
<1>6. alarms.told \in Nat /\ alarms.lost \in Nat /\ alarms.told + alarms.lost <= 1
  BY DEF EdgeInv, EdgeType, WindowSound, OneAlarmPerWindow
<1>7. CASE AlarmDue(depth + 1)
  <2>1. /\ alarms' = [alarms EXCEPT ![Fate] = @ + 1] /\ stream' \in Nat /\ Fate \in {"told", "lost"}
        /\ drops' = [drops EXCEPT ![Fate] = @ + window.dropped, !.waiting = 0]
    BY <1>7, Emitted DEF Record, EdgeInv
  <2>2. alarms.told = 0 /\ alarms.lost = 0
    BY <1>6, <1>7 DEF AlarmDue, EdgeInv
  <2>3. alarms' \in [told : Nat, lost : Nat] /\ alarms'.told + alarms'.lost = 1
    <3>1. alarms \in [told : Nat, lost : Nat]
      BY DEF EdgeInv, EdgeType
    <3> QED
      BY ONLY <2>1, <2>2, <3>1, AlarmBooked
  <2>4. drops' \in [told : Nat, lost : Nat, hidden : Nat, waiting : Nat]
    <3>1. window.dropped \in Nat /\ drops \in [told : Nat, lost : Nat, hidden : Nat, waiting : Nat]
      BY DEF EdgeInv, EdgeType
    <3> QED
      BY ONLY <2>1, <3>1, DropsBooked
  <2>5. (depth + 1) * 10 >= EdgeCap * 8 /\ window'.reported
    BY <1>5, <1>7 DEF AlarmDue
  <2>6. window'.deepest * 10 >= EdgeCap * 8
    BY <1>1, <1>5, <2>5 DEF EdgeMax, EdgeInv, EdgeType
  <2>7. OneAlarmPerWindow' /\ (window.reported <=> alarms.told + alarms.lost = 1)' /\ NextAlarmTellsTheRest'
    BY <2>3, <2>5, <2>6 DEF OneAlarmPerWindow, NextAlarmTellsTheRest
  <2> QED
    BY <1>1, <1>2, <1>3, <1>4, <2>1, <2>3, <2>4, <2>7 DEF EdgeInv, EdgeType, WindowSound
<1>8. CASE ~AlarmDue(depth + 1)
  <2>1. UNCHANGED <<stream, alarms, drops>> /\ (window'.reported <=> window.reported)
    BY <1>5, <1>8 DEF Record
  <2>2. alarms.told + alarms.lost = 1 \/ ~((depth + 1) * 10 >= EdgeCap * 8)
    BY <1>8 DEF AlarmDue, EdgeInv
  <2>3. alarms.told + alarms.lost = 1 <=> window.deepest * 10 >= EdgeCap * 8
    BY DEF EdgeInv, WindowSound, OneAlarmPerWindow
  <2>4. OneAlarmPerWindow'
    BY <1>1, <1>5, <1>6, <2>1, <2>2, <2>3 DEF OneAlarmPerWindow, EdgeMax, EdgeInv, EdgeType
  <2>5. (window.reported <=> alarms.told + alarms.lost = 1)' /\ NextAlarmTellsTheRest'
    BY <1>5, <2>1 DEF EdgeInv, WindowSound, NextAlarmTellsTheRest
  <2> QED
    BY <1>1, <1>2, <1>3, <1>4, <2>1, <2>4, <2>5 DEF EdgeInv, EdgeType, WindowSound
<1> QED
  BY <1>7, <1>8

\* The flush puts exactly what the window counted into one summary, arrived or lost,
\* and begins a new window in which nothing was dropped.
LEMMA DoFlushKeeps ==
  ASSUME EdgeInv, DoFlush, runnerUp' \in BOOLEAN
  PROVE  EdgeInv'
<1> USE EdgeWindowAssumption DEF EdgeWindowAssumption
<1>1. window' = NewWindow /\ alarms' = NoAlarm /\ full' = FALSE /\ depth' = depth
  BY DEF DoFlush
<1>2. stream' \in Nat /\ Fate \in {"told", "lost"}
  BY Emitted DEF DoFlush, EdgeInv
<1>3. /\ totals' \in [sent : Nat, told : Nat, lost : Nat] /\ totals'.sent = totals.sent
      /\ totals'.told + totals'.lost = totals.told + totals.lost + window.count
  BY <1>2 DEF EdgeInv, EdgeType, DoFlush
<1>4. drops' \in [told : Nat, lost : Nat, hidden : Nat, waiting : Nat] /\ drops'.waiting = 0
  <2>1. drops' = [drops EXCEPT !.hidden = @ + drops.waiting, !.waiting = 0]
    BY DEF DoFlush
  <2>2. drops \in [told : Nat, lost : Nat, hidden : Nat, waiting : Nat]
    BY DEF EdgeInv, EdgeType
  <2> QED
    BY ONLY <2>1, <2>2, DropsForgotten
<1>5. EdgeType'
  BY <1>1, <1>2, <1>3, <1>4 DEF EdgeInv, EdgeType, NewWindow, NoAlarm
<1>6. SummariesAddUp'
  <2>1. window'.count = 0 /\ totals.sent = totals.told + totals.lost + window.count
    BY <1>1 DEF NewWindow, EdgeInv, WindowSound, SummariesAddUp
  <2>2. window.count \in Nat /\ totals.told \in Nat /\ totals.lost \in Nat
    BY DEF EdgeInv, EdgeType
  <2> QED
    BY <1>3, <2>1, <2>2 DEF SummariesAddUp
<1>7. OneAlarmPerWindow' /\ NextAlarmTellsTheRest' /\ (window.reported <=> alarms.told + alarms.lost = 1)'
  BY <1>1, <1>4 DEF NewWindow, NoAlarm, OneAlarmPerWindow, NextAlarmTellsTheRest
<1> QED
  BY <1>5, <1>6, <1>7 DEF EdgeInv, WindowSound

\* A dropped message is counted in the window and waits to be told of.
LEMMA RecordDropKeeps == EdgeInv /\ RecordDrop => EdgeInv'
<1> SUFFICES ASSUME EdgeInv, RecordDrop PROVE EdgeInv'
  OBVIOUS
<1>1. /\ window' \in [count : Nat, deepest : Nat, sum : Nat, reported : BOOLEAN, dropped : Nat]
      /\ window'.count = window.count /\ window'.deepest = window.deepest
      /\ window'.reported = window.reported /\ window'.dropped = window.dropped + 1
  BY DEF EdgeInv, EdgeType, RecordDrop
<1>2. /\ drops' \in [told : Nat, lost : Nat, hidden : Nat, waiting : Nat]
      /\ drops'.waiting = drops.waiting + 1
  BY DEF EdgeInv, EdgeType, RecordDrop
<1>3. UNCHANGED <<depth, full, runnerUp, stream, totals, alarms>>
  BY DEF RecordDrop
<1> QED
  BY <1>1, <1>2, <1>3
  DEF EdgeInv, EdgeType, WindowSound, SummariesAddUp, OneAlarmPerWindow, NextAlarmTellsTheRest

\* What touches neither the window nor its histories disturbs nothing.
LEMMA AsideKeeps ==
  ASSUME EdgeInv, UNCHANGED <<window, totals, alarms, drops>>, depth' \in Nat, stream' \in Nat,
         full' \in BOOLEAN, runnerUp' \in BOOLEAN, ~runnerUp' => window.count = 0
  PROVE  EdgeInv'
<1>1. EdgeType'
  BY DEF EdgeInv, EdgeType
<1> QED
  BY <1>1 DEF EdgeInv, WindowSound, SummariesAddUp, OneAlarmPerWindow, NextAlarmTellsTheRest

LEMMA EdgeStepOk == EdgeInv /\ [EdgeNext]_edgeVars => EdgeInv'
<1> SUFFICES ASSUME EdgeInv, [EdgeNext]_edgeVars PROVE EdgeInv'
  OBVIOUS
<1>0. EdgeType /\ (~runnerUp => window.count = 0)
  BY DEF EdgeInv, WindowSound, SummariesAddUp
<1>1. CASE Record
  BY <1>1, RecordKeeps
<1>2. CASE RecordDrop
  BY <1>2, RecordDropKeeps
<1>3. CASE ConsumerTakes
  BY <1>0, <1>3, AsideKeeps DEF ConsumerTakes, EdgeType
<1>4. CASE OthersEmit
  BY <1>0, <1>4, AsideKeeps DEF OthersEmit, EmitEvent, EdgeType
<1>5. CASE EventTaken
  BY <1>0, <1>5, AsideKeeps DEF EventTaken, EdgeType
<1>6. CASE WindowFills
  BY <1>0, <1>6, AsideKeeps DEF WindowFills, EdgeType
<1>7. CASE FlushIfReady
  BY <1>0, <1>7, DoFlushKeeps DEF FlushIfReady, EdgeType
<1>8. CASE ForceFlush
  <2>1. CASE window.count = 0
    BY <1>0, <1>8, <2>1, AsideKeeps DEF ForceFlush, EdgeType
  <2>2. CASE window.count # 0
    BY <1>8, <2>2, DoFlushKeeps DEF ForceFlush
  <2> QED
    BY <2>1, <2>2
<1>9. CASE UNCHANGED edgeVars
  BY <1>0, <1>9, AsideKeeps DEF edgeVars, EdgeType
<1> QED
  BY <1>1, <1>2, <1>3, <1>4, <1>5, <1>6, <1>7, <1>8, <1>9 DEF EdgeNext

\* Every message sent over the edge is in one summary, arrived or lost, nothing is
\* left when the runner ends, every window raises one alarm exactly when a message
\* found the queue at 80 % of the capacity, and the next alarm tells of the drops
\* nobody spoke of (edge_window.rs:84-180), whatever the capacities of the channel
\* and of the event stream.
THEOREM WindowsAreRight == EdgeSpec => []WindowSound
<1>1. EdgeInv => WindowSound
  BY DEF EdgeInv
<1> QED
  BY <1>1, EdgeInitOk, EdgeStepOk, PTL DEF EdgeSpec
=============================================================================
