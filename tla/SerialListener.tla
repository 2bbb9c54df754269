--------------------------- MODULE SerialListener ---------------------------
(***************************************************************************)
(* The two serial port listeners of crates/nodes-io: the serialTrigger node *)
(* (mode "trigger", serial_trigger/loop.rs) and the serial signals of a     *)
(* deviceEventTrigger node (mode "event", device_event_trigger/             *)
(* serial_loop.rs).  Each borrows the connection, opens the port and cuts   *)
(* the bytes it reads into frames until its token is cancelled.             *)
(***************************************************************************)
EXTENDS Integers, Sequences

CONSTANTS SerialConfigs,  \* [mode, bound, kind, complete, delimiter, max]
          SerialChunks,   \* the byte sequences one read may return
          MaxReceived,    \* bound on the bytes of one connection
          MaxOpens        \* bound on the connections of one run

\* Bytes are numbers; max_frame_bytes.clamp(1, ..) excludes 0.
ASSUME SerialAssumption ==
  /\ \A c \in SerialConfigs :
       /\ c = [mode |-> c.mode, bound |-> c.bound, kind |-> c.kind, complete |-> c.complete,
               delimiter |-> c.delimiter, max |-> c.max]
       /\ c.mode \in {"trigger", "event"} /\ c.delimiter \in Seq(Nat) /\ c.max \in Nat \ {0}
  /\ \A chunk \in SerialChunks : chunk \in Seq(Nat)

VARIABLES serial,      \* the configuration
          sphase,      \* "new" "closed" "open" "reading" "broken" "retry" "over"
          sbuf,        \* bytes not cut into a frame yet
          cuts,        \* frames cut since the port was opened: [data, how]
          received,    \* bytes read since the port was opened
          late,        \* reads that ended after the cancellation
          opens,       \* connections so far
          scancelled,  \* the cancellation token
          told         \* what the connection's record was told last
serialVars == <<serial, sphase, sbuf, cuts, received, late, opens, scancelled, told>>

\* The delimiter as the metadata spell it, characters by their codes: a
\* serialTrigger reads every escape, the event listener "\n" and "\r\n" alone.
Backslash == 92
Escaped(ch) == CASE ch = 110 -> 10 [] ch = 114 -> 13 [] ch = 116 -> 9 [] OTHER -> ch
ReadEscape(st, ch) ==
  CASE st.after = "backslash" -> [after |-> "plain", bytes |-> Append(st.bytes, Escaped(ch))]
    [] st.after = "plain" /\ ch = Backslash -> [after |-> "backslash", bytes |-> st.bytes]
    [] st.after = "plain" /\ ch # Backslash -> [after |-> "plain", bytes |-> Append(st.bytes, ch)]
DecodeSerialDelimiter(text) ==
  LET read[i \in 0..Len(text)] ==
        IF i = 0 THEN [after |-> "plain", bytes |-> << >>] ELSE ReadEscape(read[i - 1], text[i])
      end == read[Len(text)]
  IN  IF end.after = "backslash" THEN Append(end.bytes, Backslash) ELSE end.bytes
ParseDelimiter(text) ==
  CASE text = <<92, 110>> -> <<10>> [] text = <<92, 114, 92, 110>> -> <<13, 10>> [] OTHER -> text
Decoded(c) ==
  [c EXCEPT !.delimiter = IF c.mode = "trigger" THEN DecodeSerialDelimiter(@) ELSE ParseDelimiter(@)]
\* parse_serial_metadata: the event listener cannot do without a delimiter.
MetadataComplete == serial.complete /\ (serial.mode = "event" => serial.delimiter # << >>)

SerialInit ==
  /\ serial \in {Decoded(c) : c \in SerialConfigs} /\ sphase = "new"
  /\ sbuf = << >> /\ cuts = << >> /\ received = << >>
  /\ late = 0 /\ opens = 0 /\ scancelled = FALSE /\ told = "nothing"

\* ------------------------------------------------------------------ deploy
\* The trigger tells the record that its configuration is invalid, the event
\* listener has reported a success before it looks.
DeployTrigger ==
  /\ sphase = "new" /\ serial.mode = "trigger"
  /\ IF ~serial.bound THEN sphase' = "over" /\ UNCHANGED told
     ELSE \/ sphase' = "over" /\ UNCHANGED told   \* the connection cannot be borrowed
          \/ /\ serial.kind # "serial" \/ ~MetadataComplete
             /\ sphase' = "over" /\ told' = "invalid"
          \/ /\ serial.kind = "serial" /\ MetadataComplete
             /\ sphase' = "closed" /\ told' = "success"
  /\ UNCHANGED <<serial, sbuf, cuts, received, late, opens, scancelled>>
DeployEventListener ==
  /\ sphase = "new" /\ serial.mode = "event"
  /\ IF ~serial.bound THEN sphase' = "over" /\ UNCHANGED told
     ELSE \/ sphase' = "over" /\ UNCHANGED told
          \/ /\ sphase' = IF serial.kind = "serial" /\ MetadataComplete THEN "closed" ELSE "over"
             /\ told' = "success"
  /\ UNCHANGED <<serial, sbuf, cuts, received, late, opens, scancelled>>
CancelSerial ==
  /\ sphase # "new" /\ ~scancelled /\ scancelled' = TRUE
  /\ UNCHANGED <<serial, sphase, sbuf, cuts, received, late, opens, told>>

\* -------------------------------------------------------------- the port
GiveUp ==
  /\ sphase \in {"closed", "retry"} /\ scancelled /\ sphase' = "over"
  /\ UNCHANGED <<serial, sbuf, cuts, received, late, opens, scancelled, told>>
AcquireFails ==
  /\ sphase = "closed" /\ ~scancelled /\ sphase' = "retry"
  /\ UNCHANGED <<serial, sbuf, cuts, received, late, opens, scancelled, told>>
OpenPort ==
  /\ sphase = "closed" /\ ~scancelled /\ opens < MaxOpens
  /\ sphase' = "open" /\ opens' = opens + 1
  /\ sbuf' = << >> /\ cuts' = << >> /\ received' = << >>
  /\ told' = IF serial.mode = "trigger" THEN "connected" ELSE told
  /\ UNCHANGED <<serial, late, scancelled>>
OpenFails ==
  /\ sphase = "closed" /\ ~scancelled /\ sphase' = "retry" /\ told' = "failed"
  /\ UNCHANGED <<serial, sbuf, cuts, received, late, opens, scancelled>>
\* The event listener reads the metadata again on every connection.
MetadataFails ==
  /\ sphase = "closed" /\ ~scancelled /\ serial.mode = "event"
  /\ sphase' = "retry" /\ told' = "failed"
  /\ UNCHANGED <<serial, sbuf, cuts, received, late, opens, scancelled>>
SleepEnds ==
  /\ sphase = "retry" /\ sphase' = "closed"
  /\ UNCHANGED <<serial, sbuf, cuts, received, late, opens, scancelled, told>>
\* Before every read.
CheckToken ==
  /\ sphase = "open" /\ ~scancelled /\ sphase' = "reading"
  /\ UNCHANGED <<serial, sbuf, cuts, received, late, opens, scancelled, told>>

\* ------------------------------------------------------------------ framing
Delimiters(s) ==
  LET d == serial.delimiter
  IN  IF d = << >> THEN {} ELSE {i \in 1..(Len(s) - Len(d) + 1) : SubSeq(s, i, i + Len(d) - 1) = d}
FirstDelimiter(s) == CHOOSE i \in Delimiters(s) : \A j \in Delimiters(s) : i <= j
Cut(st, n, skip, how) ==
  [rest |-> SubSeq(st.rest, n + skip + 1, Len(st.rest)), cuts |-> Append(st.cuts, [data |-> SubSeq(st.rest, 1, n), how |-> how])]
\* drain_delimited_frame: the bytes before the first delimiter, if there is one.
DrainDelimitedFrame(st) ==
  IF Delimiters(st.rest) = {} THEN st
  ELSE Cut(st, FirstDelimiter(st.rest) - 1, Len(serial.delimiter), "line")
\* Once per read: without a delimiter a frame ends at the maximal length.
CutLong(st) == IF Len(st.rest) >= serial.max THEN Cut(st, serial.max, 0, "long") ELSE st
TriggerReads(chunk) ==
  LET buffer == sbuf \o chunk
      drained[k \in 0..Len(buffer)] ==   \* until there is no delimiter left
        IF k = 0 THEN [rest |-> buffer, cuts |-> cuts] ELSE DrainDelimitedFrame(drained[k - 1])
  IN  CutLong(drained[Len(buffer)])
\* The event listener reads one byte and compares the end of its buffer.
EventReads(chunk) ==
  LET buffer == sbuf \o chunk
      at == Len(buffer) - Len(serial.delimiter) + 1
      st == [rest |-> buffer, cuts |-> cuts]
  IN  IF at \in Delimiters(buffer) THEN Cut(st, at - 1, Len(serial.delimiter), "line") ELSE st

LateReads == IF scancelled /\ late < 2 THEN late + 1 ELSE late   \* counted up to 2
ReadBytes(chunk) ==
  /\ sphase = "reading" /\ Len(received) + Len(chunk) <= MaxReceived
  /\ serial.mode = "event" => Len(chunk) = 1
  /\ LET st == IF serial.mode = "trigger" THEN TriggerReads(chunk) ELSE EventReads(chunk)
     IN  sbuf' = st.rest /\ cuts' = st.cuts
  /\ received' = received \o chunk
  /\ late' = LateReads
  /\ sphase' = "open"
  /\ UNCHANGED <<serial, opens, scancelled, told>>
\* flush_idle: what the line left unfinished for the idle gap is a frame.
FlushIdle ==
  /\ serial.mode = "trigger" /\ sbuf # << >>
  /\ cuts' = Append(cuts, [data |-> sbuf, how |-> "idle"]) /\ sbuf' = << >>
\* Nothing arrives within the read timeout; the idle gap may be over.
ReadTimesOut ==
  /\ sphase = "reading" /\ sphase' = "open"
  /\ UNCHANGED <<sbuf, cuts>> \/ FlushIdle
  /\ late' = LateReads
  /\ UNCHANGED <<serial, received, opens, scancelled, told>>
ReadFails ==
  /\ sphase = "reading" /\ sphase' = "broken"
  /\ UNCHANGED <<serial, sbuf, cuts, received, late, opens, scancelled, told>>

\* ------------------------------------------------------------ leaving the port

\* Mutant: the frame in the buffer is lost when the port is left.
LastFrameForgotten == cuts

\* What is left when the line breaks is a frame for the trigger; the event
\* listener drops it.
LastFrame ==
  IF serial.mode = "trigger" /\ sbuf # << >> THEN Append(cuts, [data |-> sbuf, how |-> "rest"]) ELSE cuts
CloseBroken ==
  /\ sphase = "broken" /\ (~scancelled \/ serial.mode = "event")
  /\ cuts' = LastFrame /\ sbuf' = << >>
  /\ sphase' = "retry" /\ told' = "failed"
  /\ UNCHANGED <<serial, received, late, opens, scancelled>>
\* The token was cancelled: bytes without a frame are dropped.
CloseCancelled ==
  /\ scancelled
  /\ \/ sphase = "open"
     \/ sphase = "broken" /\ serial.mode = "trigger"
  /\ sphase' = "over" /\ told' = "stopped" /\ sbuf' = << >>
  /\ UNCHANGED <<serial, cuts, received, late, opens, scancelled>>

ReadEnds == (\E chunk \in SerialChunks : ReadBytes(chunk)) \/ ReadTimesOut \/ ReadFails
SerialStep ==
  \/ DeployTrigger \/ DeployEventListener \/ GiveUp \/ AcquireFails \/ OpenPort \/ OpenFails \/ MetadataFails
  \/ SleepEnds \/ CheckToken \/ ReadEnds \/ CloseBroken \/ CloseCancelled
SerialNext == SerialStep \/ CancelSerial
SerialSpec == SerialInit /\ [][SerialNext]_serialVars
-----------------------------------------------------------------------------
\* submit_frame drops an empty frame and emits the others; a failed emit is
\* logged and forgotten.
Submitted == {i \in 1..Len(cuts) : cuts[i].data # << >>}

Piece(f) == f.data \o (IF f.how = "line" THEN serial.delimiter ELSE << >>)
Joined(fs) ==
  LET upto[n \in 0..Len(fs)] == IF n = 0 THEN << >> ELSE upto[n - 1] \o Piece(fs[n]) IN upto[Len(fs)]

\* As long as the port is open the frames, each line with its delimiter, and
\* the buffer are the bytes received, none lost, doubled or moved; after the
\* line has broken the frames of a serialTrigger alone are
\* (loop.rs:285-291, 328-330).
FramesAreTheBytes ==
  sphase \in {"open", "reading", "broken"} \/ (sphase = "retry" /\ serial.mode = "trigger" /\ told = "failed" /\ ~scancelled)
    => Joined(cuts) \o sbuf = received

\* No frame that is emitted holds a delimiter, however the bytes were spread
\* over the reads.
FramesAreWholeLines ==
  \A i \in Submitted : Delimiters(cuts[i].data) = {}

\* If no read returns more than max_frame_bytes the buffer of a serialTrigger
\* stays below that length between reads (loop.rs:288-291).
BufferBounded ==
  (serial.mode = "trigger" /\ \A chunk \in SerialChunks : Len(chunk) <= serial.max) => Len(sbuf) < serial.max

\* After the cancellation at most the read that was under way is turned into
\* frames (loop.rs:252, serial_loop.rs:209).
OneLateRead == late <= 1

\* A cancelled listener ends.
SerialListenerStops == scancelled ~> sphase = "over"

\* Serial frames are the received bytes, cut as configured (serial_trigger).
SerialSound ==
  /\ FramesAreTheBytes
  /\ FramesAreWholeLines
  /\ BufferBounded
  /\ OneLateRead
=============================================================================
