------------------------------- MODULE CanBus -------------------------------
(***************************************************************************)
(* The CAN bus a session shares (crates/nodes-io/src/can): frames are      *)
(* written to and read from an SLCAN adapter as lines of ASCII.  A thread  *)
(* of its own reads the lines, decodes them and puts the frames into an    *)
(* unbounded channel; the canRead nodes and the CAN event listeners that   *)
(* share the session take turns at the receiving end.                      *)
(*                                                                         *)
(* A line is a record: its letter, the number its identifier digits spell, *)
(* the digit of its length code and the number of characters after it.     *)
(* Payload bytes themselves are left out: only how many there are counts.  *)
(***************************************************************************)
EXTENDS Integers, Sequences, FiniteSets

CONSTANTS CanReaders,     \* tasks that receive from the shared bus
          CanFilterOf,    \* the filter of each: [id, ext], NoCanFilter if none
          CanSends,       \* the frames offered to canWrite
          CanNoise,       \* lines that other stations cause
          CanLines        \* bound: lines that arrive before the port is silent

\* Identifiers, lengths and digits are unsigned.
ASSUME CanBusAssumption ==
  /\ CanSends \subseteq [id : Nat, ext : BOOLEAN, bytes : Nat]
  /\ CanNoise \subseteq [letter : STRING, id : Nat, digit : Nat, rest : Nat]

VARIABLES canQueue,       \* frames decoded and not received
          canThread,      \* "running", "ended": the reading thread
          canState,       \* BusState: "Active" or "Error"
          canTurns,       \* the readers inside recv, in the order rx_receiver
                          \* serves them: the first one holds it
          canGot,         \* the frames each reader was given
          canArrived,     \* every frame the thread put into the channel
          canEcho,        \* a frame sent and what a station decodes of its line
          canLineCount

canVars == <<canQueue, canThread, canState, canTurns, canGot,
             canArrived, canEcho, canLineCount>>

NoCanFilter == [id |-> -1, ext |-> FALSE]
NoFrame == [id |-> -1, ext |-> FALSE, remote |-> FALSE, dlc |-> 0, bytes |-> 0]

MaxStandardId == 2047            \* 0x7FF
MaxExtendedId == 536870911       \* 0x1FFF_FFFF

\* validate_can_id: the identifier fits the format of the frame.
CanIdFits(id, ext) == id <= IF ext THEN MaxExtendedId ELSE MaxStandardId

\* A frame that keeps every byte it is given.
NewFrameWhole(id, ext, bytes) ==
    [id |-> id, ext |-> ext, remote |-> FALSE, dlc |-> bytes, bytes |-> bytes]

\* CanFrame::new_standard, new_extended: at most eight bytes are kept, and the
\* length code is their number.
NewFrame(id, ext, bytes) ==
    LET kept == IF bytes > 8 THEN 8 ELSE bytes
    IN  [id |-> id, ext |-> ext, remote |-> FALSE, dlc |-> kept, bytes |-> kept]

\* encode_slcan_frame: the letter says the format only, so a remote frame is
\* written as a data frame.
EncodeSlcan(f) ==
    LET dlc == IF f.dlc > 8 THEN 8 ELSE f.dlc
    IN  [letter |-> IF f.ext THEN "T" ELSE "t", id |-> f.id, digit |-> dlc, rest |-> 2 * dlc]

IdDigits(letter) == IF letter \in {"T", "R"} THEN 8 ELSE 3

LineLength(l) == 1 + IdDigits(l.letter) + 1 + l.rest

\* The shortest line each letter is decoded from.
ShortestLine(letter) ==
    CASE letter = "t" -> 5 [] letter = "T" -> 11 [] letter = "r" -> 5 [] OTHER -> 10

\* decode_slcan_frame.  A digit above 8 passes, and so does an identifier that
\* its three digits can spell although it does not fit a standard frame.
DecodeSlcan(l) ==
    LET data == l.letter \in {"t", "T"}
        ext  == l.letter \in {"T", "R"}
    IN  IF \/ l.letter \notin {"t", "T", "r", "R"}
           \/ LineLength(l) < ShortestLine(l.letter)
           \/ data /\ l.rest < 2 * l.digit
        THEN NoFrame
        ELSE [id |-> l.id, ext |-> ext, remote |-> ~data, dlc |-> l.digit,
              bytes |-> IF data THEN l.digit ELSE 0]

\* CanFilter::matches with the mask of CanReadNode::node_filter: a filter for extended
\* frames refuses standard ones; one for standard frames compares eleven bits of
\* any frame.
PassesFilter(f, filter) ==
    \/ /\ filter.ext
       /\ f.ext /\ f.id = filter.id
    \/ /\ ~filter.ext
       /\ f.id % (MaxStandardId + 1) = filter.id % (MaxStandardId + 1)

CanInit ==
    /\ canQueue = <<>>
    /\ canThread = "running"
    /\ canState = "Active"
    /\ canTurns = <<>>
    /\ canGot = [r \in CanReaders |-> <<>>]
    /\ canArrived = <<>>
    /\ canEcho = [sent |-> NoFrame, seen |-> NoFrame]
    /\ canLineCount = 0

\* CanWriteNode::frame_from_payload and SlCanBackend::send: an identifier that
\* does not fit is refused before anything is written.
SendFrame ==
    \E s \in CanSends :
        /\ CanIdFits(s.id, s.ext)
        /\ LET f == NewFrame(s.id, s.ext, s.bytes)
           IN  canEcho' = [sent |-> f, seen |-> DecodeSlcan(EncodeSlcan(f))]
        /\ UNCHANGED <<canQueue, canThread, canState, canTurns, canGot,
                       canArrived, canLineCount>>


\* The reading thread: a line that does not decode is skipped.
ThreadReads ==
    /\ canThread = "running"
    /\ canLineCount < CanLines
    /\ canLineCount' = canLineCount + 1
    /\ \E l \in CanNoise :
          LET f == DecodeSlcan(l)
          IN  /\ canQueue' = IF f = NoFrame THEN canQueue ELSE Append(canQueue, f)
              /\ canArrived' = IF f = NoFrame THEN canArrived ELSE Append(canArrived, f)
    /\ UNCHANGED <<canThread, canState, canTurns, canGot, canEcho>>

\* End of file ends the thread without a word; a read error marks the bus first.
ThreadEnds ==
    /\ canThread = "running"
    /\ canThread' = "ended"
    /\ canState' \in {canState, "Error"}
    /\ UNCHANGED <<canQueue, canTurns, canGot, canArrived, canEcho, canLineCount>>

\* recv: the deadline is set before the wait for the receiver begins.
Receive(r) ==
    /\ \A i \in 1..Len(canTurns) : canTurns[i] # r
    /\ canTurns' = Append(canTurns, r)
    /\ UNCHANGED <<canQueue, canThread, canState, canGot, canArrived, canEcho, canLineCount>>

\* A node without a filter wants every frame.
MatchesFilter(r, f) == CanFilterOf[r] = NoCanFilter \/ PassesFilter(f, CanFilterOf[r])

Holds(r) == canTurns # <<>> /\ Head(canTurns) = r

\* A frame is taken out of the channel for everybody; the node's own filter is
\* applied after that, so a frame it does not want is gone.
TakeFrame(r) ==
    /\ Holds(r)
    /\ canQueue # <<>>
    /\ canQueue' = Tail(canQueue)
    /\ canGot' = IF MatchesFilter(r, Head(canQueue))
                 THEN [canGot EXCEPT ![r] = Append(@, Head(canQueue))]
                 ELSE canGot
    /\ canTurns' = Tail(canTurns)
    /\ UNCHANGED <<canThread, canState, canArrived, canEcho, canLineCount>>

\* The deadline passes, or it had passed before the lock came.
ReceiveTimesOut(r) ==
    /\ Holds(r)
    /\ canTurns' = Tail(canTurns)
    /\ UNCHANGED <<canQueue, canThread, canState, canGot, canArrived, canEcho, canLineCount>>

\* The channel is closed and empty: the bus is marked, and the reader sees what
\* a timeout gives it.
ChannelClosed(r) ==
    /\ Holds(r)
    /\ canThread = "ended"
    /\ canQueue = <<>>
    /\ canState' = "Error"
    /\ canTurns' = Tail(canTurns)
    /\ UNCHANGED <<canQueue, canThread, canGot, canArrived, canEcho, canLineCount>>

CanReaderStep(r) == TakeFrame(r) \/ ReceiveTimesOut(r) \/ ChannelClosed(r)

CanNext ==
    \/ SendFrame
    \/ ThreadReads
    \/ ThreadEnds
    \/ \E r \in CanReaders : Receive(r) \/ CanReaderStep(r)

CanSpec == CanInit /\ [][CanNext]_canVars /\ \A r \in CanReaders : WF_canVars(CanReaderStep(r))

-----------------------------------------------------------------------------
\* What a station decodes of a line this program wrote is the frame it meant, but
\* for an extended frame without data: its line of ten characters is one shorter
\* than the decoder accepts (slcan.rs:345), so it reaches nobody.
EchoIsTheFrame ==
    canEcho.sent # NoFrame =>
        canEcho.seen = IF canEcho.sent.ext /\ canEcho.sent.dlc = 0 THEN NoFrame ELSE canEcho.sent

\* A decoded data frame carries the bytes its length code promises, whatever the
\* line said (the listeners slice by the number of bytes, can_loop.rs:103).
BytesPromised(f) == f.remote \/ f.dlc = f.bytes
DlcIsLength == \A i \in 1..Len(canArrived) : BytesPromised(canArrived[i])

\* Frames are handed to one reader each: what the readers hold and what is still
\* queued never adds up to more than arrived, whoever received first.
PlacesOf(f, s) == {i \in 1..Len(s) : s[i] = f}
Handed(f) == UNION {{<<r, i>> : i \in PlacesOf(f, canGot[r])} : r \in CanReaders}
FrameTakenOnce ==
    \A f \in {canArrived[i] : i \in 1..Len(canArrived)} :
        Cardinality(Handed(f)) + Cardinality(PlacesOf(f, canQueue)) <= Cardinality(PlacesOf(f, canArrived))

\* Every recv returns, also on a bus that is silent or whose thread has ended, and
\* however many readers are ahead (recv waits for rx_receiver, slcan.rs:224).
ReceiveReturns ==
    \A r \in CanReaders :
        (\E i \in 1..Len(canTurns) : canTurns[i] = r) ~> (\A i \in 1..Len(canTurns) : canTurns[i] # r)

\* Frames survive the adapter and reach one reader (nodes-io/src/can).
CanSound ==
  /\ EchoIsTheFrame
  /\ DlcIsLength
  /\ FrameTakenOnce
=============================================================================
