--------------------------- MODULE CapabilityCall ---------------------------
(***************************************************************************)
(* The capabilityCall node (crates/nodes-io/src/capability_call) together   *)
(* with the codec that reads its values back (signal_decode/decode.rs,      *)
(* device_signal_read): a call resolves the ${name} places of its template, *)
(* encodes the value for the protocol, and writes registers, a CAN frame or *)
(* a window of the EtherCAT output image.  Several callers share the device.*)
(*                                                                         *)
(* A byte is a digit below Base (256 in the code), a text a sequence of     *)
(* names (places to fill) and literals; a text of one number parses as that *)
(* number.                                                                 *)
(***************************************************************************)
EXTENDS Integers, Sequences
Seqs == INSTANCE SequencesExt
Sets == INSTANCE FiniteSetsExt

CONSTANTS Base,           \* values of a byte
          Callers,        \* capabilityCall nodes
          Symbols,        \* what texts consist of: names and literals
          Names,          \* names a template may hold
          CapCalls,       \* the calls: templates, payloads, implementations
          CapVariables,   \* the WorkflowVariables: texts by name
          Units,          \* the slaves behind one Modbus address
          Registers,      \* the holding registers of each
          ImageSize       \* bytes of the output image of the slave

NoCaller == "nobody"
Types == {"u16", "i16", "bool", "u32", "i32", "float64"}
Width(type) == CASE type \in {"u16", "i16", "bool"} -> 2 [] type \in {"u32", "i32"} -> 4 [] type = "float64" -> 8

ASSUME CapAssumption ==
  /\ Base \in Nat /\ Base > 1 /\ ImageSize \in Nat /\ NoCaller \notin Callers /\ Names \subseteq Symbols
  /\ \A n \in DOMAIN CapVariables : CapVariables[n] \in Seq(Symbols)
  /\ \A k \in CapCalls :
       /\ k.unit \in Units /\ k.reader \in Units
       /\ k.template \in Seq(Symbols) /\ k.type \in Types /\ k.offset \in Nat /\ k.length \in Nat
       /\ \A n \in DOMAIN k.payload : k.payload[n] \in Seq(Symbols)
       /\ \A n \in DOMAIN k.args : k.args[n] \in Seq(Symbols)
       /\ k.impl = "modbus" => \A i \in 1..(Width(k.type) \div 2) : k.offset + i - 1 \in Registers

VARIABLES call, capStage, text, at, lentTo, busHolder, seen, regs, frame, image, wire, capMark, capResult
capVars == <<call, capStage, text, at, lentTo, busHolder, seen, regs, frame, image, wire, capMark, capResult>>

Bad == << >>
\* -------------------------------------------------------------- the codec
LittleEndian(order) == order = "little"
\* n bytes tell Power[n] values apart; their high byte comes first.
Power[n \in 0..8] == IF n = 0 THEN 1 ELSE Base * Power[n - 1]
Bytes(v, n) == [i \in 1..n |-> (v \div Power[n - i]) % Base]
Unsigned(bytes) ==
  LET upto[i \in 0..Len(bytes)] == IF i = 0 THEN 0 ELSE upto[i - 1] * Base + bytes[i]
  IN  upto[Len(bytes)]

\* parse::<T>() of the resolved text, by the range of the type.
Parses(t, type) ==
  /\ Len(t) = 1 /\ t[1] \in Int
  /\ LET half == Power[Width(type)] \div 2
     IN  CASE type = "bool" -> t[1] \in {0, 1}
           [] type \in {"i16", "i32"} -> t[1] \in (0 - half)..(half - 1)
           [] OTHER -> t[1] \in 0..(2 * half - 1)

\* encode_value_to_bytes: a bool is one byte, everything else as wide as its type.
EncodeValueToBytes(t, type, order) ==
  LET big == Bytes(t[1], IF type = "bool" THEN 1 ELSE Width(type))
  IN  IF ~Parses(t, type) THEN Bad ELSE IF LittleEndian(order) THEN Seqs!Reverse(big) ELSE big
\* encode_modbus_words: words of two bytes, the high word first unless little;
\* bit and scale are accepted and have no effect.
EncodeModbusWords(t, type, order) ==
  LET big == Bytes(t[1], Width(type))
      words == [i \in 1..(Width(type) \div 2) |-> Unsigned(SubSeq(big, 2 * i - 1, 2 * i))]
  IN  IF ~Parses(t, type) THEN Bad ELSE IF LittleEndian(order) THEN Seqs!Reverse(words) ELSE words
\* encode_can_frame_data: the last `length` bytes of the encoding at `offset` of
\* eight; without a length the text is the data itself.
EncodeCanFrameData(t, k) ==
  LET encoded == EncodeValueToBytes(t, k.type, k.order)
      kept == SubSeq(encoded, Sets!Max({0, Len(encoded) - k.length}) + 1, Len(encoded))
  IN  IF k.length = 0 THEN IF \A i \in 1..Len(t) : t[i] \in 0..(Base - 1) THEN t ELSE Bad
      ELSE IF k.offset + k.length > 8 \/ Len(kept) # k.length THEN Bad
      ELSE [i \in 1..8 |-> IF i - k.offset \in 1..k.length THEN kept[i - k.offset] ELSE 0]

\* decode_raw_bytes: a number, or Bad when the bytes are too few or the bit is
\* not of the word; a bit may be asked of the 16-bit types only.
CapabilityDecode(raw, type, order, bit) ==
  LET n == Width(type)
      head == SubSeq(raw, 1, n)
      v == Unsigned(IF LittleEndian(order) THEN Seqs!Reverse(head) ELSE head)
      width == CHOOSE w \in 1..16 : 2^w = Power[2]
  IN  IF Len(raw) < n \/ (bit >= 0 /\ (n # 2 \/ bit >= width)) THEN Bad
      ELSE IF bit >= 0 THEN <<(v \div 2^bit) % 2>>
      ELSE CASE type = "bool" -> <<IF v # 0 THEN 1 ELSE 0>>
             [] type \in {"i16", "i32"} -> <<IF 2 * v >= Power[n] THEN v - Power[n] ELSE v>>
             [] OTHER -> <<v>>
\* read_register: the words of the type in a slave, high byte first, always
\* big-endian.  The slave is "unit" of the connection, 1 when it says none.
ReadBack(unit, register, type, bit) ==
  CapabilityDecode(Seqs!FlattenSeq([i \in 1..(Width(type) \div 2) |-> Bytes(regs[unit][register + i - 1], 2)]), type, "big", bit)
\* read_can_frame and process_can_frame: the window of the frame.
ReadCanFrame(data, k) ==
  IF k.offset + k.length > Len(data) THEN Bad
  ELSE CapabilityDecode(SubSeq(data, k.offset + 1, k.offset + k.length), k.type, k.order, -1)
\* ------------------------------------------------------------ the templates
PlaceValue(c, name) ==
  IF name \in DOMAIN call[c].payload THEN call[c].payload[name]
  ELSE IF name \in DOMAIN CapVariables THEN CapVariables[name]
  ELSE IF name \in DOMAIN call[c].args THEN call[c].args[name]
  ELSE <<name>>

\* resolve_template: the next place is replaced, and the search goes on behind
\* what was put there.
Places(c) == {i \in (at[c] + 1)..Len(text[c]) : text[c][i] \in Names}

\* Mutant: what was put in is searched for placeholders again.
ReplaceNextAgain(c) ==
  LET i == Sets!Min(Places(c))
  IN  /\ text' = [text EXCEPT ![c] = SubSeq(@, 1, i - 1) \o PlaceValue(c, @[i]) \o SubSeq(@, i + 1, Len(@))]
      /\ UNCHANGED at

ReplaceNext(c) ==
  LET i == Sets!Min(Places(c))
      value == PlaceValue(c, text[c][i])
  IN  /\ text' = [text EXCEPT ![c] = SubSeq(@, 1, i - 1) \o value \o SubSeq(@, i + 1, Len(@))]
      /\ at' = [at EXCEPT ![c] = i - 1 + Len(value)]

CapInit ==
  /\ call \in [Callers -> CapCalls]
  /\ capStage = [c \in Callers |-> "resolve"]
  /\ text = [c \in Callers |-> call[c].template] /\ at = [c \in Callers |-> 0]
  /\ lentTo = NoCaller /\ busHolder = NoCaller
  /\ seen = [c \in Callers |-> Bad]
  /\ regs = [u \in Units |-> [r \in Registers |-> 0]] /\ frame = Bad /\ image = [i \in 1..ImageSize |-> 0] /\ wire = Bad
  /\ capMark = [c \in Callers |-> "none"] /\ capResult = [c \in Callers |-> "none"]

Device == <<regs, frame, image, wire>>
Finish(c, result, mark) ==
  /\ capStage' = [capStage EXCEPT ![c] = "done"]
  /\ capResult' = [capResult EXCEPT ![c] = result]
  /\ capMark' = [capMark EXCEPT ![c] = mark]
  /\ lentTo' = IF lentTo = c THEN NoCaller ELSE lentTo
  /\ busHolder' = IF busHolder = c THEN NoCaller ELSE busHolder
  /\ UNCHANGED <<call, text, at, seen>>

Resolve(c) ==
  /\ capStage[c] = "resolve" /\ Places(c) # {} /\ ReplaceNext(c)
  /\ UNCHANGED <<call, capStage, lentTo, busHolder, seen, Device, capMark, capResult>>
\* The match over the implementation; a script has no executor.
Execute(c) ==
  /\ capStage[c] = "resolve" /\ Places(c) = {}
  /\ IF call[c].impl = "script" THEN Finish(c, "failed", "none") /\ UNCHANGED Device
     ELSE /\ capStage' = [capStage EXCEPT ![c] = "execute"]
          /\ UNCHANGED <<call, text, at, lentTo, busHolder, seen, Device, capMark, capResult>>

Borrows(c) == call[c].impl \in {"modbus", "mqtt", "serial"}
\* acquire_for_protocol, then the metadata the protocol requires: host, port and
\* "unit_id" for Modbus.
AcquireForProtocol(c) ==
  /\ capStage[c] = "execute" /\ Borrows(c) /\ UNCHANGED Device
  /\ CASE lentTo # NoCaller -> Finish(c, "failed", "none")
       [] lentTo = NoCaller /\ call[c].conn = "wrongKind" -> Finish(c, "failed", "failure")
       [] lentTo = NoCaller /\ call[c].conn = "incomplete" -> Finish(c, "failed", "none")
       [] OTHER -> /\ lentTo' = c /\ capStage' = [capStage EXCEPT ![c] = "send"]
                   /\ UNCHANGED <<call, text, at, busHolder, seen, capMark, capResult>>

\* execute_modbus_write, to the slave "unit_id" of the connection: a value that
\* cannot be encoded leaves the guard unmarked; a write that fails may have
\* reached the device.
Written(words, k) ==
  [u \in Units |->
     IF u # k.unit THEN regs[u]
     ELSE [r \in Registers |->
             IF r - k.offset + 1 \in 1..Len(words) THEN words[r - k.offset + 1] ELSE regs[u][r]]]
ModbusWrite(c) ==
  LET words == EncodeModbusWords(text[c], call[c].type, call[c].order)
  IN  /\ capStage[c] = "send" /\ call[c].impl = "modbus" /\ UNCHANGED <<frame, image, wire>>
      /\ IF words = Bad THEN Finish(c, "failed", "none") /\ UNCHANGED regs
         ELSE \/ Finish(c, "failed", "failure") /\ UNCHANGED regs
              \/ Finish(c, "failed", "failure") /\ regs' = Written(words, call[c])
              \/ Finish(c, "ok", "success") /\ regs' = Written(words, call[c])

\* execute_mqtt_publish: the text goes out as it is; the result of the last poll
\* is ignored, so a publication that never left the client is a success.
PublishText(c) ==
  /\ capStage[c] = "send" /\ call[c].impl = "mqtt" /\ UNCHANGED <<regs, frame, image>>
  /\ \/ Finish(c, "failed", "failure") /\ UNCHANGED wire
     \/ Finish(c, "ok", "success") /\ wire' \in {wire, text[c]}
\* execute_serial_command: open, write, flush on a blocking thread.
SendCommand(c) ==
  /\ capStage[c] = "send" /\ call[c].impl = "serial" /\ UNCHANGED <<regs, frame, image>>
  /\ \/ Finish(c, "failed", "failure") /\ wire' \in {wire, text[c]}
     \/ Finish(c, "ok", "success") /\ wire' = text[c]

\* execute_can_write: no lease, the shared session sends one frame.
CanWrite(c) ==
  LET data == EncodeCanFrameData(text[c], call[c])
  IN  /\ capStage[c] = "execute" /\ call[c].impl = "can" /\ UNCHANGED <<regs, image, wire>>
      /\ IF data = Bad THEN Finish(c, "failed", "none") /\ UNCHANGED frame
         ELSE \/ Finish(c, "failed", "failure") /\ UNCHANGED frame
              \/ Finish(c, "ok", "none") /\ frame' = data

\* Mutant: the image is read before the lock is taken.
PdoReadUnlocked(c) ==
  /\ capStage[c] = "execute" /\ call[c].impl = "pdo" /\ UNCHANGED Device
  /\ IF EncodeValueToBytes(text[c], call[c].type, call[c].order) = Bad THEN Finish(c, "failed", "none")
     ELSE /\ seen' = [seen EXCEPT ![c] = image]
          /\ capStage' = [capStage EXCEPT ![c] = "write"]
          /\ UNCHANGED <<call, text, at, lentTo, busHolder, capMark, capResult>>

\* execute_ethercat_pdo_write: encode, lock the bus, read the outputs of the
\* slave, put the value in, write them back.
PdoRead(c) ==
  /\ capStage[c] = "execute" /\ call[c].impl = "pdo" /\ UNCHANGED Device
  /\ IF EncodeValueToBytes(text[c], call[c].type, call[c].order) = Bad THEN Finish(c, "failed", "none")
     ELSE /\ busHolder = NoCaller
          /\ \/ Finish(c, "failed", "none")
             \/ /\ busHolder' = c /\ seen' = [seen EXCEPT ![c] = image]
                /\ capStage' = [capStage EXCEPT ![c] = "write"]
                /\ UNCHANGED <<call, text, at, lentTo, capMark, capResult>>
PdoBytes(c) ==
  LET encoded == EncodeValueToBytes(text[c], call[c].type, call[c].order)
  IN  SubSeq(encoded, 1, Sets!Min({call[c].length, Len(encoded)}))
PdoWrite(c) ==
  LET bytes == PdoBytes(c)
  IN  /\ capStage[c] = "write" /\ UNCHANGED <<regs, frame, wire>>
      /\ IF call[c].offset + call[c].length > Len(seen[c]) THEN Finish(c, "failed", "none") /\ UNCHANGED image
         ELSE \/ Finish(c, "failed", "none") /\ UNCHANGED image
              \/ /\ Finish(c, "ok", "none")
                 /\ image' = [i \in 1..ImageSize |-> IF i - call[c].offset \in 1..Len(bytes) THEN bytes[i - call[c].offset] ELSE seen[c][i]]

CapStep(c) ==
  Resolve(c) \/ Execute(c) \/ AcquireForProtocol(c) \/ ModbusWrite(c) \/ PublishText(c) \/ SendCommand(c)
  \/ CanWrite(c) \/ PdoRead(c) \/ PdoWrite(c)
CapNext == \E c \in Callers : CapStep(c)
CapSpec == CapInit /\ [][CapNext]_capVars
-----------------------------------------------------------------------------
Sent(c, impl) == capResult[c] = "ok" /\ call[c].impl = impl

\* What goes out is the template with every place replaced once, in the order
\* payload, variables, args: what a value itself contains is never replaced
\* (capability_call.rs:128-146).
PlacesReplacedOnce ==
  \A c \in Callers : capStage[c] # "resolve" =>
    text[c] = Seqs!FlattenSeq([i \in 1..Len(call[c].template) |->
                 IF call[c].template[i] \in Names THEN PlaceValue(c, call[c].template[i]) ELSE <<call[c].template[i]>>])

\* A register written with success reads back as the same value through the
\* signal declaration of the same type, as long as nobody else has finished a
\* write and the words are high word first (the reader knows no other order:
\* reader_modbus.rs:24-29); but only if the connection names the slave for the
\* readers, too: they take "unit" (reader_modbus.rs:67-71) where the writer takes
\* "unit_id" (executor.rs:49), and read what another slave has held all along.
ReadsBackWritten ==
  \A c \in Callers :
    (/\ Sent(c, "modbus") /\ (Width(call[c].type) = 2 \/ ~LittleEndian(call[c].order))
     /\ \A d \in Callers \ {c} : call[d].impl = "modbus" => capStage[d] # "done")
    => IF call[c].reader = call[c].unit
       THEN ReadBack(call[c].reader, call[c].offset, call[c].type, -1) = text[c]
       ELSE \A r \in Registers : regs[call[c].reader][r] = 0

\* A frame sent over a window as wide as its type decodes to the value, in
\* either byte order, and the rest of the frame is zero (executor.rs:798-850).
FrameCarriesValue ==
  \A c \in Callers :
    (/\ Sent(c, "can") /\ call[c].length = Width(call[c].type)
     /\ \A d \in Callers \ {c} : call[d].impl = "can" => capStage[d] # "done")
    => /\ ReadCanFrame(frame, call[c]) = text[c]
       /\ \A i \in 1..8 : i - call[c].offset \in 1..call[c].length \/ frame[i] = 0

\* Two calls that write different windows of the output image of one slave both
\* take effect, and no other byte changes: the image is read and written back
\* under the lock of the bus (executor.rs:535-570).
PdoWindow(c) == {call[c].offset + i : i \in 1..Len(PdoBytes(c))}
WindowsSurvive ==
  /\ \A c \in Callers :
       (Sent(c, "pdo") /\ \A d \in Callers \ {c} : Sent(d, "pdo") => PdoWindow(c) \cap PdoWindow(d) = {})
       => \A i \in 1..Len(PdoBytes(c)) : image[call[c].offset + i] = PdoBytes(c)[i]
  /\ \A i \in 1..ImageSize : image[i] # 0 => \E c \in Callers : Sent(c, "pdo") /\ i \in PdoWindow(c)

\* Every call ends, even when a value contains the name of its own place.
CallsEnd == \A c \in Callers : <>(capStage[c] = "done")

\* What a capability call puts on the wire is the value asked for
\* (nodes-io/src/capability_call).
CallsSound ==
  /\ PlacesReplacedOnce
  /\ ReadsBackWritten
  /\ FrameCarriesValue
  /\ WindowsSurvive
=============================================================================
