------------------------------ MODULE MCDevices ------------------------------
(***************************************************************************)
(* The nodes and what they talk to (crates/nodes-io, crates/nodes-flow,    *)
(* the sessions of crates/connections, deployment in crates/graph), side   *)
(* by side: each behaviour picks one part of Parts and runs it alone.      *)
(***************************************************************************)
EXTENDS SharedSession, CanBus, GraphDeploy, CapabilityCall, FlowNodes,
        SerialListener, SignalListener

CONSTANTS Parts, x, y, z, junk

VARIABLE part

MCParts == {"session", "can", "graph", "call", "flow", "serial", "signal"}

-----------------------------------------------------------------------------
\* CanBus: one listener filters on an extended identifier, the other takes all.
MCCanFilterOf == [r1 |-> [id |-> 5, ext |-> TRUE], r2 |-> NoCanFilter]

\* Frames at the limits of the identifier and of the data length.
MCCanSends ==
  LET Frame(id, ext, bytes) == [id |-> id, ext |-> ext, bytes |-> bytes]
  IN  {Frame(5, TRUE, 0), Frame(5, TRUE, 9), Frame(2048, FALSE, 1), Frame(2047, FALSE, 1)}

\* Lines as a peer may send them: complete, too short, with a length code above
\* eight, and a remote frame.
MCCanNoise ==
  LET Line(letter, digit, rest) == [letter |-> letter, id |-> 5, digit |-> digit, rest |-> rest]
  IN  {Line("t", 1, 2), Line("T", 1, 3), Line("t", 9, 2), Line("t", 2, 2), Line("r", 1, 0)}

-----------------------------------------------------------------------------
\* GraphDeploy: a trigger, a node with a Data input, and a pure-form node; up
\* to three edges, among them some that do not fit.
MCInputs ==
  LET Pin(id, kind, needed) == [id |-> id, kind |-> kind, required |-> needed]
  IN  [t |-> {Pin("in", "Exec", FALSE)},
       m |-> {Pin("in", "Exec", TRUE), Pin("x", "Data", FALSE)},
       p |-> {Pin("x", "Data", TRUE)}]
MCOutputs ==
  LET Pin(id, kind) == [id |-> id, kind |-> kind]
  IN  [t |-> {Pin("out", "Exec"), Pin("live", "Reactive")},
       m |-> {Pin("out", "Exec"), Pin("latest", "Data")},
       p |-> {Pin("out", "Data")}]
MCEdges ==
  LET Known(e) == /\ \E q \in MCOutputs[e.from] : q.id = e.fromPin
                  /\ \E q \in MCInputs[e.to] : q.id = e.toPin
      All == [from : {"t", "m", "p"}, fromPin : {"out", "live", "latest"},
              to : {"t", "m", "p"}, toPin : {"in", "x"}]
      Stray == [from |-> "p", fromPin |-> "live", to |-> "m", toPin |-> "x"]
  IN  {e \in All : Known(e)} \cup {Stray}
MCEdgeChoices == {{}} \cup {{a, b, c} : a, b, c \in MCEdges}

-----------------------------------------------------------------------------
\* CapabilityCall: writes of every implementation, with values at the limits of
\* their types, and templates that name arguments, variables and payload fields.
MCCall(impl, template, type, endian, off, len) ==
  [impl |-> impl, template |-> template, payload |-> [n \in {x} |-> <<x>>],
   args |-> [n \in {y} |-> <<5>>], conn |-> "ok", unit |-> 1, reader |-> 1,
   type |-> type, order |-> endian, offset |-> off, length |-> len]
Plain(impl, template) == MCCall(impl, template, "u16", "big", 0, 0)
Orders2 == {"big", "little"}

RegisterCalls ==
  {MCCall("modbus", <<v>>, type, endian, r, 0) :
     v \in {0, 1, 7, 16, 0 - 3, 200}, type \in {"u16", "i16", "bool", "u32", "i32"},
     endian \in Orders2, r \in {0, 1}}
CanCalls ==
  {MCCall("can", <<v>>, type, endian, off, len) :
     v \in {1, 7, 0 - 3, 200}, type \in {"u16", "i32", "bool"}, endian \in Orders2,
     off \in {1, 5}, len \in {1, 2, 4}}
    \cup {MCCall("can", <<v, 3>>, "u16", "big", 0, 0) : v \in {1, 7}}
PdoCalls ==
  {MCCall("pdo", <<v>>, type, endian, off, 2) :
     v \in {7, 9}, type \in {"u16", "u32"}, endian \in Orders2, off \in 0..3}
TextCalls ==
  {Plain("mqtt", <<x, z>>), Plain("serial", <<y, x, x>>), Plain("script", <<z>>)}
    \cup {Plain("modbus", <<n>>) : n \in {x, y, z}}
    \cup {[Plain("modbus", <<z>>) EXCEPT !.conn = c] : c \in {"wrongKind", "incomplete"}}
MCCapCalls == RegisterCalls \cup CanCalls \cup PdoCalls \cup TextCalls
MCCapVariables == [n \in {z} |-> <<junk, y>>]

MCSymbols == {x, y, z, junk} \cup -3..200

\* Two callers on one device: what the first writes may meet what the second does.
Rivals == {k \in RegisterCalls : k.offset = 1 /\ k.template = <<7>> /\ k.order = "big" /\ k.type \in {"u16", "u32"}}
\* The second slave is written, and read by those who are told so.
OtherSlave == {[k EXCEPT !.unit = 2, !.reader = u] : k \in Rivals, u \in {1, 2}}
Meetings ==
  ((RegisterCalls \cup TextCalls \cup OtherSlave) \X Rivals) \cup (TextCalls \X TextCalls)
    \cup ((Rivals \cup OtherSlave) \X OtherSlave)
    \cup (CanCalls \X {k \in CanCalls : k.template = <<7>> /\ k.offset = 1 /\ k.length = 2 /\ k.order = "big"})
    \cup (PdoCalls \X {k \in PdoCalls : k.template = <<9>> /\ k.order = "big"})

-----------------------------------------------------------------------------
\* FlowNodes: every kind of node on every kind of result, and scripts that set,
\* compare-and-set, change the payload, throw or run on.
MCResults ==
  LET R(t, v) == [t |-> t, v |-> v]
  IN  {R("unit", 0), R("bool", TRUE), R("bool", FALSE), R("text", "hi"), R("text", "zz"),
       R("opaque", 0), R("array", <<5, 6>>), R("array", <<5, Spoilt>>), R("array", <<1, 1, 1, 1>>)}
        \cup {R("int", v) : v \in {0, 2, 4, 0 - 1}}
MCScripts ==
  {<<>>, <<"get", "cas">>, <<"get", "set">>, <<"mark", "throw">>, <<"spoil", "throw">>,
   <<"spoil">>, <<"mark", "spin">>, <<"get", "cas", "throw">>}
MCConfig(kind, script, result, default, vars) ==
  [kind |-> kind, script |-> script, result |-> result, branches |-> {"hi", "lo"},
   default |-> default, vars |-> vars]
Unit == [t |-> "unit", v |-> 0]
MCCounters ==
  {MCConfig("code", s, Unit, "else", TRUE) :
     s \in {<<"get", "cas">>, <<"get", "set">>, <<"get", "cas", "get", "cas">>}}
MCFlowConfigs ==
  {MCConfig(k, s, r, "else", TRUE) :
     k \in {"if", "switch", "loop", "tryCatch", "code"}, s \in MCScripts, r \in MCResults}
    \cup {MCConfig("lookup", <<>>, r, d, FALSE) :
            r \in {q \in MCResults : q.t = "text"}, d \in {"else", ""}}
    \cup {MCConfig("switch", <<>>, r, "", TRUE) : r \in MCResults}
    \cup {MCConfig("tryCatch", <<"get">>, Unit, "else", FALSE)} \cup MCCounters

\* The second instance counts, too; the two differ only when both are counters.
CountedPairs ==
  (MCCounters \X MCCounters) \cup (MCFlowConfigs \X {c \in MCCounters : c.script = <<"get", "cas">>})

-----------------------------------------------------------------------------
\* SerialListener: two listeners, delimiters of no, one and two bytes.
Newline == <<92, 110>>  \* the two characters of the escape
MCSerialConfigs ==
  LET Port(mode, bound, kind, complete, delimiter, max) ==
        [mode |-> mode, bound |-> bound, kind |-> kind, complete |-> complete,
         delimiter |-> delimiter, max |-> max]
  IN  {Port(m, TRUE, "serial", TRUE, d, IF d \in {<<>>, Newline} THEN 2 ELSE 3) :
         m \in {"trigger", "event"}, d \in {<<>>, Newline, <<92, 114>> \o Newline, <<10, 10>>}}
        \cup {Port(m, TRUE, "serial", TRUE, d, 3) : m \in {"trigger", "event"}, d \in {<<92, 13>>}}
        \cup {Port(m, b, k, c, Newline, 3) :
                m \in {"trigger", "event"}, b \in BOOLEAN, k \in {"serial", "mqtt"}, c \in BOOLEAN}
MCSerialChunks == {<<1>>, <<13>>, <<10>>, <<1, 10>>, <<13, 10, 1>>, <<10, 10, 10>>}

\* SignalListener: four signals over one payload, good and bad messages.
MCListenConfigs ==
  LET S(key, from, upto, need, scales) ==
        [key |-> key, from |-> from, upto |-> upto, need |-> need, scales |-> scales]
      s1 == S("a", 0, 2, 2, TRUE)   s2 == S("a", 2, 4, 2, FALSE)
      s3 == S("a", 0, 4, 4, TRUE)   s4 == S("b", 0, 1, 2, TRUE)
      Setup(b, sim, ps, fits, ss) ==
        [bound |-> b, simulation |-> sim, protocols |-> ps, fits |-> fits, signals |-> ss]
      all == <<s1, s2, s3, s4>>
  IN  {Setup(TRUE, FALSE, {q}, f, all) : q \in {"mqtt", "subscribe", "can", "modbus"}, f \in BOOLEAN}
        \cup {Setup(FALSE, s, {"can"}, TRUE, all) : s \in BOOLEAN}
        \cup {Setup(TRUE, FALSE, ps, TRUE, all) : ps \in {{}, {"can", "mqtt"}}}
        \cup {Setup(TRUE, FALSE, {"mqtt"}, TRUE, all \o <<s1>>)} \* one topic too many
        \cup {Setup(TRUE, FALSE, {"modbus"}, TRUE, ss) : ss \in {<<s1, s3>>, <<s4, s1>>, <<s1>>}}
MCMessages ==
  [key : {"a", "b"}, len : {2, 4}, good : {TRUE}] \cup [key : {"a"}, len : {4}, good : {FALSE}]

-----------------------------------------------------------------------------
devVars == <<part, sessionVars, canVars, graphVars, capVars, flowVars,
             serialVars, listenVars>>

\* The parts that are not run stand still at one of their initial states.
MCInit ==
  /\ part \in Parts
  /\ part # "session" => protocol = "can"
  /\ part # "graph" => edges = {} /\ queue = <<"m", "p", "t">>
  /\ IF part = "call" THEN \E m \in Meetings : call = [c \in Callers |-> IF c = "k1" THEN m[1] ELSE m[2]]
                      ELSE call = [c \in Callers |-> Plain("modbus", <<x>>)]
  /\ IF part = "flow" THEN \E m \in CountedPairs : config = [n \in FlowNode |-> IF n = "n1" THEN m[1] ELSE m[2]]
                      ELSE config = [n \in FlowNode |-> MCConfig("code", <<"get", "cas">>, Unit, "else", TRUE)]
  /\ part # "serial" => serial = Decoded(CHOOSE s \in SerialConfigs : TRUE)
  /\ part # "signal" => lconf = CHOOSE l \in ListenConfigs : TRUE
  /\ SessionInit /\ CanInit /\ GraphInit /\ CapInit /\ FlowInit /\ SerialInit /\ ListenInit

MCNext ==
  \/ /\ part = "session" /\ SessionNext
     /\ UNCHANGED <<part, canVars, graphVars, capVars, flowVars, serialVars, listenVars>>
  \/ /\ part = "can" /\ CanNext
     /\ UNCHANGED <<part, sessionVars, graphVars, capVars, flowVars, serialVars, listenVars>>
  \/ /\ part = "graph" /\ GraphNext
     /\ UNCHANGED <<part, sessionVars, canVars, capVars, flowVars, serialVars, listenVars>>
  \/ /\ part = "call" /\ CapNext
     /\ UNCHANGED <<part, sessionVars, canVars, graphVars, flowVars, serialVars, listenVars>>
  \/ /\ part = "flow" /\ FlowNext
     /\ UNCHANGED <<part, sessionVars, canVars, graphVars, capVars, serialVars, listenVars>>
  \/ /\ part = "serial" /\ SerialNext
     /\ UNCHANGED <<part, sessionVars, canVars, graphVars, capVars, flowVars, listenVars>>
  \/ /\ part = "signal" /\ ListenNext
     /\ UNCHANGED <<part, sessionVars, canVars, graphVars, capVars, flowVars, serialVars>>

\* tokio runs every task that can go on, its mutexes are first come first served.
\* One part runs in a behaviour, so these parts share one condition.
Progress ==
  \/ part = "graph" /\ DeployStep /\ UNCHANGED <<part, sessionVars, canVars, capVars, flowVars, serialVars, listenVars>>
  \/ part = "call" /\ CapNext /\ UNCHANGED <<part, sessionVars, canVars, graphVars, flowVars, serialVars, listenVars>>
  \/ part = "flow" /\ FlowNext /\ UNCHANGED <<part, sessionVars, canVars, graphVars, capVars, serialVars, listenVars>>
  \/ part = "serial" /\ SerialStep /\ UNCHANGED <<part, sessionVars, canVars, graphVars, capVars, flowVars, listenVars>>
  \/ part = "signal" /\ ListenStep /\ UNCHANGED <<part, sessionVars, canVars, graphVars, capVars, flowVars, serialVars>>

MCFairness ==
  /\ \A u \in SessionUser : /\ SF_sessionVars(part = "session" /\ Ensuring(u))
                            /\ SF_sessionVars(part = "session" /\ Closing(u))
  /\ \A r \in CanReaders : WF_canVars(part = "can" /\ CanReaderStep(r))
  /\ WF_devVars(Progress)

MCSpec == MCInit /\ [][MCNext]_devVars /\ MCFairness
-----------------------------------------------------------------------------
\* Every part comes to its end: waiting for a shared session, a CAN receive, a
\* deployment, a capability call, a script, and each listener once it is
\* cancelled; the properties of the modules, for the behaviours that run them.
DevicesAnswer ==
  /\ part = "session" => EnsureEnds
  /\ part = "can" => ReceiveReturns
  /\ part = "graph" => DeploymentEnds
  /\ part = "call" => CallsEnd
  /\ part = "flow" => ScriptsEnd
  /\ part = "serial" => SerialListenerStops
  /\ part = "signal" => ListenersStop
=============================================================================
