------------------------------- MODULE NodeIo -------------------------------
(***************************************************************************)
(* What the I/O nodes do to the health of the connection they use          *)
(* (crates/nodes-io/src): each transform checks its configuration, borrows *)
(* the connection, talks to the peer, marks the guard - or forgets to -    *)
(* and drops it.  The transforms are single actions here: how borrowers    *)
(* get into each other's way is the subject of ConnectionLease and         *)
(* SharedSession; here it is which outcome each way out of a transform     *)
(* leaves behind, and what the circuit breaker makes of a run of them.     *)
(***************************************************************************)
EXTENDS Integers, Sequences

CONSTANTS IoThreshold,   \* circuit_failure_threshold
          IoOpenTime     \* circuit_open_ms, in ticks

ASSUME NodeIoAssumption == {IoThreshold, IoOpenTime} \subseteq Nat \ {0}

\* Every transform is shorter than operation_timeout_ms, and no heartbeat is due.
H == INSTANCE ConnectionHealth
       WITH Threshold <- IoThreshold, OpenTime <- IoOpenTime, OpTimeout <- 0,
            BeatTimeout <- 0, Cooldown <- 1, Base <- 1, DelayMax <- 1

VARIABLES ioHealth,   \* the record of the connection
          ioSession,  \* the protocol of its shared session, or "none"
          ioLast,     \* the transform that ran last
          ioStreak    \* history: faults of the peer met since it last did its part

ioVars == <<ioHealth, ioSession, ioLast, ioStreak>>

\* What the peer does: it answers, answers with an error (an HTTP status of 400
\* or more, a Modbus exception), or cannot be reached.
Peers == {"answers", "rejects", "unreachable"}
PeerFaulty(p) == p # "answers"

\* How a transform ends, and what it marked on its guard.
Ends(result, mark) == [result |-> result, mark |-> mark]

\* The connection may be missing from the configuration.
Wiring == [conn : BOOLEAN, sim : BOOLEAN]

-----------------------------------------------------------------------------
(* Pure parts of the transforms                                            *)

\* resolve_config, prepare_http_request_body and build_http_request: metadata that
\* does not fit the configuration, a body that cannot be rendered and an unknown
\* method leave no request to send.
HttpRequest(config) == CASE config = "incomplete" -> "no URL"
                         [] config = "malformed"  -> "none"
                         [] OTHER                 -> "request"

\* resolve_bark_endpoint: a device key, or a URL whose first path segment is one.
\* An empty key, a URL without a segment and one that ends in /push are refused.
BarkEndpoint(config) == IF config = "incomplete" THEN "none" ELSE "endpoint"

\* build_bark_request_body: a badge that is no integer is an error.
BarkBody(config) == IF config = "malformed" THEN "none" ELSE "body"

\* validate_bark_response: the code inside the answer counts, too.
BarkRefused(peer) == PeerFaulty(peer)

-----------------------------------------------------------------------------
(* transform of each node: the ways out, in the order of the code          *)

NativeTransform(w, config, peer) ==
    Ends("ok", IF w.conn THEN "success" ELSE "none")

\* A transform that does not mark a status of 400 or more.
HttpTransformTakesAnyStatus(w, config, peer) ==
    IF ~w.conn THEN Ends("config error", "none")
    ELSE IF HttpRequest(config) = "no URL" THEN Ends("config error", "failure")
    ELSE IF HttpRequest(config) = "none" THEN Ends("config error", "pending")
    ELSE IF peer = "unreachable" THEN Ends("failed", "failure")
    ELSE IF peer = "rejects" THEN Ends("failed", "pending")
    ELSE Ends("ok", "success")

\* A missing URL is marked as a failure of the connection; a request that cannot
\* be built leaves the guard unmarked.
HttpTransform(w, config, peer) ==
    IF ~w.conn THEN Ends("config error", "none")
    ELSE IF HttpRequest(config) = "no URL" THEN Ends("config error", "failure")
    ELSE IF HttpRequest(config) = "none" THEN Ends("config error", "pending")
    ELSE IF PeerFaulty(peer) THEN Ends("failed", "failure")
    ELSE Ends("ok", "success")

\* An endpoint that does not resolve and a badge that is no number leave the
\* guard unmarked.
BarkTransform(w, config, peer) ==
    IF ~w.conn THEN Ends("config error", "none")
    ELSE IF BarkEndpoint(config) = "none" THEN Ends("config error", "pending")
    ELSE IF BarkBody(config) = "none" THEN Ends("failed", "pending")
    ELSE IF BarkRefused(peer) THEN Ends("failed", "failure")
    ELSE Ends("ok", "success")

\* read_modbus_tcp: a host or port that is missing, a failed connect, a time-out
\* and an exception of the device are all errors.
ReadModbusTcp(config, peer) ==
    IF config = "incomplete" THEN "config error" ELSE IF PeerFaulty(peer) THEN "failed" ELSE "ok"

\* The errors of the read return past the guard, which stays unmarked.
ModbusTransform(w, config, peer) ==
    IF ~w.conn /\ ~w.sim THEN Ends("config error", "none")
    ELSE IF ~w.conn THEN Ends("simulated", "none")
    ELSE LET read == ReadModbusTcp(config, peer)
         IN  Ends(read, IF read = "ok" THEN "success" ELSE "pending")

\* publish_payload: no topic, no ConnAck and a refused publish all leave the
\* guard unmarked.
MqttPublish(w, config, peer) ==
    IF ~w.conn THEN Ends("config error", "none")
    ELSE IF config = "incomplete" THEN Ends("config error", "pending")
    ELSE IF PeerFaulty(peer) THEN Ends("failed", "pending")
    ELSE Ends("ok", "success")

\* A message dispatched by hand: the connection is borrowed for its metadata and
\* given back unmarked.
MqttSubscribed(w, config, peer) == Ends("ok", IF w.conn THEN "pending" ELSE "none")

\* on_deploy of a subscriber marks the connection after looking at its
\* configuration only.
MqttDeploy(w, config, peer) ==
    IF ~w.conn THEN Ends("config error", "none")
    ELSE IF config = "incomplete" THEN Ends("config error", "failure")
    ELSE Ends("ok", "success")

\* The CAN and EtherCAT nodes lend nothing: they share a session of their protocol,
\* opened by the first that needs it, whatever the circuit says. How the look-up can
\* end: the session is there, or that of another protocol, or there is none and the
\* metadata cannot be read, or the bus is opened, or cannot be.
SessionKinds == {"can", "ethercat"}
SessionWays(kind, config) ==
    IF ioSession = kind THEN {"held"}
    ELSE IF ioSession # "none" THEN {"foreign"}
    ELSE IF config = "incomplete" THEN {"unreadable"}
    ELSE {"opened", "unopened"}

\* A bus that cannot be opened, and one that fails, are reported to the manager.
OverSession(way, peer) ==
    IF way \in {"foreign", "unreadable"} THEN Ends("no session", "none")
    ELSE IF way = "unopened" \/ PeerFaulty(peer) THEN Ends("failed", "told")
    ELSE Ends("ok", "none")

\* The identifier is checked first; without a connection a mock bus may serve.
CanTransform(w, config, peer, way) ==
    IF config = "malformed" THEN Ends("config error", "none")
    ELSE IF ~w.conn /\ ~w.sim THEN Ends("config error", "none")
    ELSE IF ~w.conn THEN Ends("simulated", "none")
    ELSE OverSession(way, peer)

\* The EtherCAT nodes cannot be simulated.
PdoTransform(w, config, peer, way) ==
    IF ~w.conn THEN Ends("config error", "none")
    ELSE IF config = "malformed" THEN Ends("config error", "none")
    ELSE OverSession(way, peer)

\* No connection is involved: a path that leaves the workspace is refused.
SqlTransform(w, config, peer) ==
    IF config # "good" THEN Ends("config error", "none")
    ELSE IF PeerFaulty(peer) THEN Ends("failed", "none")
    ELSE Ends("ok", "none")

SessionTransform(kind, w, config, peer, way) ==
    IF kind = "can" THEN CanTransform(w, config, peer, way) ELSE PdoTransform(w, config, peer, way)

Transform(kind, w, config, peer) ==
    CASE kind = "native"         -> NativeTransform(w, config, peer)
      [] kind = "httpClient"     -> HttpTransform(w, config, peer)
      [] kind = "barkPush"       -> BarkTransform(w, config, peer)
      [] kind = "modbusRead"     -> ModbusTransform(w, config, peer)
      [] kind = "mqttPublish"    -> MqttPublish(w, config, peer)
      [] kind = "mqttSubscribed" -> MqttSubscribed(w, config, peer)
      [] kind = "mqttDeploy"     -> MqttDeploy(w, config, peer)
      [] OTHER                   -> SqlTransform(w, config, peer)

\* The nodes that borrow their connection, those among all that talk to the peer
\* of it, and those of them that tell the manager of every fault.
Lending   == {"native", "httpClient", "barkPush", "modbusRead", "mqttPublish", "mqttSubscribed",
              "mqttDeploy"}
NodeKinds == Lending \cup SessionKinds \cup {"sqlWriter"}
Talking   == NodeKinds \ {"native", "mqttSubscribed", "mqttDeploy", "sqlWriter"}
Telling   == Talking \ {"modbusRead", "mqttPublish"}

Configs == {"good", "incomplete", "malformed"}

-----------------------------------------------------------------------------
NoTransform == [conn |-> FALSE, sim |-> FALSE, result |-> "none"]
NoFaults == [kinds |-> {}, faults |-> 0]

\* One more fault, met by a node of this kind.
OneMore(streak, kind) ==
    [kinds |-> streak.kinds \cup {kind}, faults |-> H!Least(streak.faults + 1, IoThreshold)]

IoInit ==
    /\ ioHealth = H!NewRecord /\ ioSession = "none"
    /\ ioLast = NoTransform
    /\ ioStreak = NoFaults

\* What the guard, or a report to the manager, makes of the record.
AfterMark(r, mark) ==
    CASE mark = "none" -> r
      [] mark = "told" -> H!Failed(r, FALSE)
      [] OTHER         -> H!Released(H!Borrowed(r), mark, 0, FALSE)

\* The record as acquire finds it; an open circuit refuses.
Found == H!Reconcile(ioHealth)
CircuitRefuses == H!Running(Found.circuit)

\* A node that borrows runs: if it has a connection it must not be refused. The
\* writer of a database has none.
RunNode(kind) ==
    \E w \in Wiring, config \in Configs, peer \in Peers :
        LET t == Transform(kind, w, config, peer)
            talked == w.conn /\ kind \in Talking /\ config = "good"
        IN  /\ kind \notin SessionKinds /\ (w.conn => kind \in Lending /\ ~CircuitRefuses)
            /\ ioHealth' = IF w.conn THEN AfterMark(Found, t.mark) ELSE ioHealth
            /\ ioLast' = [conn |-> w.conn, sim |-> w.sim, result |-> t.result]
            /\ ioStreak' = IF talked /\ PeerFaulty(peer) THEN OneMore(ioStreak, kind)
                           ELSE IF w.conn THEN NoFaults ELSE ioStreak
            /\ UNCHANGED ioSession

\* The circuit is open: a node that borrows fails at once.
Refused(kind) ==
    /\ CircuitRefuses
    /\ kind \in Lending
    /\ ioHealth' = Found
    /\ ioLast' = [conn |-> TRUE, sim |-> FALSE, result |-> "refused"]
    /\ UNCHANGED <<ioSession, ioStreak>>

\* open_shared_session looks at the record, which brings it up to date, and an open
\* bus is a success: the counter and the circuit are cleared.
Entered(way) == CASE way \in {"held", "foreign"}     -> ioHealth
                  [] way \in {"unreadable", "unopened"} -> Found
                  [] OTHER                            -> H!Succeeded(Found)

\* The session after its use: a fault closes it for everybody.
SessionAfter(kind, way, mark) ==
    IF mark = "told" THEN "none" ELSE IF way = "opened" THEN kind ELSE ioSession

StreakAfter(kind, way, mark) ==
    LET before == IF way = "opened" THEN NoFaults ELSE ioStreak
    IN  IF mark = "told" THEN OneMore(before, kind)
        ELSE IF way \in {"held", "opened"} THEN NoFaults ELSE ioStreak

\* A node runs on the shared session; a configuration that is refused before, and a
\* node without a connection, do not come that far.
RunSession(kind) ==
    \E w \in Wiring, config \in Configs, peer \in Peers : \E way \in SessionWays(kind, config) :
        LET t == SessionTransform(kind, w, config, peer, way)
        IN  /\ ioLast' = [conn |-> w.conn, sim |-> w.sim, result |-> t.result]
            /\ IF w.conn /\ config # "malformed"
               THEN /\ ioHealth' = AfterMark(Entered(way), t.mark)
                    /\ ioSession' = SessionAfter(kind, way, t.mark)
                    /\ ioStreak' = StreakAfter(kind, way, t.mark)
               ELSE UNCHANGED <<ioHealth, ioSession, ioStreak>>

\* on_deploy of the session nodes opens the session before the first message.
DeploySession(kind) ==
    \E config \in Configs \ {"malformed"} : \E way \in SessionWays(kind, config) :
        LET mark == OverSession(way, "answers").mark
        IN  /\ ioHealth' = AfterMark(Entered(way), mark)
            /\ ioSession' = SessionAfter(kind, way, mark)
            /\ ioStreak' = IF way = "held" THEN ioStreak ELSE StreakAfter(kind, way, mark)
            /\ UNCHANGED ioLast

\* The guard of an undeployed node takes the session of the connection, of whatever
\* protocol it is.
UndeploySession ==
    /\ ioSession # "none" /\ ioSession' = "none"
    /\ UNCHANGED <<ioHealth, ioLast, ioStreak>>

IoTick ==
    /\ H!Older(ioHealth) # ioHealth
    /\ ioHealth' = H!Older(ioHealth)
    /\ ioStreak' = NoFaults
    /\ UNCHANGED <<ioSession, ioLast>>

IoNext ==
    \/ IoTick \/ UndeploySession
    \/ \E kind \in NodeKinds : RunNode(kind) \/ Refused(kind)
    \/ \E kind \in SessionKinds : RunSession(kind) \/ DeploySession(kind)

IoSpec == IoInit /\ [][IoNext]_ioVars

-----------------------------------------------------------------------------
\* A result that does not come from a device is only given to a node whose
\* configuration asks for it ("or a forgotten connection would silently yield
\* made-up readings", modbus_read.rs:86).
SimulationIsAsked == ioLast.result = "simulated" => ioLast.sim /\ ~ioLast.conn

\* As many faults of the peer in a row as the threshold says open the circuit, so
\* that the next node that borrows is refused - as long as only nodes met them that
\* mark their guard or report to the manager, and no bus was opened in between: a
\* bus that opens and fails at the first use never isolates its connection
\* (health_ops.rs:35-38, can/session.rs:218).
ToldFaultsOpenCircuit ==
    ioStreak.faults = IoThreshold /\ ioStreak.kinds \subseteq Telling => ioHealth.phase = "CircuitOpen"

\* "A guard assumes that the operation failed unless it is told otherwise"
\* (guard.rs:12): then a run of faults opens the circuit whoever met them.
FaultsOpenCircuit == ioStreak.faults = IoThreshold => ioHealth.phase = "CircuitOpen"

\* The outcome of a transform says what happened, to its caller and to the
\* circuit breaker.
OutcomesSound ==
  /\ SimulationIsAsked
  /\ ToldFaultsOpenCircuit
=============================================================================
