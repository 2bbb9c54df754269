--------------------------- MODULE SignalListener ---------------------------
(***************************************************************************)
(* The listeners of crates/nodes-io that turn what a device sends into      *)
(* events: those of a deviceEventTrigger node on MQTT, CAN and Modbus and   *)
(* the subscription of an mqttClient node.  One listener runs per node,     *)
(* under the token of its life cycle guard.                                 *)
(*                                                                         *)
(* A signal is [key, from, upto, need, scales]: the topic, identifier or    *)
(* register it listens to, the window of a CAN frame, the bytes its type    *)
(* needs and whether its scale expression accepts the value.  A message is  *)
(* [key, len, good]: good says whether a Modbus read gets an answer.        *)
(***************************************************************************)
EXTENDS Integers, Sequences, FiniteSets

CONSTANTS ListenConfigs,  \* [bound, simulation, signals, protocols, fits]
          Messages,       \* what the device may send
          RequestCap,     \* requests an MQTT client takes while nobody polls its loop
          MaxMessages     \* bound on the messages handled

\* The signals of a node are a list.
ASSUME ListenAssumption ==
  RequestCap \in Nat /\ \A c \in ListenConfigs : c.signals \in Seq({c.signals[i] : i \in DOMAIN c.signals})

VARIABLES lconf, lphase, pending, message, handled, events, failedRead, ltold, subscribed, lcancelled
listenVars == <<lconf, lphase, pending, message, handled, events, failedRead, ltold, subscribed, lcancelled>>

NoMessage == [key |-> "none", len |-> 0, good |-> TRUE]
Protocol == CHOOSE p \in lconf.protocols : TRUE

ListenInit ==
  /\ lconf \in ListenConfigs /\ lphase = "new"
  /\ pending = << >> /\ message = NoMessage /\ handled = << >> /\ events = << >>
  /\ failedRead = FALSE /\ ltold = "nothing" /\ subscribed = FALSE /\ lcancelled = FALSE

\* ----------------------------------------------------------------- deploy
\* validate_listener_connection: one protocol, and a connection of its kind.
ListenerFits == lconf.protocols # {} /\ Cardinality(lconf.protocols) = 1 /\ lconf.fits
DeployListener ==
  /\ lphase = "new"
  /\ IF ~lconf.bound THEN lphase' = IF lconf.simulation THEN "noop" ELSE "refused"
     ELSE \/ lphase' = "refused"   \* the connection cannot be borrowed
          \/ lphase' = IF ListenerFits THEN "connect" ELSE "refused"
  /\ UNCHANGED <<lconf, pending, message, handled, events, failedRead, ltold, subscribed, lcancelled>>
CancelListener ==
  /\ lphase \notin {"new", "noop", "refused"} /\ ~lcancelled /\ lcancelled' = TRUE
  /\ UNCHANGED <<lconf, lphase, pending, message, handled, events, failedRead, ltold, subscribed>>
Go(next, report) ==
  /\ lphase' = next /\ ltold' = report
  /\ UNCHANGED <<lconf, pending, message, handled, events, failedRead, lcancelled>>

\* ---------------------------------------------------------------- connect
Topical == Protocol \in {"mqtt", "subscribe"}
\* The wait before another attempt ends with the token.
LeaveUnconnected == (lphase = "wait" \/ (lphase = "connect" /\ Topical)) /\ lcancelled /\ Go("over", ltold) /\ UNCHANGED subscribed
\* The connection cannot be borrowed: nothing is reported.
BorrowFails == lphase = "connect" /\ ~lcancelled /\ Topical /\ Go("wait", ltold) /\ UNCHANGED subscribed
\* No ConnAck, or a cancellation while waiting for it: both are failures.
ConnAckFails == lphase = "connect" /\ Topical /\ Go("wait", "failed") /\ UNCHANGED subscribed
ConnAckComes ==
  /\ lphase = "connect" /\ ~lcancelled /\ Topical
  /\ Go("subscribe", IF Protocol = "subscribe" THEN "connected" ELSE ltold) /\ UNCHANGED subscribed
\* subscribe_all_topics: the first topic that fails ends the attempt.  Each is a
\* request, and nobody polls the event loop that takes the requests, or looks at
\* the token, before the last has been sent.
TopicsFit == Protocol = "mqtt" => Len(lconf.signals) <= RequestCap
SubscribeAllTopics ==
  /\ lphase = "subscribe"
  /\ \/ TopicsFit /\ Go("listen", "connected") /\ subscribed' = TRUE
     \/ ~TopicsFit /\ Go("blocked", ltold) /\ UNCHANGED subscribed
     \/ Go("wait", "failed") /\ UNCHANGED subscribed
\* The CAN listener uses the shared session and never comes back without it.
EnterSession ==
  /\ lphase = "connect" /\ Protocol = "can"
  /\ \/ Go("listen", ltold) /\ UNCHANGED subscribed
     \/ Go("over", ltold) /\ UNCHANGED subscribed
EnterPolling == lphase = "connect" /\ Protocol = "modbus" /\ Go("listen", ltold) /\ UNCHANGED subscribed
RetryWaitEnds == lphase = "wait" /\ ~lcancelled /\ Go("connect", ltold) /\ UNCHANGED subscribed

\* ---------------------------------------------------------------- messages
Matches(sig, m) ==
  CASE Protocol = "modbus" -> TRUE
    [] Protocol = "subscribe" -> TRUE
    [] OTHER -> sig.key = m.key
BytesSuffice(sig, len) == sig.need <= len
\* Whether the signal gets a value out of the message.
Decodes(sig, m) ==
  CASE Protocol = "can" -> sig.upto <= m.len /\ BytesSuffice(sig, sig.upto - sig.from) /\ sig.scales
    [] Protocol = "modbus" -> m.good /\ sig.scales
    [] Protocol = "mqtt" -> sig.scales
    [] OTHER -> TRUE
\* The elements of s at the places good, in their order.
Chosen(s, good) ==
  LET upto[k \in 0..Len(s)] ==
        IF k = 0 THEN << >> ELSE IF k \in good THEN Append(upto[k - 1], s[k]) ELSE upto[k - 1]
  IN  upto[Len(s)]
Matched(m) ==
  IF Protocol = "subscribe" THEN << [key |-> m.key] >>
  ELSE Chosen(lconf.signals, {i \in 1..Len(lconf.signals) : Matches(lconf.signals[i], m)})

Receives(m) ==
  /\ lphase = "listen" /\ ~lcancelled /\ Len(handled) < MaxMessages /\ Protocol # "modbus"
  /\ lphase' = "process" /\ pending' = Matched(m) /\ message' = m
  /\ UNCHANGED <<lconf, handled, events, failedRead, ltold, subscribed, lcancelled>>
\* A tick of the poll: the connection is borrowed for the whole round.
PollTick ==
  /\ lphase = "listen" /\ ~lcancelled /\ Protocol = "modbus" /\ Len(handled) < MaxMessages
  /\ \/ Go("wait", "failed") /\ UNCHANGED subscribed
     \/ Go("borrowed", ltold) /\ UNCHANGED subscribed
PollBegins ==
  /\ lphase = "borrowed" /\ ~lcancelled
  /\ lphase' = "process" /\ pending' = lconf.signals /\ failedRead' = FALSE
  /\ UNCHANGED <<lconf, message, handled, events, ltold, subscribed, lcancelled>>
PollCancelled == lphase = "borrowed" /\ lcancelled /\ Go("listen", "success") /\ UNCHANGED subscribed
Emitted(m) == Append(events, [of |-> Head(pending), message |-> m])
\* One signal after the other; one that cannot be decoded is skipped.
ProcessSignal(m) ==
  /\ events' = IF Decodes(Head(pending), m) THEN Emitted(m) ELSE events
  /\ pending' = Tail(pending)
EmitNext ==
  /\ lphase = "process" /\ pending # << >> /\ Protocol # "modbus"
  /\ ProcessSignal(message)
  /\ UNCHANGED <<lconf, lphase, message, handled, failedRead, ltold, subscribed, lcancelled>>

\* Mutant: only the last signal decides whether a read failed.
ReadFailedLast(m) == ~Decodes(Head(pending), m)

\* any_error of the round.
ReadFailed(m) == failedRead \/ ~Decodes(Head(pending), m)
\* Each register is read over a connection of its own, whatever the others did.
PollRegister(m) ==
  /\ lphase = "process" /\ pending # << >> /\ Protocol = "modbus"
  /\ ProcessSignal(m) /\ handled' = Append(handled, [of |-> Head(pending), message |-> m])
  /\ failedRead' = ReadFailed(m)
  /\ UNCHANGED <<lconf, lphase, message, ltold, subscribed, lcancelled>>
MessageDone ==
  /\ lphase = "process" /\ pending = << >> /\ Protocol # "modbus"
  /\ handled' = Append(handled, message) /\ message' = NoMessage /\ lphase' = "listen"
  /\ UNCHANGED <<lconf, pending, events, failedRead, ltold, subscribed, lcancelled>>
PollDone ==
  /\ lphase = "process" /\ pending = << >> /\ Protocol = "modbus"
  /\ lphase' = IF failedRead THEN "wait" ELSE "listen"
  /\ ltold' = IF failedRead THEN "failed" ELSE "success"
  /\ UNCHANGED <<lconf, pending, message, handled, events, failedRead, subscribed, lcancelled>>
\* The stream breaks: MQTT connects again, the CAN listener gives up.
StreamFails ==
  /\ lphase = "listen" /\ Topical /\ ~lcancelled /\ Go("wait", "failed") /\ subscribed' = FALSE
SessionFails ==
  /\ lphase = "listen" /\ Protocol = "can" /\ ~lcancelled /\ Go("over", "failed") /\ UNCHANGED subscribed
StopListening ==
  /\ lphase = "listen" /\ lcancelled
  /\ Go("over", IF Topical THEN "stopped" ELSE ltold) /\ UNCHANGED subscribed

ListenStep ==
  \/ DeployListener \/ LeaveUnconnected \/ BorrowFails \/ ConnAckFails \/ ConnAckComes \/ SubscribeAllTopics
  \/ EnterSession \/ EnterPolling \/ RetryWaitEnds \/ (\E m \in Messages : Receives(m)) \/ PollTick
  \/ PollBegins \/ PollCancelled \/ EmitNext \/ (\E m \in Messages : PollRegister(m)) \/ MessageDone \/ PollDone
  \/ StreamFails \/ SessionFails \/ StopListening
ListenNext == ListenStep \/ CancelListener
ListenSpec == ListenInit /\ [][ListenNext]_listenVars
-----------------------------------------------------------------------------
\* What a sequence of signals, each with the message it is read from, gives.
Values(reads) == Chosen(reads, {i \in 1..Len(reads) : Decodes(reads[i].of, reads[i].message)})
Reads(signals, m) == [i \in 1..Len(signals) |-> [of |-> signals[i], message |-> m]]
EventsOf(m) == Values(Reads(Matched(m), m))
Expected ==
  LET upto[k \in 0..Len(handled)] == IF k = 0 THEN << >> ELSE upto[k - 1] \o EventsOf(handled[k])
  IN  IF Protocol = "modbus" THEN Values(handled) ELSE upto[Len(handled)]

\* Between two messages the events are, in order, those of every signal that
\* matches and can be decoded: a signal that cannot holds up no other
\* (mqtt_loop.rs:236, can_loop.rs:100, modbus_loop.rs:90).
EventsAreTheSignals == lphase \notin {"new", "noop", "refused", "process"} => events = Expected

\* A round of the poll is reported as a failure if and only if one of its
\* registers failed: a whole round's reads, not the last one, decide
\* (modbus_loop.rs:157).
RoundVerdict ==
  (lphase = "process" /\ pending = << >> /\ Protocol = "modbus") =>
    LET n == Len(lconf.signals)
    IN  failedRead <=> \E i \in (Len(handled) - n + 1)..Len(handled) : ~Decodes(handled[i].of, handled[i].message)

\* An MQTT listener waits for messages on a connection that counts as good only
\* after it has subscribed on this connection, also after the stream has broken
\* and come back (mqtt_loop.rs:59-91, subscribe.rs:66-76).
ConnectedMeansSubscribed ==
  (lphase \in {"listen", "process"} /\ Protocol \in {"mqtt", "subscribe"} /\ ltold = "connected") => subscribed

\* A cancelled listener ends, whatever it waits for, unless its topics are more
\* than the client takes at once: then it may wait for the room it would have to
\* make itself, and hears no token (mqtt_loop.rs:42, 269-282).
ListenersStop == lcancelled ~> lphase = "over" \/ (lphase = "blocked" /\ ~TopicsFit)

\* Events and connection health say what the listeners saw
\* (device_event_trigger).
SignalSound ==
  /\ EventsAreTheSignals
  /\ RoundVerdict
  /\ ConnectedMeansSubscribed
=============================================================================
