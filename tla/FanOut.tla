------------------------------- MODULE FanOut -------------------------------
(***************************************************************************)
(* What the data plane of a deployed workflow promises, independently of   *)
(* channels, tasks and reference counters.                                 *)
(*                                                                         *)
(* A payload is published once, for a non-empty set of receivers; every    *)
(* receiver settles its claim once, by taking the payload or by giving it  *)
(* up; the payload is held exactly as long as a claim on it is open.       *)
(* (crates/core/src/data.rs: write(payload, consumers), read, release.)    *)
(***************************************************************************)
CONSTANTS
  Data,   \* payload identities
  Edge    \* receivers a payload can be published for

VARIABLES
  claims,  \* pairs <<payload, receiver>> not settled yet
  held     \* the payloads that can be read

fvars == <<claims, held>>

ClaimsOn(C, d) == {r \in C : r[1] = d}

FanOutInit == claims = {} /\ held = {}

\* A new payload is published for some receivers.
Publish(d) ==
  /\ ClaimsOn(claims, d) = {} /\ d \notin held
  /\ ClaimsOn(claims', d) # {}
  /\ held' = held \cup {d}

\* Some receivers settle their claims; the last claim frees the payload.
Settle(d) ==
  /\ d \in held
  /\ ClaimsOn(claims', d) \subseteq ClaimsOn(claims, d)
  /\ ClaimsOn(claims', d) # ClaimsOn(claims, d)
  /\ held' = IF ClaimsOn(claims', d) = {} THEN held \ {d} ELSE held

FanOutNext ==
  /\ claims' \subseteq Data \X Edge
  /\ \E d \in Data :
       /\ Publish(d) \/ Settle(d)
       /\ claims' \ ClaimsOn(claims', d) = claims \ ClaimsOn(claims, d)

FanOutSpec == FanOutInit /\ [][FanOutNext]_fvars
=============================================================================
