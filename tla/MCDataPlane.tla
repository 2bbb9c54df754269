---------------------------- MODULE MCDataPlane ----------------------------
(***************************************************************************)
(* Small workflow graphs for DataPlane.                                    *)
(*                                                                         *)
(*   fan       client -> a -> {b, c}; with a trigger, it is on a           *)
(*   trigger   trigger on a, client -> a; a -> b                           *)
(*   pull      client -> a, a -> b and a -> p by a Reactive edge into the  *)
(*             Data input of the pure-form node p                          *)
(*                                                                         *)
(* The edges of the graph come first, in the order of its edge list, then  *)
(* one result edge per node, then the ingress edges.                       *)
(***************************************************************************)
EXTENDS DataPlane

CONSTANTS a, b, c, p, t, k1, p2

Caps1 == [x \in Chan |-> 1]
NoOwner == [x \in {} |-> a]

FanSrc == <<a, a, a, b, c, Ingress>>
FanDst == <<b, c, Sink, Sink, Sink, a>>
FanPort == [e \in 1..6 |-> IF e = 2 THEN p2 ELSE NoPort]

FanOwner == [x \in {t} |-> a]

TriggerSrc == <<a, a, b, Ingress>>
TriggerDst == <<b, Sink, Sink, a>>
TriggerPort == [e \in 1..4 |-> NoPort]
TriggerOwner == [x \in {t} |-> a]

PullSrc == <<a, a, a, b, p, Ingress>>
PullDst == <<b, p, Sink, Sink, Sink, a>>
PullPort == [e \in 1..6 |-> IF e = 2 THEN p2 ELSE NoPort]
=============================================================================
