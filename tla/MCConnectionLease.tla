-------------------------- MODULE MCConnectionLease --------------------------
(***************************************************************************)
(* Small pools for ConnectionLease: callers k, pollers p and listeners l   *)
(* on one connection.                                                      *)
(***************************************************************************)
EXTENDS ConnectionLease

CONSTANTS c1, c2, k1, k2, p1, p2, l1, l2

AllOnOne == [u \in User |-> c1]
=============================================================================
