----------------------------- MODULE MCHashRing -----------------------------
(***************************************************************************)
(* HashRing for TLC: three nodes of two points each on a ring of six       *)
(* positions.  Every placement of the points is an initial state (720);    *)
(* the ring is empty, smaller than Factor, equal to it and larger, and     *)
(* with a node off the ring there are keys on a point, between points and  *)
(* past the last point.                                                    *)
(***************************************************************************)
EXTENDS HashRing
=============================================================================
