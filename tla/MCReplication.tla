--------------------------- MODULE MCReplication ----------------------------
(***************************************************************************)
(* Replication for TLC: three nodes, two copies, and two chunks with       *)
(* different walks, so that self is a target of one and not of the other   *)
(* as long as the ring is whole.                                           *)
(***************************************************************************)
EXTENDS Replication, TLC

CONSTANTS a, b, c1, c2

MCNode == {self, a, b}
MCRank == (c1 :> (self :> 1 @@ a :> 2 @@ b :> 3)) @@
          (c2 :> (b :> 1 @@ a :> 2 @@ self :> 3))
=============================================================================
