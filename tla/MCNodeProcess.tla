--------------------------- MODULE MCNodeProcess ----------------------------
(***************************************************************************)
(* NodeProcess for TLC: three nodes, two copies, a client that uploads a   *)
(* chunk this node does not own, a peer that pushes one it does own, and   *)
(* one death, whose repair competes with the upload for a queue of one.    *)
(***************************************************************************)
EXTENDS NodeProcess, TLC

CONSTANTS a, d, c1, c2, h1

MCNode == {self, a, d}
MCRank == (c1 :> (self :> 1 @@ d :> 2 @@ a :> 3)) @@
          (c2 :> (d :> 1 @@ a :> 2 @@ self :> 3))
MCBlob == h1 :> <<c2>>
=============================================================================
