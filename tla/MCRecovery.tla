----------------------------- MODULE MCRecovery -----------------------------
(***************************************************************************)
(* Recovery for TLC: three nodes, two copies, and two chunks.  This node   *)
(* is an owner of c1 from the start and becomes one of c2 when another     *)
(* node dies; peers push c1 here, a client uploads c2.                     *)
(***************************************************************************)
EXTENDS Recovery, TLC

CONSTANTS a, d, c1, c2, h1

MCNode == {self, a, d}
MCRank == (c1 :> (self :> 1 @@ d :> 2 @@ a :> 3)) @@
          (c2 :> (d :> 1 @@ a :> 2 @@ self :> 3))
MCBlob == h1 :> <<c2>>
=============================================================================
