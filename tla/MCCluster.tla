------------------------------ MODULE MCCluster -----------------------------
(***************************************************************************)
(* Cluster for TLC: three nodes, two copies.  The upload is accepted by    *)
(* any of them, so the walk order may be fixed.                            *)
(***************************************************************************)
EXTENDS Cluster, TLC

CONSTANTS n1, n2, n3

MCRank == n1 :> 1 @@ n2 :> 2 @@ n3 :> 3
=============================================================================
