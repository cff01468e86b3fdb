----------------------------- MODULE Placement ------------------------------
(***************************************************************************)
(* What the consistent hash ring promises its callers.                     *)
(*                                                                         *)
(* Replication, recovery and the HTTP server only ever ask the ring for    *)
(* the owners of a chunk (primary first), and only ever change it by one   *)
(* node joining or leaving.  The promise that makes repair affordable is   *)
(* minimal disruption: a node that leaves is skipped and everybody else    *)
(* keeps its place in every owner list; a node that joins is slotted in    *)
(* and pushes out at most the last owner.  HashRing implements this.       *)
(***************************************************************************)
EXTENDS Naturals, Sequences, FiniteSets, SequencesExt

CONSTANTS Node,     \* the physical nodes
          Key,      \* the chunk IDs
          Factor    \* owners per chunk (replication.Factor)

VARIABLES nodes,    \* the nodes on the ring
          owners    \* for each key, its owners, primary first

vars == <<nodes, owners>>

Init == /\ nodes = {}
        /\ owners = [k \in Key |-> <<>>]

Without(s, n) == RemoveFirst(s, n)  \* no list has a node twice

(***************************************************************************)
(* The full owner lists: no node twice, nobody off the ring, and Factor    *)
(* long unless the ring itself is smaller.                                 *)
(***************************************************************************)
FullLists(members) ==
    LET size == Cardinality(members)
    IN  Injection(1 .. (IF size < Factor THEN size ELSE Factor), members)

Join(n) ==
    /\ n \notin nodes
    /\ nodes' = nodes \cup {n}
    /\ \A k \in Key :
           owners'[k] \in {s \in FullLists(nodes') :
                              IsPrefix(Without(s, n), owners[k])}

Leave(n) ==
    /\ n \in nodes
    /\ nodes' = nodes \ {n}
    /\ \A k \in Key :
           owners'[k] \in {s \in FullLists(nodes') :
                              IsPrefix(Without(owners[k], n), s)}

Next == \E n \in Node : Join(n) \/ Leave(n)

Spec == Init /\ [][Next]_vars
=============================================================================
