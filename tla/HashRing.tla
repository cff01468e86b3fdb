------------------------------ MODULE HashRing ------------------------------
(***************************************************************************)
(* The consistent hash ring (internal/hashring/hashring.go).               *)
(*                                                                         *)
(* The ring is kept three times over: a sorted slice of positions, a map   *)
(* from position to node, and the set of nodes.  AddNode and RemoveNode    *)
(* hold the write lock throughout and GetN the read lock, so each is one   *)
(* step here.                                                              *)
(*                                                                         *)
(* SHA-1 is abstracted to vhash, a placement of the virtual points chosen  *)
(* once, in Init, from ALL injective placements; a key stands for the      *)
(* position it hashes to.  Two virtual points never share a position: with *)
(* 64-bit positions a collision is left out, by ChoosePoints and nowhere   *)
(* else.                                                                   *)
(***************************************************************************)
EXTENDS Naturals, Integers, Sequences, FiniteSets, FiniteSetsExt,
        SequencesExt, Functions, Preference

CONSTANTS Node,                 \* physical node IDs
          NoNode,               \* the empty string a map lookup yields
          VirtualNodesPerNode,  \* points per node (150 in the code)
          RingSize,             \* number of positions (2^64 in the code)
          Factor                \* replication.Factor

ASSUME HashRingAssumption ==
    /\ IsFiniteSet(Node) /\ NoNode \notin Node
    /\ VirtualNodesPerNode \in Nat \ {0}
    /\ RingSize \in Nat \ {0}
    /\ Factor \in Nat \ {0}

Position == 0 .. RingSize - 1
Replica == 0 .. VirtualNodesPerNode - 1

VARIABLES vhash,         \* hashKey("node#i") for every node and i
          sortedHashes,  \* ring positions, ascending
          hashToNode,    \* position -> node, NoNode where the map is empty
          nodes          \* the physical nodes on the ring

vars == <<vhash, sortedHashes, hashToNode, nodes>>

(***************************************************************************)
(* Every placement of the virtual points that has no collision.            *)
(***************************************************************************)
ChoosePoints == Injection(Node \X Replica, Position)

PointsOf(n) == {vhash[<<n, i>>] : i \in Replica}

(***************************************************************************)
(* The slice and the map hold ring positions and known nodes, and every    *)
(* position of the slice is a key of the map: the lookup in the loop of    *)
(* GetN never yields the empty string, whatever AddNode and RemoveNode did *)
(* before.                                                                 *)
(***************************************************************************)
TypeOK == /\ vhash \in [Node \X Replica -> Position]
          /\ sortedHashes \in Seq(Position)
          /\ hashToNode \in [Position -> Node \cup {NoNode}]
          /\ nodes \subseteq Node
          /\ \A i \in DOMAIN sortedHashes : hashToNode[sortedHashes[i]] \in Node

New == /\ sortedHashes = <<>>
       /\ hashToNode = [h \in Position |-> NoNode]
       /\ nodes = {}

Init == vhash \in ChoosePoints /\ New

----------------------------------------------------------------------------
(***************************************************************************)
(* The entries of s at the indices DOMAIN ahead, one after the other, each *)
(* at the place that the number of indices ahead of it gives.  Sorting and *)
(* filtering a slice are both of this form.  (SortSeq and SelectSeq would  *)
(* do, but for the provers these have no definition.)                      *)
(***************************************************************************)
Arrange(s, ahead) ==
    [k \in 1 .. Cardinality(DOMAIN ahead) |->
         s[CHOOSE i \in DOMAIN ahead : Cardinality(ahead[i]) = k - 1]]

(***************************************************************************)
(* Adding a node that is present returns at once, removing one that is     *)
(* absent too: both are stuttering steps.                                  *)
(***************************************************************************)
FaultySortedAppend(s, t) == s \o t  \* the sort forgotten

SortedAppend(s, t) ==
    LET all == s \o t
    IN  Arrange(all, [i \in DOMAIN all |->
                          {j \in DOMAIN all : \/ all[j] < all[i]
                                             \/ (all[j] = all[i] /\ j < i)}])

FaultyAddNode(n) ==  \* the map is written after the loop: the last point only
    /\ n \notin nodes
    /\ nodes' = nodes \cup {n}
    /\ hashToNode' = [hashToNode EXCEPT ![vhash[<<n, VirtualNodesPerNode - 1>>]] = n]
    /\ sortedHashes' = SortedAppend(sortedHashes,
                           [i \in 1 .. VirtualNodesPerNode |-> vhash[<<n, i - 1>>]])
    /\ UNCHANGED vhash

AddNode(n) ==
    /\ n \notin nodes
    /\ nodes' = nodes \cup {n}
    /\ hashToNode' = [h \in Position |-> IF h \in PointsOf(n) THEN n
                                         ELSE hashToNode[h]]
    /\ sortedHashes' = SortedAppend(sortedHashes,
                           [i \in 1 .. VirtualNodesPerNode |-> vhash[<<n, i - 1>>]])
    /\ UNCHANGED vhash

FaultyRemoveNode(n) ==  \* the slice is not rebuilt
    /\ n \in nodes
    /\ nodes' = nodes \ {n}
    /\ hashToNode' = [h \in Position |-> IF hashToNode[h] = n THEN NoNode
                                         ELSE hashToNode[h]]
    /\ UNCHANGED <<sortedHashes, vhash>>

RemoveNode(n) ==
    /\ n \in nodes
    /\ nodes' = nodes \ {n}
    /\ LET kept == {i \in DOMAIN sortedHashes : hashToNode[sortedHashes[i]] # n}
       IN  sortedHashes' = Arrange(sortedHashes,
                                   [i \in kept |-> {j \in kept : j < i}])
    /\ hashToNode' = [h \in Position |-> IF hashToNode[h] = n THEN NoNode
                                         ELSE hashToNode[h]]
    /\ UNCHANGED vhash

Next == \E n \in Node : AddNode(n) \/ RemoveNode(n)

Spec == Init /\ [][Next]_vars

----------------------------------------------------------------------------
(***************************************************************************)
(* sort.Search: how many positions lie strictly before h, which is the     *)
(* (0-based) index of the first one at or after it.                        *)
(***************************************************************************)
FaultySearch(h) ==  \* ">" for ">=": a key on a point skips that point
    LET hits == {i \in DOMAIN sortedHashes : sortedHashes[i] > h}
    IN  IF hits = {} THEN Len(sortedHashes) ELSE Min(hits) - 1

Search(h) ==
    LET hits == {i \in DOMAIN sortedHashes : sortedHashes[i] >= h}
    IN  IF hits = {} THEN Len(sortedHashes) ELSE Min(hits) - 1

(***************************************************************************)
(* The walk: positions, and nodes, met clockwise from index idx, once      *)
(* round the ring.                                                         *)
(***************************************************************************)
FaultyClockwiseFrom(idx) ==  \* off by one: the walk starts one point late
    LET len == Len(sortedHashes)
    IN  [i \in 1 .. len |-> sortedHashes[((idx + i) % len) + 1]]

ClockwiseFrom(idx) ==
    LET len == Len(sortedHashes)
    IN  [i \in 1 .. len |-> sortedHashes[((idx + i - 1) % len) + 1]]

Clockwise(idx) == [i \in DOMAIN sortedHashes |-> hashToNode[ClockwiseFrom(idx)[i]]]

(***************************************************************************)
(* The loop of GetN: result[i] is the slice after i steps of the walk.     *)
(* Each step appends the node met unless it was seen; the loop stops at n  *)
(* results or once all nodes, size of them, were seen.  The set seen and   *)
(* the slice result always hold the same nodes.                            *)
(***************************************************************************)
Visit(result, node, n, size) ==
    IF Len(result) < n /\ Len(result) < size /\ node \notin ToSet(result)
    THEN Append(result, node) ELSE result

Collect(walk, n, size) ==
    LET result[i \in 0 .. Len(walk)] ==
            IF i = 0 THEN <<>> ELSE Visit(result[i - 1], walk[i], n, size)
    IN  result[Len(walk)]

GetN(key, n) == Collect(Clockwise(Search(key)), n, Cardinality(nodes))

Get(key) == LET owners == GetN(key, 1)
            IN  IF owners = <<>> THEN NoNode ELSE owners[1]

----------------------------------------------------------------------------
(***************************************************************************)
(* The three copies of the ring agree after every sequence of joins and    *)
(* leaves: the slice is strictly ascending, it holds the points of the     *)
(* nodes on the ring and no others, and the map gives each of them back    *)
(* its node and knows no other position.                                   *)
(***************************************************************************)
CopiesAgree ==
    /\ \A i, j \in DOMAIN sortedHashes :
           i < j => sortedHashes[i] < sortedHashes[j]
    /\ ToSet(sortedHashes) = UNION {PointsOf(n) : n \in nodes}
    /\ \A h \in Position :
           hashToNode[h] = IF \E n \in nodes : h \in PointsOf(n)
                           THEN CHOOSE n \in nodes : h \in PointsOf(n)
                           ELSE NoNode

(***************************************************************************)
(* The search and the wrap-around of GetN start the walk at the first      *)
(* point at or after the key and take it once round: each position of the  *)
(* ring is further from the key, going clockwise, than the one before it.  *)
(***************************************************************************)
WalkGoesClockwise ==
    \A key \in Position :
        LET met == ClockwiseFrom(Search(key))
        IN  \A i, j \in DOMAIN met :
                i < j => (met[i] - key) % RingSize < (met[j] - key) % RingSize

(***************************************************************************)
(* How far node n's nearest point is from a key, going clockwise.          *)
(***************************************************************************)
Distance(key, n) == Min({(h - key) % RingSize : h \in PointsOf(n)})

RankFor(key) == [n \in Node |-> Distance(key, n)]

(***************************************************************************)
(* GetN, with its binary search, wrap-around and early exits, returns the  *)
(* n nodes nearest to the key, nearest first, for every key and every n,   *)
(* whatever order the nodes joined and left in; Get is its first entry.    *)
(* This is the definition (Preference!FirstN) the modules of replication   *)
(* and recovery use in the place of the ring.                              *)
(***************************************************************************)
GetNIsPreference ==
    \A key \in Position, n \in 0 .. Cardinality(Node) :
        LET rank == RankFor(key)
            got == GetN(key, n)
        IN  /\ ToSet(got) = FirstN(rank, nodes, n)
            /\ \A i, j \in DOMAIN got : i < j => rank[got[i]] < rank[got[j]]
            /\ nodes # {} => Before(rank, nodes, Get(key)) = {}

(***************************************************************************)
(* The ring keeps the promise of module Placement: lookups never return a  *)
(* short or repeated owner list, and one node joining or leaving moves     *)
(* nobody else's place in any owner list.                                  *)
(***************************************************************************)
Promise == INSTANCE Placement
           WITH Key <- Position,
                owners <- [k \in Position |-> GetN(k, Factor)]

ImplementsPlacement == Promise!Spec
=============================================================================
