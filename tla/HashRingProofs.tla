--------------------------- MODULE HashRingProofs ---------------------------
(***************************************************************************)
(* The ring's three copies agree, GetN returns the nodes nearest to the    *)
(* key, and the ring keeps the promise of module Placement: for any nodes, *)
(* any number of points per node and any collision-free placement of them. *)
(***************************************************************************)
EXTENDS HashRing, PreferenceProofs, SequenceTheorems, TLAPS

(***************************************************************************)
(* Arrange lists the entries at the given indices, each index once and in  *)
(* the given order: at[k] is the index whose entry ends up at place k.     *)
(***************************************************************************)
Lists(u, s, S, ahead, at) ==
    /\ at \in [1 .. Cardinality(S) -> S]
    /\ u = [k \in 1 .. Cardinality(S) |-> s[at[k]]]
    /\ \A j, k \in 1 .. Cardinality(S) : j < k => at[j] \in ahead[at[k]]
    /\ \A x \in S : \E k \in 1 .. Cardinality(S) : at[k] = x

LEMMA ArrangeLists ==
    ASSUME NEW s, NEW S, IsFiniteSet(S), NEW ahead, Orders(ahead, S)
    PROVE  \E at : Lists(Arrange(s, ahead), s, S, ahead, at)
<1> DEFINE n == Cardinality(S)
           at == [k \in 1 .. n |-> CHOOSE x \in S : Cardinality(ahead[x]) = k - 1]
<1>1. /\ n \in Nat /\ \A x \in S : Cardinality(ahead[x]) + 1 \in 1 .. n
      /\ \A x, y \in S : Cardinality(ahead[x]) = Cardinality(ahead[y]) => x = y
      /\ \A k \in 1 .. n : \E x \in S : Cardinality(ahead[x]) = k - 1
  BY EveryPlaceTaken
<1>2. \A k \in 1 .. n : at[k] \in S /\ Cardinality(ahead[at[k]]) = k - 1
  BY <1>1
<1>3. at \in [1 .. n -> S]
  BY <1>2
<1>4. Arrange(s, ahead) = [k \in 1 .. n |-> s[at[k]]]
  <2>1. DOMAIN ahead = S
    BY DEF Orders
  <2> QED
    BY <2>1 DEF Arrange
<1> HIDE DEF at
<1>5. ASSUME NEW j \in 1 .. n, NEW k \in 1 .. n, j < k PROVE at[j] \in ahead[at[k]]
  <2>1. /\ at[j] \in S /\ at[k] \in S
        /\ Cardinality(ahead[at[j]]) = j - 1 /\ Cardinality(ahead[at[k]]) = k - 1
    BY <1>2
  <2>2. at[j] # at[k]
    BY <2>1, <1>5
  <2>3. CASE at[k] \in ahead[at[j]]
    <3>1. Cardinality(ahead[at[k]]) < Cardinality(ahead[at[j]])
      BY <2>1, <2>3, PlacesGrow
    <3> QED
      BY <2>1, <3>1, <1>5
  <2> QED
    BY <2>1, <2>2, <2>3 DEF Orders
<1>6. ASSUME NEW x \in S PROVE \E k \in 1 .. n : at[k] = x
  <2> DEFINE k == Cardinality(ahead[x]) + 1
  <2>1. k \in 1 .. n
    BY <1>1
  <2>2. Cardinality(ahead[at[k]]) = k - 1 /\ at[k] \in S
    BY <1>2, <2>1
  <2>3. Cardinality(ahead[x]) \in Int
    <3>1. ahead[x] \in SUBSET S
      BY DEF Orders
    <3> QED
      BY <3>1, FS_Subset, FS_CardinalityType
  <2>4. at[k] = x
    BY <1>1, <2>2, <2>3
  <2> QED
    BY <2>1, <2>4
<1>7. Lists(Arrange(s, ahead), s, S, ahead, at)
  BY <1>3, <1>4, <1>5, <1>6 DEF Lists
<1> QED
  BY <1>7

(***************************************************************************)
(* sort.Slice: the slice and the new entries, without a repeat, come out   *)
(* ascending, and nothing else comes out.                                  *)
(***************************************************************************)
LEMMA SortedAppendSorts ==
    ASSUME NEW s \in Seq(Nat), NEW t \in Seq(Nat),
           \A i, j \in DOMAIN (s \o t) : (s \o t)[i] = (s \o t)[j] => i = j
    PROVE  LET u == SortedAppend(s, t)
           IN  /\ Len(u) \in Nat /\ DOMAIN u = 1 .. Len(u)
               /\ \A j, k \in DOMAIN u : j < k => u[j] < u[k]
               /\ \A h : (\E k \in DOMAIN u : u[k] = h)
                             <=> (\E i \in DOMAIN s : s[i] = h) \/ (\E i \in DOMAIN t : t[i] = h)
<1> DEFINE all == s \o t
           S == DOMAIN all
           ahead == [i \in S |-> {j \in S : \/ all[j] < all[i]
                                            \/ (all[j] = all[i] /\ j < i)}]
           u == SortedAppend(s, t)
<1>1. /\ all \in Seq(Nat) /\ S = 1 .. Len(s) + Len(t)
      /\ Len(s) \in Nat /\ Len(t) \in Nat /\ DOMAIN s = 1 .. Len(s) /\ DOMAIN t = 1 .. Len(t)
      /\ \A i \in S : all[i] = IF i <= Len(s) THEN s[i] ELSE t[i - Len(s)]
  BY ConcatProperties, LenProperties
<1>2. \A i \in S : all[i] \in Nat /\ i \in Nat
  BY <1>1, ElementOfSeq
<1>3. u = Arrange(all, ahead)
  BY DEF SortedAppend
<1>4. IsFiniteSet(S)
  BY <1>1, FS_Interval
<1>5. ASSUME NEW h
      PROVE  (\E i \in S : all[i] = h)
                 <=> (\E i \in DOMAIN s : s[i] = h) \/ (\E i \in DOMAIN t : t[i] = h)
  <2>1. ASSUME NEW i \in DOMAIN s PROVE i \in S /\ all[i] = s[i]
    BY <1>1
  <2>2. ASSUME NEW i \in DOMAIN t PROVE i + Len(s) \in S /\ all[i + Len(s)] = t[i]
    BY <1>1
  <2>3. ASSUME NEW i \in S
        PROVE  \/ i \in DOMAIN s /\ all[i] = s[i]
               \/ i - Len(s) \in DOMAIN t /\ all[i] = t[i - Len(s)]
    BY <1>1
  <2> HIDE DEF all, S
  <2>4. ASSUME NEW i \in S, all[i] = h
        PROVE  (\E j \in DOMAIN s : s[j] = h) \/ (\E j \in DOMAIN t : t[j] = h)
    BY <2>3, <2>4
  <2>5. ASSUME NEW i \in DOMAIN s, s[i] = h PROVE \E j \in S : all[j] = h
    BY <2>1, <2>5
  <2>6. ASSUME NEW i \in DOMAIN t, t[i] = h PROVE \E j \in S : all[j] = h
    BY <2>2, <2>6
  <2> QED
    BY <2>4, <2>5, <2>6
<1>6. \A i, j \in S : all[i] = all[j] => i = j
  OBVIOUS
<1> HIDE DEF all, S
<1>7. Orders(ahead, S)
  <2>1. ahead \in [S -> SUBSET S]
    OBVIOUS
  <2>2. ASSUME NEW x \in S PROVE x \notin ahead[x]
    BY <1>2
  <2>3. ASSUME NEW x \in S, NEW y \in S, x # y PROVE x \in ahead[y] \/ y \in ahead[x]
    BY <1>2, <2>3
  <2>4. ASSUME NEW x \in S, NEW y \in S, x \in ahead[y], NEW z \in ahead[x]
        PROVE  z \in ahead[y]
    <3>1. z \in S /\ all[z] \in Nat /\ all[x] \in Nat /\ all[y] \in Nat
          /\ x \in Nat /\ y \in Nat /\ z \in Nat
      BY <1>2
    <3> QED
      BY <2>4, <3>1
  <2> QED
    BY <2>1, <2>2, <2>3, <2>4 DEF Orders
<1>8. ASSUME NEW x \in S, NEW y \in S, x \in ahead[y] PROVE all[x] < all[y]
  BY <1>6, <1>2, <1>8
<1> HIDE DEF ahead, u
<1>9. PICK at : Lists(u, all, S, ahead, at)
  BY <1>3, <1>4, <1>7, ArrangeLists
<1>10. Cardinality(S) \in Nat
  BY <1>4, FS_CardinalityType
<1>11. /\ at \in [1 .. Cardinality(S) -> S]
       /\ u = [k \in 1 .. Cardinality(S) |-> all[at[k]]]
       /\ \A j, k \in 1 .. Cardinality(S) : j < k => at[j] \in ahead[at[k]]
       /\ \A x \in S : \E k \in 1 .. Cardinality(S) : at[k] = x
  BY <1>9 DEF Lists
<1>12. Len(u) = Cardinality(S) /\ DOMAIN u = 1 .. Cardinality(S)
  BY <1>10, <1>11
<1>13. ASSUME NEW j \in DOMAIN u, NEW k \in DOMAIN u, j < k PROVE u[j] < u[k]
  BY <1>8, <1>11, <1>12, <1>13
<1>14. ASSUME NEW h PROVE (\E k \in DOMAIN u : u[k] = h) <=> (\E i \in S : all[i] = h)
  BY <1>11, <1>12
<1> QED
  BY <1>5, <1>10, <1>12, <1>13, <1>14 DEF u

(***************************************************************************)
(* The loop of RemoveNode: what it keeps stays ascending, and it keeps the *)
(* entries at the kept indices.                                            *)
(***************************************************************************)
LEMMA KeptInOrder ==
    ASSUME NEW s \in Seq(Nat), NEW kept \in SUBSET (DOMAIN s),
           \A i, j \in DOMAIN s : i < j => s[i] < s[j]
    PROVE  LET u == Arrange(s, [i \in kept |-> {j \in kept : j < i}])
           IN  /\ Len(u) \in Nat /\ DOMAIN u = 1 .. Len(u)
               /\ \A j, k \in DOMAIN u : j < k => u[j] < u[k]
               /\ \A h : (\E k \in DOMAIN u : u[k] = h) <=> (\E i \in kept : s[i] = h)
<1> DEFINE ahead == [i \in kept |-> {j \in kept : j < i}]
           u == Arrange(s, ahead)
<1>1. /\ DOMAIN s = 1 .. Len(s) /\ Len(s) \in Nat
      /\ \A i \in kept : i \in Nat /\ i \in DOMAIN s
  BY LenProperties
<1>2. IsFiniteSet(kept)
  <2>1. IsFiniteSet(1 .. Len(s)) /\ kept \in SUBSET (1 .. Len(s))
    BY <1>1, FS_Interval
  <2> QED
    BY <2>1, FS_Subset
<1>3. Orders(ahead, kept)
  BY <1>1 DEF Orders
<1>4. PICK at : Lists(u, s, kept, ahead, at)
  <2> HIDE DEF ahead
  <2> QED
    BY <1>2, <1>3, ArrangeLists
<1> HIDE DEF u
<1>5. /\ at \in [1 .. Cardinality(kept) -> kept]
      /\ u = [k \in 1 .. Cardinality(kept) |-> s[at[k]]]
      /\ \A j, k \in 1 .. Cardinality(kept) : j < k => at[j] \in ahead[at[k]]
      /\ \A x \in kept : \E k \in 1 .. Cardinality(kept) : at[k] = x
  <2> HIDE DEF ahead
  <2> QED
    BY <1>4 DEF Lists
<1>6. Cardinality(kept) \in Nat
  BY <1>2, FS_CardinalityType
<1>7. Len(u) = Cardinality(kept) /\ DOMAIN u = 1 .. Cardinality(kept)
  BY <1>5, <1>6
<1>8. ASSUME NEW j \in DOMAIN u, NEW k \in DOMAIN u, j < k PROVE u[j] < u[k]
  <2>1. at[j] \in ahead[at[k]] /\ at[j] \in kept /\ at[k] \in kept
    BY <1>5, <1>7, <1>8
  <2>2. at[j] < at[k]
    BY <2>1
  <2>3. u[j] = s[at[j]] /\ u[k] = s[at[k]]
    BY <1>5, <1>7
  <2> QED
    BY <1>1, <2>1, <2>2, <2>3
<1>9. ASSUME NEW h PROVE (\E k \in DOMAIN u : u[k] = h) <=> (\E i \in kept : s[i] = h)
  BY <1>5, <1>7
<1> QED
  BY <1>6, <1>7, <1>8, <1>9 DEF u

----------------------------------------------------------------------------
(***************************************************************************)
(* CopiesAgree as the steps keep it: the map is read node by node, the     *)
(* slice by way of the map, and no two points share a position.            *)
(***************************************************************************)
RingInv ==
    /\ TypeOK
    /\ \A x, y \in Node \X Replica : vhash[x] = vhash[y] => x = y
    /\ \A i, j \in DOMAIN sortedHashes : i < j => sortedHashes[i] < sortedHashes[j]
    /\ \A h \in Position :
           (\E i \in DOMAIN sortedHashes : sortedHashes[i] = h) <=> hashToNode[h] \in Node
    /\ \A h \in Position, n \in Node :
           hashToNode[h] = n <=> n \in nodes /\ h \in PointsOf(n)

LEMMA RingInvInit == Init => RingInv
<1> SUFFICES ASSUME Init PROVE RingInv
  OBVIOUS
<1>1. vhash \in [Node \X Replica -> Position] /\ IsInjective(vhash)
  BY DEF Init, ChoosePoints, Injection
<1>2. sortedHashes = <<>> /\ hashToNode = [h \in Position |-> NoNode] /\ nodes = {}
  BY DEF Init, New
<1>3. TypeOK
  BY <1>1, <1>2 DEF TypeOK
<1>4. \A x, y \in Node \X Replica : vhash[x] = vhash[y] => x = y
  BY <1>1 DEF IsInjective
<1> QED
  BY <1>2, <1>3, <1>4, HashRingAssumption DEF RingInv

LEMMA PointsArePositions ==
    ASSUME TypeOK, NEW n \in Node
    PROVE  /\ PointsOf(n) \subseteq Position
           /\ \A i \in 1 .. VirtualNodesPerNode : vhash[<<n, i - 1>>] \in PointsOf(n)
           /\ \A h \in PointsOf(n) : \E i \in 1 .. VirtualNodesPerNode : vhash[<<n, i - 1>>] = h
<1> USE HashRingAssumption
<1>1. PointsOf(n) \subseteq Position
  BY DEF TypeOK, PointsOf
<1>2. \A i \in 1 .. VirtualNodesPerNode : i - 1 \in Replica
  BY DEF Replica
<1>3. \A i \in Replica : i + 1 \in 1 .. VirtualNodesPerNode /\ (i + 1) - 1 = i
  BY DEF Replica
<1>4. \A i \in 1 .. VirtualNodesPerNode : vhash[<<n, i - 1>>] \in PointsOf(n)
  BY <1>2 DEF PointsOf
<1>5. ASSUME NEW h \in PointsOf(n)
      PROVE  \E i \in 1 .. VirtualNodesPerNode : vhash[<<n, i - 1>>] = h
  <2>1. PICK i \in Replica : vhash[<<n, i>>] = h
    BY DEF PointsOf
  <2> QED
    BY <1>3, <2>1
<1> QED
  BY <1>1, <1>4, <1>5

(***************************************************************************)
(* A joining node's points are new: no point of another node is among      *)
(* them.                                                                   *)
(***************************************************************************)
LEMMA PointsAreDisjoint ==
    ASSUME RingInv, NEW n \in Node, NEW m \in Node, NEW h \in PointsOf(n), h \in PointsOf(m)
    PROVE  n = m
<1>1. PICK i \in Replica : vhash[<<n, i>>] = h
  BY DEF PointsOf
<1>2. PICK j \in Replica : vhash[<<m, j>>] = h
  BY DEF PointsOf
<1>3. <<n, i>> = <<m, j>>
  BY <1>1, <1>2 DEF RingInv
<1> QED
  BY <1>3

LEMMA AddKeepsInv ==
    ASSUME RingInv, NEW n \in Node, AddNode(n)
    PROVE  RingInv'
<1> DEFINE t == [i \in 1 .. VirtualNodesPerNode |-> vhash[<<n, i - 1>>]]
           s == sortedHashes
<1>1. /\ n \notin nodes /\ nodes' = nodes \cup {n} /\ vhash' = vhash
      /\ hashToNode' = [h \in Position |-> IF h \in PointsOf(n) THEN n ELSE hashToNode[h]]
      /\ sortedHashes' = SortedAppend(s, t)
  BY DEF AddNode
<1>2. TypeOK
  BY DEF RingInv
<1>3. /\ PointsOf(n) \subseteq Position
      /\ \A i \in 1 .. VirtualNodesPerNode : t[i] \in PointsOf(n)
      /\ \A h \in PointsOf(n) : \E i \in 1 .. VirtualNodesPerNode : t[i] = h
  BY <1>2, PointsArePositions
<1>4. VirtualNodesPerNode \in Nat /\ Position \subseteq Nat
  BY HashRingAssumption DEF Position
<1>5. /\ t \in Seq(Position) /\ t \in Seq(Nat) /\ Len(t) = VirtualNodesPerNode
      /\ DOMAIN t = 1 .. VirtualNodesPerNode
  <2>1. \A i \in 1 .. VirtualNodesPerNode : t[i] \in Position
    BY <1>3
  <2>2. t \in [1 .. VirtualNodesPerNode -> Position]
    BY <2>1
  <2> HIDE DEF t
  <2>3. t \in Seq(Position) /\ Len(t) = VirtualNodesPerNode /\ DOMAIN t = 1 .. VirtualNodesPerNode
    BY <1>4, <2>2
  <2> QED
    BY <1>4, <2>3, SeqMonotonic
<1>6. s \in Seq(Position) /\ s \in Seq(Nat) /\ Len(s) \in Nat /\ DOMAIN s = 1 .. Len(s)
      /\ \A i \in DOMAIN s : s[i] \in Position
  <2>1. s \in Seq(Position)
    BY <1>2 DEF TypeOK
  <2> HIDE DEF s
  <2> QED
    BY <1>4, <2>1, SeqMonotonic, LenProperties, ElementOfSeq
<1>7. ASSUME NEW i \in DOMAIN t, NEW j \in DOMAIN t, t[i] = t[j] PROVE i = j
  <2>1. i - 1 \in Replica /\ j - 1 \in Replica
    BY <1>5, HashRingAssumption DEF Replica
  <2>2. <<n, i - 1>> = <<n, j - 1>>
    BY <1>5, <1>7, <2>1 DEF RingInv
  <2> QED
    BY <1>5, <2>2
<1>8. ASSUME NEW i \in DOMAIN s, NEW j \in DOMAIN t PROVE s[i] # t[j]
  <2>1. SUFFICES ASSUME s[i] = t[j] PROVE FALSE
    OBVIOUS
  <2>2. hashToNode[s[i]] \in Node
    BY <1>6 DEF RingInv
  <2>3. /\ hashToNode[s[i]] \in nodes /\ s[i] \in PointsOf(hashToNode[s[i]])
        /\ s[i] \in PointsOf(n)
    BY <1>3, <1>5, <1>6, <2>1, <2>2 DEF RingInv
  <2>4. hashToNode[s[i]] = n
    BY <2>2, <2>3, PointsAreDisjoint
  <2> QED
    BY <1>1, <2>3, <2>4
<1>9. ASSUME NEW i \in DOMAIN s, NEW j \in DOMAIN s, s[i] = s[j] PROVE i = j
  <2>1. i \in Nat /\ j \in Nat /\ s[i] \in Nat /\ s[j] \in Nat
    BY <1>4, <1>6
  <2>2. (i < j => s[i] < s[j]) /\ (j < i => s[j] < s[i])
    BY DEF RingInv
  <2> QED
    BY <1>9, <2>1, <2>2
<1> HIDE DEF t, s
<1>10. ASSUME NEW i \in DOMAIN (s \o t), NEW j \in DOMAIN (s \o t), (s \o t)[i] = (s \o t)[j]
       PROVE  i = j
  <2>1. DOMAIN (s \o t) = 1 .. Len(s) + Len(t)
    <3>1. s \o t \in Seq(Nat) /\ Len(s \o t) = Len(s) + Len(t)
      BY <1>5, <1>6, ConcatProperties
    <3> QED
      BY <3>1, LenProperties
  <2>2. \A k \in 1 .. Len(s) + Len(t) :
            /\ k <= Len(s) => k \in DOMAIN s /\ (s \o t)[k] = s[k]
            /\ ~(k <= Len(s)) => k - Len(s) \in DOMAIN t /\ (s \o t)[k] = t[k - Len(s)]
    BY <1>4, <1>5, <1>6, ConcatProperties
  <2>3. CASE i <= Len(s) /\ j <= Len(s)
    BY <1>9, <1>10, <2>1, <2>2, <2>3
  <2>4. CASE ~(i <= Len(s)) /\ ~(j <= Len(s))
    <3>1. i - Len(s) = j - Len(s)
      BY <1>7, <1>10, <2>1, <2>2, <2>4
    <3> QED
      BY <1>6, <2>1, <3>1
  <2> QED
    BY <1>8, <1>10, <2>1, <2>2, <2>3, <2>4
<1> DEFINE u == SortedAppend(s, t)
<1>11. /\ Len(u) \in Nat /\ DOMAIN u = 1 .. Len(u)
       /\ \A j, k \in DOMAIN u : j < k => u[j] < u[k]
       /\ \A h : (\E k \in DOMAIN u : u[k] = h)
                     <=> (\E i \in DOMAIN s : s[i] = h) \/ (\E i \in DOMAIN t : t[i] = h)
  BY <1>5, <1>6, <1>10, SortedAppendSorts
<1>12. sortedHashes' = u
  BY <1>1
<1> HIDE DEF u
<1>13. ASSUME NEW h
       PROVE  (\E k \in DOMAIN u : u[k] = h)
                  <=> (\E i \in DOMAIN s : s[i] = h) \/ h \in PointsOf(n)
  <2>1. (\E i \in DOMAIN t : t[i] = h) <=> h \in PointsOf(n)
    BY <1>3, <1>5 DEF t
  <2> QED
    BY <1>11, <2>1
<1>14. ASSUME NEW k \in DOMAIN u PROVE u[k] \in Position
  BY <1>3, <1>6, <1>13
<1>15. u \in Seq(Position)
  <2>1. u \in [1 .. Len(u) -> Position]
    <3>1. u = [k \in 1 .. Len(u) |-> u[k]]
      BY <1>11 DEF u, SortedAppend, Arrange
    <3> QED
      BY <1>11, <1>14, <3>1
  <2> QED
    BY <1>11, <2>1
<1>16. \A m \in Node : PointsOf(m)' = PointsOf(m)
  BY <1>1 DEF PointsOf
<1>17. ASSUME NEW h \in Position, NEW m \in Node
       PROVE  hashToNode'[h] = m <=> m \in nodes' /\ h \in PointsOf(m)
  <2>1. CASE h \in PointsOf(n)
    <3>1. h \in PointsOf(m) <=> m = n
      BY <2>1, PointsAreDisjoint
    <3> QED
      BY <1>1, <2>1, <3>1
  <2>2. CASE h \notin PointsOf(n)
    <3>1. hashToNode'[h] = hashToNode[h]
      BY <1>1, <2>2
    <3>2. hashToNode[h] = m <=> m \in nodes /\ h \in PointsOf(m)
      BY DEF RingInv
    <3> QED
      BY <1>1, <2>2, <3>1, <3>2
  <2> QED
    BY <2>1, <2>2
<1>18. ASSUME NEW h \in Position
       PROVE  (\E i \in DOMAIN u : u[i] = h) <=> hashToNode'[h] \in Node
  <2>1. (\E i \in DOMAIN s : s[i] = h) <=> hashToNode[h] \in Node
    BY DEF RingInv, s
  <2> QED
    BY <1>1, <1>13, <2>1
<1>19. TypeOK'
  <2>1. hashToNode' \in [Position -> Node \cup {NoNode}] /\ nodes' \subseteq Node
    BY <1>1, <1>2 DEF TypeOK
  <2>2. \A i \in DOMAIN u : hashToNode'[u[i]] \in Node
    BY <1>14, <1>18
  <2> QED
    BY <1>1, <1>2, <1>12, <1>15, <2>1, <2>2 DEF TypeOK
<1> QED
  BY <1>1, <1>11, <1>12, <1>19, <1>16, <1>17, <1>18 DEF RingInv

LEMMA RemoveKeepsInv ==
    ASSUME RingInv, NEW n \in Node, RemoveNode(n)
    PROVE  RingInv'
<1> DEFINE s == sortedHashes
           kept == {i \in DOMAIN s : hashToNode[s[i]] # n}
           u == Arrange(s, [i \in kept |-> {j \in kept : j < i}])
<1>1. /\ n \in nodes /\ nodes' = nodes \ {n} /\ vhash' = vhash /\ sortedHashes' = u
      /\ hashToNode' = [h \in Position |-> IF hashToNode[h] = n THEN NoNode ELSE hashToNode[h]]
  BY DEF RemoveNode
<1>2. TypeOK
  BY DEF RingInv
<1>3. Position \subseteq Nat
  BY HashRingAssumption DEF Position
<1>4. s \in Seq(Nat) /\ \A i \in DOMAIN s : s[i] \in Position
  <2>1. s \in Seq(Position)
    BY <1>2 DEF TypeOK
  <2> HIDE DEF s
  <2> QED
    BY <1>3, <2>1, SeqMonotonic, LenProperties, ElementOfSeq
<1>5. /\ Len(u) \in Nat /\ DOMAIN u = 1 .. Len(u)
      /\ \A j, k \in DOMAIN u : j < k => u[j] < u[k]
      /\ \A h : (\E k \in DOMAIN u : u[k] = h) <=> (\E i \in kept : s[i] = h)
  <2>1. kept \in SUBSET (DOMAIN s)
    OBVIOUS
  <2>2. \A i, j \in DOMAIN s : i < j => s[i] < s[j]
    BY DEF RingInv
  <2> HIDE DEF kept, s
  <2> QED
    BY <1>4, <2>1, <2>2, KeptInOrder
<1>6. ASSUME NEW h
      PROVE  (\E k \in DOMAIN u : u[k] = h)
                 <=> (\E i \in DOMAIN s : s[i] = h) /\ hashToNode[h] # n
  <2>1. (\E i \in kept : s[i] = h) <=> (\E i \in DOMAIN s : s[i] = h) /\ hashToNode[h] # n
    OBVIOUS
  <2> QED
    BY <1>5, <2>1
<1>7. u \in Seq(Position)
  <2>1. \A k \in DOMAIN u : u[k] \in Position
    BY <1>4, <1>6
  <2>2. u = [k \in 1 .. Len(u) |-> u[k]]
    <3> HIDE DEF kept, s
    <3> QED
      BY <1>5 DEF Arrange
  <2> HIDE DEF u
  <2>3. u \in [1 .. Len(u) -> Position]
    BY <1>5, <2>1, <2>2
  <2> QED
    BY <1>5, <2>3
<1> HIDE DEF u
<1>8. \A m \in Node : PointsOf(m)' = PointsOf(m)
  BY <1>1 DEF PointsOf
<1>9. ASSUME NEW h \in Position
       PROVE  hashToNode'[h] = IF hashToNode[h] = n THEN NoNode ELSE hashToNode[h]
  BY <1>1
<1>10. ASSUME NEW h \in Position, NEW m \in Node
       PROVE  hashToNode'[h] = m <=> m \in nodes' /\ h \in PointsOf(m)
  <2>1. hashToNode[h] = m <=> m \in nodes /\ h \in PointsOf(m)
    BY DEF RingInv
  <2>2. hashToNode'[h] = m <=> hashToNode[h] = m /\ m # n
    BY <1>9, HashRingAssumption
  <2> QED
    BY <1>1, <2>1, <2>2
<1>11. ASSUME NEW h \in Position
       PROVE  (\E i \in DOMAIN u : u[i] = h) <=> hashToNode'[h] \in Node
  <2>1. (\E i \in DOMAIN s : s[i] = h) <=> hashToNode[h] \in Node
    BY DEF RingInv
  <2>2. hashToNode'[h] \in Node <=> hashToNode[h] \in Node /\ hashToNode[h] # n
    BY <1>9, HashRingAssumption
  <2> QED
    BY <1>6, <2>1, <2>2
<1>12. TypeOK'
  <2>1. hashToNode' \in [Position -> Node \cup {NoNode}] /\ nodes' \subseteq Node
    BY <1>1, <1>2 DEF TypeOK
  <2>2. \A i \in DOMAIN u : u[i] \in Position
    BY <1>7, <1>5, ElementOfSeq
  <2>3. \A i \in DOMAIN u : hashToNode'[u[i]] \in Node
    BY <1>11, <2>2
  <2> QED
    BY <1>1, <1>2, <1>7, <2>1, <2>3 DEF TypeOK
<1> QED
  BY <1>1, <1>5, <1>8, <1>10, <1>11, <1>12 DEF RingInv

LEMMA RingInvPreserved == RingInv /\ [Next]_vars => RingInv'
<1> SUFFICES ASSUME RingInv, [Next]_vars PROVE RingInv'
  OBVIOUS
<1>1. CASE Next
  BY <1>1, AddKeepsInv, RemoveKeepsInv DEF Next
<1>2. CASE UNCHANGED vars
  <2>1. TypeOK' /\ \A n \in Node : PointsOf(n)' = PointsOf(n)
    BY <1>2 DEF vars, RingInv, TypeOK, PointsOf
  <2> QED
    BY <1>2, <2>1 DEF vars, RingInv
<1> QED
  BY <1>1, <1>2

LEMMA RingInvImplies == RingInv => TypeOK /\ CopiesAgree
<1> SUFFICES ASSUME RingInv PROVE TypeOK /\ CopiesAgree
  OBVIOUS
<1>1. TypeOK
  BY DEF RingInv
<1>2. \A n \in nodes : n \in Node /\ PointsOf(n) \subseteq Position
  BY <1>1, PointsArePositions DEF TypeOK
<1>3. \A i \in DOMAIN sortedHashes : sortedHashes[i] \in Position
  BY <1>1, LenProperties, ElementOfSeq DEF TypeOK
<1>4. ASSUME NEW h \in Position
      PROVE  (\E i \in DOMAIN sortedHashes : sortedHashes[i] = h)
                 <=> \E n \in nodes : h \in PointsOf(n)
  <2>1. (\E i \in DOMAIN sortedHashes : sortedHashes[i] = h) <=> hashToNode[h] \in Node
    BY DEF RingInv
  <2>2. \A n \in Node : hashToNode[h] = n <=> n \in nodes /\ h \in PointsOf(n)
    BY DEF RingInv
  <2> QED
    BY <1>2, <2>1, <2>2
<1>5. ToSet(sortedHashes) = UNION {PointsOf(n) : n \in nodes}
  <2>1. ASSUME NEW h
        PROVE  h \in ToSet(sortedHashes) <=> \E i \in DOMAIN sortedHashes : sortedHashes[i] = h
    BY DEF ToSet
  <2>2. ASSUME NEW h
        PROVE  h \in UNION {PointsOf(n) : n \in nodes} <=> \E n \in nodes : h \in PointsOf(n)
    OBVIOUS
  <2> QED
    BY <1>2, <1>3, <1>4, <2>1, <2>2
<1>6. ASSUME NEW h \in Position
      PROVE  hashToNode[h] = IF \E n \in nodes : h \in PointsOf(n)
                             THEN CHOOSE n \in nodes : h \in PointsOf(n)
                             ELSE NoNode
  <2>1. \A n \in Node : hashToNode[h] = n <=> n \in nodes /\ h \in PointsOf(n)
    BY DEF RingInv
  <2>2. CASE \E n \in nodes : h \in PointsOf(n)
    <3> DEFINE m == CHOOSE n \in nodes : h \in PointsOf(n)
    <3>1. m \in nodes /\ h \in PointsOf(m)
      BY <2>2
    <3> HIDE DEF m
    <3>2. hashToNode[h] = m
      BY <1>2, <2>1, <3>1
    <3> QED
      BY <2>2, <3>2 DEF m
  <2>3. CASE ~ \E n \in nodes : h \in PointsOf(n)
    <3>1. hashToNode[h] \in Node \cup {NoNode}
      BY <1>1 DEF TypeOK
    <3> QED
      BY <2>1, <2>3, <3>1
  <2> QED
    BY <2>2, <2>3
<1>7. \A i, j \in DOMAIN sortedHashes : i < j => sortedHashes[i] < sortedHashes[j]
  BY DEF RingInv
<1> QED
  BY <1>1, <1>5, <1>6, <1>7 DEF CopiesAgree

(***************************************************************************)
(* AddNode and RemoveNode keep the slice, the map and the node set well    *)
(* formed, for any nodes and any placement of their points.                *)
(***************************************************************************)
THEOREM TypeCorrect == Spec => []TypeOK
<1>1. Spec => []RingInv
  BY RingInvInit, RingInvPreserved, PTL DEF Spec
<1> QED
  BY <1>1, RingInvImplies, PTL

(***************************************************************************)
(* The three copies of the ring agree after any joins and leaves: the      *)
(* sort, the appends and the filter of AddNode and RemoveNode leave the    *)
(* slice strictly ascending, with the points of the nodes on the ring and  *)
(* no others, and the map in step with it.                                 *)
(***************************************************************************)
THEOREM CopiesAlwaysAgree == Spec => []CopiesAgree
<1>1. Spec => []RingInv
  BY RingInvInit, RingInvPreserved, PTL DEF Spec
<1> QED
  BY <1>1, RingInvImplies, PTL

----------------------------------------------------------------------------
(***************************************************************************)
(* Going round once.                                                       *)
(***************************************************************************)
LEMMA OnceRound ==
    ASSUME NEW n \in Nat \ {0}, NEW a \in Int
    PROVE  /\ 0 <= a /\ a < n => a % n = a
           /\ n <= a /\ a < 2 * n => a % n = a - n
           /\ -n <= a /\ a < 0 => a % n = a + n
OBVIOUS

(***************************************************************************)
(* sort.Search: the positions up to the index found are before the key,    *)
(* the others are not.                                                     *)
(***************************************************************************)
LEMMA SearchSplits ==
    ASSUME RingInv, NEW key \in Position
    PROVE  /\ Search(key) \in 0 .. Len(sortedHashes)
           /\ \A i \in 1 .. Len(sortedHashes) :
                  i <= Search(key) <=> sortedHashes[i] < key
<1> DEFINE s == sortedHashes
           hits == {i \in DOMAIN s : s[i] >= key}
<1>1. /\ Len(s) \in Nat /\ DOMAIN s = 1 .. Len(s) /\ \A i \in DOMAIN s : s[i] \in Position
      /\ \A i, j \in DOMAIN s : i < j => s[i] < s[j]
  BY LenProperties, ElementOfSeq DEF RingInv, TypeOK
<1>2. Position \subseteq Nat
  BY HashRingAssumption DEF Position
<1>3. Search(key) = IF hits = {} THEN Len(s) ELSE Min(hits) - 1
  BY DEF Search
<1> HIDE DEF s
<1>4. key \in Nat /\ \A i \in 1 .. Len(s) : i \in DOMAIN s /\ s[i] \in Nat
  BY <1>1, <1>2
<1>5. CASE hits = {}
  <2>1. \A i \in 1 .. Len(s) : ~(s[i] >= key)
    BY <1>4, <1>5
  <2>2. \A i \in 1 .. Len(s) : s[i] < key
    BY <1>4, <2>1
  <2> QED
    BY <1>1, <1>3, <1>5, <2>2 DEF s
<1>6. CASE hits # {}
  <2>1. hits \subseteq Nat
    BY <1>1
  <2>2. PICK least \in hits : \A y \in hits : ~(<<y, least>> \in OpToRel(<, Nat))
    BY <1>6, <2>1, WFMin, NatLessThanWellFounded
  <2>3. \A y \in hits : least <= y
    <3> HIDE DEF hits
    <3>1. \A y \in hits : ~(y < least)
      BY <2>1, <2>2 DEF OpToRel
    <3> QED
      BY <2>1, <3>1
  <2>4. Min(hits) \in hits /\ \A y \in hits : Min(hits) <= y
    <3> HIDE DEF hits
    <3> QED
      BY <2>3 DEF Min
  <2> DEFINE m == Min(hits)
  <2>5. m \in 1 .. Len(s) /\ s[m] >= key /\ Search(key) = m - 1
    BY <1>1, <1>3, <1>6, <2>4
  <2>6. \A i \in 1 .. Len(s) : s[i] >= key => m <= i
    BY <1>1, <2>4
  <2> HIDE DEF m, hits
  <2>7. ASSUME NEW i \in 1 .. Len(s) PROVE i <= m - 1 <=> s[i] < key
    <3>1. /\ s[i] \in Nat /\ s[m] \in Nat /\ key \in Nat /\ i \in Nat /\ m \in Nat
      BY <1>4, <2>5
    <3>2. m < i => s[m] < s[i]
      BY <1>1, <2>5
    <3> QED
      BY <2>5, <2>6, <3>1, <3>2
  <2> QED
    BY <1>1, <2>5, <2>7 DEF s
<1> QED
  BY <1>5, <1>6

(***************************************************************************)
(* The walk is the slice from the index found on, and then the part before *)
(* it; the wrap-around shows in the distances.                             *)
(***************************************************************************)
LEMMA WalkSteps ==
    ASSUME RingInv, NEW key \in Position, NEW k \in 1 .. Len(sortedHashes)
    PROVE  LET s == sortedHashes
               len == Len(s)
               idx == Search(key)
               met == ClockwiseFrom(idx)
           IN  /\ idx + k <= len => /\ idx + k \in 1 .. len /\ met[k] = s[idx + k]
                                    /\ (met[k] - key) % RingSize = s[idx + k] - key
               /\ ~(idx + k <= len) =>
                      /\ idx + k - len \in 1 .. len /\ met[k] = s[idx + k - len]
                      /\ (met[k] - key) % RingSize = s[idx + k - len] - key + RingSize
<1> DEFINE s == sortedHashes
           len == Len(s)
           idx == Search(key)
           met == ClockwiseFrom(idx)
<1>1. len \in Nat /\ \A l \in 1 .. len : s[l] \in Position
  BY LenProperties, ElementOfSeq DEF RingInv, TypeOK
<1>2. RingSize \in Nat \ {0} /\ \A h \in Position : h \in Nat /\ h < RingSize
  BY HashRingAssumption DEF Position
<1>3. idx \in 0 .. len /\ \A l \in 1 .. len : l <= idx <=> s[l] < key
  BY SearchSplits
<1>4. k \in 1 .. len /\ len \in Nat \ {0}
  BY <1>1
<1> HIDE DEF s, idx
<1>5. met[k] = s[((idx + k - 1) % len) + 1]
  BY <1>4 DEF ClockwiseFrom, s
<1>6. key \in Nat /\ key < RingSize
  BY <1>2
<1> HIDE DEF met, len
<1>7. CASE idx + k <= len
  <2>1. (idx + k - 1) % len = idx + k - 1
    <3>1. idx + k - 1 \in Int /\ 0 <= idx + k - 1 /\ idx + k - 1 < len
      BY <1>3, <1>4, <1>7
    <3> QED
      BY <1>4, <3>1, OnceRound
  <2>2. met[k] = s[idx + k] /\ idx + k \in 1 .. len
    BY <1>3, <1>4, <1>5, <1>7, <2>1
  <2>3. s[idx + k] \in Nat /\ s[idx + k] < RingSize /\ ~(s[idx + k] < key)
    BY <1>1, <1>2, <1>3, <1>4, <2>2
  <2>4. (s[idx + k] - key) % RingSize = s[idx + k] - key
    <3>1. /\ s[idx + k] - key \in Int /\ 0 <= s[idx + k] - key
          /\ s[idx + k] - key < RingSize
      BY <1>2, <1>6, <2>3
    <3> QED
      BY <1>2, <3>1, OnceRound
  <2> QED
    BY <1>7, <2>2, <2>4 DEF met, len, idx, s
<1>8. CASE ~(idx + k <= len)
  <2>1. (idx + k - 1) % len = (idx + k - 1) - len
    <3>1. idx + k - 1 \in Int /\ len <= idx + k - 1 /\ idx + k - 1 < 2 * len
      BY <1>3, <1>4, <1>8
    <3> QED
      BY <1>4, <3>1, OnceRound
  <2>2. met[k] = s[idx + k - len] /\ idx + k - len \in 1 .. len /\ idx + k - len <= idx
    BY <1>3, <1>4, <1>5, <1>8, <2>1
  <2>3. s[idx + k - len] \in Nat /\ s[idx + k - len] < key
    BY <1>1, <1>2, <1>3, <1>4, <2>2
  <2>4. (s[idx + k - len] - key) % RingSize = s[idx + k - len] - key + RingSize
    BY <1>2, <1>6, <2>3, OnceRound
  <2> QED
    BY <1>8, <2>2, <2>4 DEF met, len, idx, s
<1> QED
  BY <1>7, <1>8 DEF met, len, idx, s

LEMMA InvMakesWalkClockwise == RingInv => WalkGoesClockwise
<1> SUFFICES ASSUME RingInv, NEW key \in Position,
                    NEW i \in DOMAIN ClockwiseFrom(Search(key)),
                    NEW j \in DOMAIN ClockwiseFrom(Search(key)), i < j
             PROVE  (ClockwiseFrom(Search(key))[i] - key) % RingSize
                        < (ClockwiseFrom(Search(key))[j] - key) % RingSize
  BY DEF WalkGoesClockwise
<1> DEFINE s == sortedHashes
           len == Len(s)
           idx == Search(key)
           met == ClockwiseFrom(idx)
<1>1. /\ len \in Nat /\ DOMAIN s = 1 .. len /\ \A k \in 1 .. len : s[k] \in Position
      /\ \A k, l \in 1 .. len : k < l => s[k] < s[l]
  BY LenProperties, ElementOfSeq DEF RingInv, TypeOK
<1>2. RingSize \in Nat \ {0} /\ \A h \in Position : h \in Nat /\ h < RingSize
  BY HashRingAssumption DEF Position
<1>3. idx \in 0 .. len /\ \A k \in 1 .. len : k <= idx <=> s[k] < key
  BY SearchSplits
<1>4. i \in 1 .. len /\ j \in 1 .. len /\ len \in Nat \ {0}
  BY <1>1 DEF ClockwiseFrom
<1> HIDE DEF s, idx
<1>5. ASSUME NEW k \in 1 .. len
      PROVE  /\ idx + k <= len => /\ idx + k \in 1 .. len /\ met[k] = s[idx + k]
                                  /\ (met[k] - key) % RingSize = s[idx + k] - key
             /\ ~(idx + k <= len) =>
                    /\ idx + k - len \in 1 .. len /\ met[k] = s[idx + k - len]
                    /\ (met[k] - key) % RingSize = s[idx + k - len] - key + RingSize
  BY WalkSteps DEF s, idx
<1> HIDE DEF met, len
<1>6. idx \in Nat /\ key \in Nat /\ key < RingSize /\ \A k \in 1 .. len : s[k] \in Nat /\ s[k] < RingSize
  BY <1>1, <1>2, <1>3
<1>7. (met[i] - key) % RingSize < (met[j] - key) % RingSize
  <2>1. CASE idx + j <= len
    <3>1. idx + i <= len /\ s[idx + i] < s[idx + j]
      BY <1>1, <1>4, <1>5, <1>6, <2>1
    <3> QED
      BY <1>2, <1>4, <1>5, <1>6, <2>1, <3>1
  <2>2. CASE ~(idx + i <= len)
    <3>1. ~(idx + j <= len) /\ s[idx + i - len] < s[idx + j - len]
      BY <1>1, <1>4, <1>5, <1>6, <2>2
    <3> QED
      BY <1>2, <1>4, <1>5, <1>6, <2>2, <3>1
  <2>3. CASE idx + i <= len /\ ~(idx + j <= len)
    BY <1>2, <1>4, <1>5, <1>6, <2>3
  <2> QED
    BY <1>4, <1>6, <2>1, <2>2, <2>3
<1> QED
  BY <1>7 DEF met, idx

(***************************************************************************)
(* GetN's binary search and modulo arithmetic walk the ring clockwise from *)
(* the key, once round and in order, for any ring and any key: also for a  *)
(* key on a point and for one past the last point.                         *)
(***************************************************************************)
THEOREM WalkIsClockwise == Spec => []WalkGoesClockwise
<1>1. Spec => []RingInv
  BY RingInvInit, RingInvPreserved, PTL DEF Spec
<1> QED
  BY <1>1, InvMakesWalkClockwise, PTL

----------------------------------------------------------------------------
(***************************************************************************)
(* Induction, for a property given as the set of the numbers that have it. *)
(***************************************************************************)
LEMMA InductiveSet ==
    ASSUME NEW G, 0 \in G, \A m \in Nat : m \in G => m + 1 \in G
    PROVE  Nat \subseteq G
<1> DEFINE bad == Nat \ G
<1> SUFFICES ASSUME bad # {} PROVE FALSE
  OBVIOUS
<1>1. PICK least \in bad : \A y \in bad : ~(<<y, least>> \in OpToRel(<, Nat))
  BY WFMin, NatLessThanWellFounded
<1>2. least \in Nat /\ least \notin G /\ least # 0
  OBVIOUS
<1>3. least - 1 \in Nat /\ least - 1 < least /\ (least - 1) + 1 = least
  BY <1>2
<1>4. least - 1 \in G
  BY <1>1, <1>3 DEF OpToRel
<1> QED
  BY <1>2, <1>3, <1>4

(***************************************************************************)
(* The loop of GetN, as an equation between its results: r[i] is the slice *)
(* after i steps.                                                          *)
(***************************************************************************)
Runs(r, m, walk, n, size) ==
    r = [i \in 0 .. m |-> IF i = 0 THEN <<>> ELSE Visit(r[i - 1], walk[i], n, size)]

LEMMA CollectRuns ==
    ASSUME NEW walk, Len(walk) \in Nat, NEW n, NEW size
    PROVE  \E r : /\ Runs(r, Len(walk), walk, n, size)
                  /\ Collect(walk, n, size) = r[Len(walk)]
<1> DEFINE G == {m \in Nat : \E r : Runs(r, m, walk, n, size)}
<1>1. 0 \in G
  <2> DEFINE r == [i \in 0 .. 0 |-> <<>>]
  <2>1. Runs(r, 0, walk, n, size)
    BY DEF Runs
  <2> QED
    BY <2>1
<1>2. ASSUME NEW m \in Nat, m \in G PROVE m + 1 \in G
  <2>1. PICK r : Runs(r, m, walk, n, size)
    BY <1>2
  <2> DEFINE q == [i \in 0 .. m + 1 |-> IF i <= m THEN r[i]
                                         ELSE Visit(r[m], walk[m + 1], n, size)]
  <2>2. \A i \in 0 .. m : r[i] = IF i = 0 THEN <<>> ELSE Visit(r[i - 1], walk[i], n, size)
    BY <2>1 DEF Runs
  <2>3. ASSUME NEW i \in 0 .. m + 1
        PROVE  q[i] = IF i = 0 THEN <<>> ELSE Visit(q[i - 1], walk[i], n, size)
    <3>1. CASE i = 0
      BY <2>2, <3>1
    <3>2. CASE i \in 1 .. m
      <4>1. q[i] = r[i] /\ q[i - 1] = r[i - 1] /\ i # 0 /\ i \in 0 .. m
        BY <3>2
      <4> QED
        BY <2>2, <4>1
    <3>3. CASE i = m + 1
      <4>1. q[i] = Visit(r[m], walk[m + 1], n, size) /\ q[m] = r[m] /\ i # 0 /\ i - 1 = m
        BY <3>3
      <4> QED
        BY <3>3, <4>1
    <3> QED
      BY <3>1, <3>2, <3>3
  <2>4. q = [i \in 0 .. m + 1 |-> IF i = 0 THEN <<>> ELSE Visit(q[i - 1], walk[i], n, size)]
    BY <2>3
  <2> HIDE DEF q
  <2>5. Runs(q, m + 1, walk, n, size)
    BY <2>4 DEF Runs
  <2> QED
    BY <2>5
<1>3. Nat \subseteq G
  <2> HIDE DEF G
  <2> QED
    BY <1>1, <1>2, InductiveSet
<1>4. \E r : Runs(r, Len(walk), walk, n, size)
  BY <1>3
<1> DEFINE result == CHOOSE r : r = [i \in 0 .. Len(walk) |->
                                        IF i = 0 THEN <<>> ELSE Visit(r[i - 1], walk[i], n, size)]
<1>5. Runs(result, Len(walk), walk, n, size)
  BY <1>4 DEF Runs
<1>6. Collect(walk, n, size) = result[Len(walk)]
  BY DEF Collect
<1> QED
  BY <1>5, <1>6

(***************************************************************************)
(* A walk past the members of S: step i is at distance d[i], the distances *)
(* grow, and a member's rank is the distance at which it is first met.     *)
(***************************************************************************)
IsWalk(walk, d, rank, S) ==
    /\ walk \in Seq(S)
    /\ \A i \in DOMAIN walk : d[i] \in Nat /\ rank[walk[i]] <= d[i]
    /\ \A i, j \in DOMAIN walk : i < j => d[i] < d[j]
    /\ \A x \in S : rank[x] \in Nat /\ \E i \in DOMAIN walk : walk[i] = x /\ rank[x] = d[i]

(***************************************************************************)
(* What GetN promises: the list of the n members of S that come first, in  *)
(* their order, as many of them as there are.                              *)
(***************************************************************************)
OwnerList(u, rank, S, n) ==
    /\ u \in Seq(S)
    /\ Len(u) = IF Cardinality(S) < n THEN Cardinality(S) ELSE n
    /\ \A i, j \in DOMAIN u : i < j => rank[u[i]] < rank[u[j]]
    /\ ToSet(u) = FirstN(rank, S, n)

(***************************************************************************)
(* The loop invariant.  After i steps the result is ascending and nobody   *)
(* left out comes before anybody in it; as long as there is room, it has   *)
(* everybody met so far.                                                   *)
(***************************************************************************)
LoopInv(u, i, walk, rank, S, n) ==
    /\ u \in Seq(S) /\ Len(u) <= n /\ Len(u) <= Cardinality(S)
    /\ \A j, k \in DOMAIN u : j < k => rank[u[j]] < rank[u[k]]
    /\ \A x \in ToSet(u), y \in S \ ToSet(u) : rank[x] < rank[y]
    /\ Len(u) < n /\ Len(u) < Cardinality(S) => ToSet(u) = {walk[j] : j \in 1 .. i}

LEMMA VisitKeepsLoopInv ==
    ASSUME NEW S, IsFiniteSet(S), NEW rank, NEW walk, NEW d, IsWalk(walk, d, rank, S),
           NEW n \in Nat, NEW i \in Nat, i + 1 \in DOMAIN walk,
           NEW u, LoopInv(u, i, walk, rank, S, n)
    PROVE  LoopInv(Visit(u, walk[i + 1], n, Cardinality(S)), i + 1, walk, rank, S, n)
<1> DEFINE x == walk[i + 1]
           met == {walk[j] : j \in 1 .. i}
           met1 == {walk[j] : j \in 1 .. i + 1}
<1>1. /\ Len(walk) \in Nat /\ DOMAIN walk = 1 .. Len(walk)
      /\ \A j \in 1 .. i + 1 : j \in DOMAIN walk /\ walk[j] \in S
  BY LenProperties, ElementOfSeq DEF IsWalk
<1>2. /\ u \in Seq(S) /\ Len(u) \in Nat /\ DOMAIN u = 1 .. Len(u) /\ Cardinality(S) \in Nat
      /\ \A k \in DOMAIN u : u[k] \in S
  BY LenProperties, ElementOfSeq, FS_CardinalityType DEF LoopInv
<1>3. x \in S /\ met1 = met \cup {x}
  <2>1. 1 .. i + 1 = (1 .. i) \cup {i + 1}
    OBVIOUS
  <2> QED
    BY <1>1, <2>1
<1>4. CASE Len(u) < n /\ Len(u) < Cardinality(S) /\ x \notin ToSet(u)
  <2> DEFINE v == Append(u, x)
  <2>1. Visit(u, x, n, Cardinality(S)) = v
    BY <1>4 DEF Visit
  <2>2. ToSet(u) = met
    BY <1>4 DEF LoopInv
  <2>3. /\ v \in Seq(S) /\ Len(v) = Len(u) + 1 /\ DOMAIN v = 1 .. Len(u) + 1
        /\ \A k \in 1 .. Len(u) : v[k] = u[k]
        /\ v[Len(u) + 1] = x
    BY <1>2, <1>3
  <2>4. ToSet(v) = ToSet(u) \cup {x}
    <3> HIDE DEF v, x
    <3>1. 1 .. Len(u) + 1 = (1 .. Len(u)) \cup {Len(u) + 1}
      BY <1>2
    <3> QED
      BY <1>2, <2>3, <3>1 DEF ToSet
  <2>5. ASSUME NEW y \in S, y \notin met
        PROVE  \E j \in DOMAIN walk : j >= i + 1 /\ walk[j] = y /\ rank[y] = d[j]
    <3>1. PICK j \in DOMAIN walk : walk[j] = y /\ rank[y] = d[j]
      BY DEF IsWalk
    <3>2. j \notin 1 .. i
      BY <2>5, <3>1
    <3> QED
      BY <1>1, <3>1, <3>2
  <2>6. rank[x] = d[i + 1] /\ d[i + 1] \in Nat
    <3>1. PICK j \in DOMAIN walk : j >= i + 1 /\ walk[j] = x /\ rank[x] = d[j]
      BY <1>3, <1>4, <2>2, <2>5
    <3>2. rank[x] <= d[i + 1] /\ d[i + 1] \in Nat /\ d[j] \in Nat
      BY <3>1 DEF IsWalk
    <3>3. j > i + 1 => d[i + 1] < d[j]
      BY DEF IsWalk
    <3> QED
      BY <1>1, <3>1, <3>2, <3>3
  <2>7. ASSUME NEW y \in S, y \notin ToSet(v) PROVE rank[x] < rank[y]
    <3>1. PICK j \in DOMAIN walk : j >= i + 1 /\ walk[j] = y /\ rank[y] = d[j]
      BY <2>2, <2>4, <2>5, <2>7
    <3>2. j # i + 1
      BY <2>4, <2>7, <3>1
    <3>3. j > i + 1 => d[i + 1] < d[j]
      BY DEF IsWalk
    <3> QED
      BY <1>1, <2>6, <3>1, <3>2, <3>3
  <2>8. \A w \in ToSet(u) : rank[w] < rank[x]
    BY <1>3, <1>4 DEF LoopInv
  <2> HIDE DEF v, x
  <2>9. ASSUME NEW j \in DOMAIN v, NEW k \in DOMAIN v, j < k PROVE rank[v[j]] < rank[v[k]]
    <3>1. CASE k \in 1 .. Len(u)
      <4>1. j \in 1 .. Len(u)
        BY <1>2, <2>3, <2>9, <3>1
      <4> QED
        BY <1>2, <2>3, <2>9, <3>1, <4>1 DEF LoopInv
    <3>2. CASE k = Len(u) + 1
      <4>1. j \in DOMAIN u /\ v[j] = u[j] /\ v[k] = x
        BY <1>2, <2>3, <2>9, <3>2
      <4> QED
        BY <2>8, <4>1 DEF ToSet
    <3> QED
      BY <1>2, <2>3, <3>1, <3>2
  <2>10. \A w \in ToSet(v), y \in S \ ToSet(v) : rank[w] < rank[y]
    BY <2>4, <2>7 DEF LoopInv
  <2>11. ToSet(v) = met1
    BY <1>3, <2>2, <2>4
  <2>12. Len(v) <= n /\ Len(v) <= Cardinality(S)
    BY <1>2, <1>4, <2>3
  <2>13. LoopInv(v, i + 1, walk, rank, S, n)
    <3> HIDE DEF met, met1
    <3> QED
      BY <2>3, <2>9, <2>10, <2>11, <2>12 DEF LoopInv, met1
  <2> QED
    BY <2>1, <2>13 DEF x
<1>5. CASE ~(Len(u) < n /\ Len(u) < Cardinality(S) /\ x \notin ToSet(u))
  <2>1. Visit(u, x, n, Cardinality(S)) = u
    BY <1>5 DEF Visit
  <2>2. Len(u) < n /\ Len(u) < Cardinality(S) => ToSet(u) = met1
    <3>1. Len(u) < n /\ Len(u) < Cardinality(S) => ToSet(u) = met
      BY DEF LoopInv
    <3> HIDE DEF x, met, met1
    <3> QED
      BY <1>3, <1>5, <3>1
  <2>3. LoopInv(u, i + 1, walk, rank, S, n)
    BY <2>2 DEF LoopInv
  <2> QED
    BY <2>1, <2>3
<1> QED
  BY <1>4, <1>5

(***************************************************************************)
(* A list whose ranks ascend has no repeats, so as many members as places; *)
(* and each of its members has as many members ahead of it as places.      *)
(***************************************************************************)
LEMMA PlaceIsCount ==
    ASSUME NEW S, NEW rank, \A x \in S : rank[x] \in Nat, NEW u \in Seq(S),
           \A i, j \in DOMAIN u : i < j => rank[u[i]] < rank[u[j]]
    PROVE  /\ IsFiniteSet(ToSet(u)) /\ Cardinality(ToSet(u)) = Len(u)
           /\ \A i, j \in DOMAIN u : u[i] = u[j] => i = j
           /\ \A i \in DOMAIN u : Cardinality(Before(rank, ToSet(u), u[i])) = i - 1
<1>1. /\ Len(u) \in Nat /\ DOMAIN u = 1 .. Len(u)
      /\ \A i \in DOMAIN u : u[i] \in S /\ rank[u[i]] \in Nat
  BY LenProperties, ElementOfSeq
<1>2. ASSUME NEW i \in DOMAIN u, NEW j \in DOMAIN u, u[i] = u[j] PROVE i = j
  <2>1. ~(i < j) /\ ~(j < i)
    BY <1>1, <1>2
  <2> QED
    BY <1>1, <2>1
<1>3. ASSUME NEW m \in Nat, m <= Len(u)
      PROVE  /\ IsFiniteSet({u[j] : j \in 1 .. m})
             /\ Cardinality({u[j] : j \in 1 .. m}) = m
  <2> DEFINE T == {u[j] : j \in 1 .. m}
             f == [j \in 1 .. m |-> u[j]]
  <2>1. \A j \in 1 .. m : j \in DOMAIN u
    BY <1>1, <1>3
  <2>2. f \in [1 .. m -> T] /\ \A t \in T : \E j \in 1 .. m : f[j] = t
    OBVIOUS
  <2>3. f \in Surjection(1 .. m, T)
    BY <2>2 DEF Surjection
  <2>4. f \in Injection(1 .. m, T)
    BY <1>2, <2>1, <2>2 DEF Injection, IsInjective
  <2>5. IsFiniteSet(1 .. m) /\ Cardinality(1 .. m) = m
    BY FS_Interval
  <2> HIDE DEF f, T
  <2>6. IsFiniteSet(T) /\ Cardinality(T) = Cardinality(1 .. m)
    BY <2>3, <2>4, <2>5, FS_Surjection
  <2> QED
    BY <2>5, <2>6 DEF T
<1>4. ToSet(u) = {u[j] : j \in 1 .. Len(u)}
  BY <1>1 DEF ToSet
<1>5. ASSUME NEW i \in DOMAIN u PROVE Cardinality(Before(rank, ToSet(u), u[i])) = i - 1
  <2>1. i - 1 \in Nat /\ i - 1 <= Len(u) /\ i \in Nat
    BY <1>1
  <2>2. \A j \in DOMAIN u : rank[u[j]] < rank[u[i]] <=> j \in 1 .. i - 1
    <3> SUFFICES ASSUME NEW j \in DOMAIN u PROVE rank[u[j]] < rank[u[i]] <=> j < i
      BY <1>1, <2>1
    <3>1. j < i => rank[u[j]] < rank[u[i]]
      OBVIOUS
    <3>2. i < j => rank[u[i]] < rank[u[j]]
      OBVIOUS
    <3> QED
      BY <1>1, <3>1, <3>2
  <2>3. \A j \in 1 .. i - 1 : j \in DOMAIN u
    BY <1>1, <2>1
  <2>4. Before(rank, ToSet(u), u[i]) = {u[j] : j \in 1 .. i - 1}
    BY <2>2, <2>3 DEF Before, ToSet
  <2> QED
    BY <1>3, <2>1, <2>4
<1>6. IsFiniteSet(ToSet(u)) /\ Cardinality(ToSet(u)) = Len(u)
  BY <1>1, <1>3, <1>4
<1> QED
  BY <1>2, <1>5, <1>6

(***************************************************************************)
(* The loop of GetN returns the first n members, in their order.           *)
(***************************************************************************)
LEMMA CollectIsOwnerList ==
    ASSUME NEW S, IsFiniteSet(S), NEW rank, NEW walk, NEW d, IsWalk(walk, d, rank, S),
           NEW n \in Nat
    PROVE  OwnerList(Collect(walk, n, Cardinality(S)), rank, S, n)
<1> DEFINE size == Cardinality(S)
           len == Len(walk)
           u == Collect(walk, n, size)
<1>1. len \in Nat /\ DOMAIN walk = 1 .. len /\ size \in Nat
  BY LenProperties, FS_CardinalityType DEF IsWalk
<1>2. PICK r : Runs(r, len, walk, n, size) /\ u = r[len]
  BY <1>1, CollectRuns
<1>3. \A i \in 0 .. len : r[i] = IF i = 0 THEN <<>> ELSE Visit(r[i - 1], walk[i], n, size)
  BY <1>2 DEF Runs
<1> DEFINE G == {i \in Nat : i <= len => LoopInv(r[i], i, walk, rank, S, n)}
<1>4. 0 \in G
  <2>1. r[0] = <<>>
    BY <1>1, <1>3
  <2>2. ToSet(<<>>) = {} /\ {walk[j] : j \in 1 .. 0} = {}
    BY DEF ToSet
  <2>3. LoopInv(<<>>, 0, walk, rank, S, n)
    BY <1>1, <2>2 DEF LoopInv
  <2> QED
    BY <2>1, <2>3
<1>5. ASSUME NEW i \in Nat, i \in G PROVE i + 1 \in G
  <2> SUFFICES ASSUME i + 1 <= len PROVE LoopInv(r[i + 1], i + 1, walk, rank, S, n)
    OBVIOUS
  <2>1. LoopInv(r[i], i, walk, rank, S, n)
    BY <1>1, <1>5
  <2>2. i + 1 \in DOMAIN walk /\ i + 1 \in 0 .. len /\ i + 1 # 0 /\ (i + 1) - 1 = i
    BY <1>1
  <2>3. r[i + 1] = Visit(r[i], walk[i + 1], n, size)
    BY <1>3, <2>2
  <2> QED
    BY <2>1, <2>2, <2>3, VisitKeepsLoopInv
<1>6. Nat \subseteq G
  <2> HIDE DEF G
  <2> QED
    BY <1>4, <1>5, InductiveSet
<1>7. LoopInv(u, len, walk, rank, S, n)
  BY <1>1, <1>2, <1>6
<1> HIDE DEF u, len, size
<1>8. /\ u \in Seq(S) /\ Len(u) <= n /\ Len(u) <= size /\ Len(u) \in Nat
      /\ \A j, k \in DOMAIN u : j < k => rank[u[j]] < rank[u[k]]
      /\ \A x \in ToSet(u), y \in S \ ToSet(u) : rank[x] < rank[y]
      /\ Len(u) < n /\ Len(u) < size => ToSet(u) = {walk[j] : j \in 1 .. len}
  BY <1>7, LenProperties DEF LoopInv, size
<1>9. \A x \in S : rank[x] \in Nat
  BY DEF IsWalk
<1>10. IsFiniteSet(ToSet(u)) /\ Cardinality(ToSet(u)) = Len(u)
  BY <1>8, <1>9, PlaceIsCount
<1>11. ToSet(u) \subseteq S
  BY <1>8, ElementOfSeq, LenProperties DEF ToSet
<1>12. Len(u) = IF size < n THEN size ELSE n
  <2>1. CASE Len(u) < n /\ Len(u) < size
    <3>1. ToSet(u) = S
      <4>1. \A x \in S : \E j \in 1 .. len : walk[j] = x
        BY <1>1 DEF IsWalk, len
      <4> QED
        BY <1>8, <1>11, <2>1, <4>1
    <3> QED
      BY <1>10, <2>1, <3>1, <1>1 DEF size
  <2> QED
    BY <1>1, <1>8, <2>1 DEF size
<1>13. ASSUME NEW x \in ToSet(u) PROVE x \in FirstN(rank, S, n)
  <2>1. Before(rank, S, x) \in SUBSET (ToSet(u) \ {x})
    <3> SUFFICES ASSUME NEW y \in S, rank[y] < rank[x] PROVE y \in ToSet(u) /\ y # x
      BY DEF Before
    <3>1. rank[x] \in Nat /\ rank[y] \in Nat
      BY <1>9, <1>11
    <3> QED
      BY <1>8, <3>1
  <2>2. IsFiniteSet(ToSet(u) \ {x}) /\ Cardinality(ToSet(u) \ {x}) = Len(u) - 1
    BY <1>10, FS_RemoveElement
  <2>3. /\ Cardinality(Before(rank, S, x)) <= Len(u) - 1
        /\ IsFiniteSet(Before(rank, S, x))
    BY <2>1, <2>2, FS_Subset
  <2>4. Cardinality(Before(rank, S, x)) \in Nat
    BY <2>3, FS_CardinalityType
  <2> QED
    BY <1>8, <1>11, <2>3, <2>4 DEF FirstN
<1>14. ASSUME NEW x \in FirstN(rank, S, n) PROVE x \in ToSet(u)
  <2>1. SUFFICES ASSUME x \notin ToSet(u) PROVE FALSE
    OBVIOUS
  <2>2. x \in S /\ Cardinality(Before(rank, S, x)) < n
    BY DEF FirstN
  <2>3. ToSet(u) \in SUBSET Before(rank, S, x)
    BY <1>8, <1>11, <2>1, <2>2 DEF Before
  <2>4. Before(rank, S, x) \in SUBSET (S \ {x})
    <3>1. rank[x] \in Nat
      BY <1>9, <2>2
    <3> QED
      BY <3>1 DEF Before
  <2>5. IsFiniteSet(S \ {x}) /\ Cardinality(S \ {x}) = size - 1
    BY <2>2, FS_RemoveElement DEF size
  <2>6. IsFiniteSet(Before(rank, S, x)) /\ Cardinality(Before(rank, S, x)) <= size - 1
    BY <2>4, <2>5, FS_Subset
  <2>7. Len(u) <= Cardinality(Before(rank, S, x)) /\ Cardinality(Before(rank, S, x)) \in Nat
    BY <1>10, <2>3, <2>6, FS_Subset, FS_CardinalityType
  <2>8. size \in Nat
    BY <1>1 DEF size
  <2> QED
    BY <1>8, <1>12, <2>2, <2>6, <2>7, <2>8
<1>15. ToSet(u) = FirstN(rank, S, n)
  BY <1>13, <1>14
<1> QED
  BY <1>8, <1>12, <1>15 DEF OwnerList, u, size

----------------------------------------------------------------------------
LEMMA MinOfNats ==
    ASSUME NEW S \in SUBSET Nat, S # {}
    PROVE  Min(S) \in S /\ \A x \in S : Min(S) <= x
<1>1. PICK least \in S : \A x \in S : ~(<<x, least>> \in OpToRel(<, Nat))
  BY WFMin, NatLessThanWellFounded
<1>2. \A x \in S : ~(x < least)
  BY <1>1 DEF OpToRel
<1>3. \A x \in S : least <= x
  BY <1>2
<1> QED
  BY <1>3 DEF Min

(***************************************************************************)
(* The walk comes past every position in the slice and past no other.      *)
(***************************************************************************)
LEMMA WalkMeetsAll ==
    ASSUME RingInv, NEW key \in Position
    PROVE  LET met == ClockwiseFrom(Search(key))
           IN  /\ DOMAIN met = DOMAIN sortedHashes
               /\ \A h : (\E i \in DOMAIN met : met[i] = h)
                             <=> (\E k \in DOMAIN sortedHashes : sortedHashes[k] = h)
<1> DEFINE s == sortedHashes
           len == Len(s)
           idx == Search(key)
           met == ClockwiseFrom(idx)
<1>1. len \in Nat /\ DOMAIN s = 1 .. len
  BY LenProperties DEF RingInv, TypeOK
<1>2. DOMAIN met = 1 .. len
  BY DEF ClockwiseFrom
<1>3. idx \in 0 .. len
  BY SearchSplits
<1>4. ASSUME NEW k \in 1 .. len
      PROVE  /\ idx + k <= len => idx + k \in 1 .. len /\ met[k] = s[idx + k]
             /\ ~(idx + k <= len) => idx + k - len \in 1 .. len /\ met[k] = s[idx + k - len]
  BY WalkSteps
<1> HIDE DEF s, len, idx, met
<1>5. ASSUME NEW i \in 1 .. len PROVE \E k \in 1 .. len : s[k] = met[i]
  BY <1>4
<1>6. ASSUME NEW k \in 1 .. len PROVE \E i \in 1 .. len : met[i] = s[k]
  <2>1. CASE idx < k
    <3>1. k - idx \in 1 .. len /\ idx + (k - idx) = k /\ k <= len
      BY <1>1, <1>3, <2>1
    <3> QED
      BY <1>4, <3>1
  <2>2. CASE ~(idx < k)
    <3>1. /\ k - idx + len \in 1 .. len /\ ~(idx + (k - idx + len) <= len)
          /\ idx + (k - idx + len) - len = k
      BY <1>1, <1>3, <2>2
    <3> QED
      BY <1>4, <3>1
  <2> QED
    BY <2>1, <2>2
<1> QED
  BY <1>1, <1>2, <1>5, <1>6 DEF s, met, idx

(***************************************************************************)
(* A node's rank is the distance of its nearest point.                     *)
(***************************************************************************)
LEMMA RankIsNearest ==
    ASSUME TypeOK, NEW key \in Position, NEW x \in Node
    PROVE  /\ RankFor(key)[x] \in Nat
           /\ \E h \in PointsOf(x) : RankFor(key)[x] = (h - key) % RingSize
           /\ \A h \in PointsOf(x) : RankFor(key)[x] <= (h - key) % RingSize
<1> DEFINE D == {(h - key) % RingSize : h \in PointsOf(x)}
<1>1. RingSize \in Nat \ {0} /\ \A h \in Position : h \in Nat
  BY HashRingAssumption DEF Position
<1>2. PointsOf(x) \subseteq Position
  BY PointsArePositions
<1>3. PointsOf(x) # {}
  <2>1. 0 \in Replica
    BY HashRingAssumption DEF Replica
  <2> QED
    BY <2>1 DEF PointsOf
<1>4. \A h \in PointsOf(x) : (h - key) % RingSize \in Nat
  BY <1>1, <1>2
<1>5. D \in SUBSET Nat /\ D # {}
  BY <1>3, <1>4
<1>6. RankFor(key)[x] = Min(D)
  BY DEF RankFor, Distance
<1>7. Min(D) \in D /\ \A y \in D : Min(D) <= y
  <2> HIDE DEF D
  <2> QED
    BY <1>5, MinOfNats
<1> QED
  BY <1>5, <1>6, <1>7

(***************************************************************************)
(* No two nodes have the same rank: they share no point.                   *)
(***************************************************************************)
LEMMA RanksDiffer ==
    ASSUME RingInv, NEW key \in Position, NEW x \in Node, NEW y \in Node,
           RankFor(key)[x] = RankFor(key)[y]
    PROVE  x = y
<1>1. TypeOK
  BY DEF RingInv
<1>2. PICK g \in PointsOf(x) : RankFor(key)[x] = (g - key) % RingSize
  BY <1>1, RankIsNearest
<1>3. PICK h \in PointsOf(y) : RankFor(key)[y] = (h - key) % RingSize
  BY <1>1, RankIsNearest
<1>4. g \in Position /\ h \in Position
  BY <1>1, PointsArePositions
<1>5. RingSize \in Nat \ {0} /\ \A p \in Position : p \in Nat /\ p < RingSize
  BY HashRingAssumption DEF Position
<1>6. \A p \in Position :
          (p - key) % RingSize = IF p < key THEN p - key + RingSize ELSE p - key
  <2> SUFFICES ASSUME NEW p \in Position
               PROVE  (p - key) % RingSize = IF p < key THEN p - key + RingSize ELSE p - key
    OBVIOUS
  <2>1. p \in Nat /\ p < RingSize /\ key \in Nat /\ key < RingSize
    BY <1>5
  <2>2. p - key \in Int /\ -RingSize <= p - key /\ p - key < RingSize
    BY <1>5, <2>1
  <2>3. CASE p < key
    <3>1. p - key < 0
      BY <2>1, <2>3
    <3> QED
      BY <1>5, <2>2, <2>3, <3>1, OnceRound
  <2>4. CASE ~(p < key)
    <3>1. 0 <= p - key
      BY <2>1, <2>4
    <3> QED
      BY <1>5, <2>2, <2>4, <3>1, OnceRound
  <2> QED
    BY <2>3, <2>4
<1>7. (g - key) % RingSize = (h - key) % RingSize
  BY <1>2, <1>3
<1>8. g = h
  <2>1. /\ (g - key) % RingSize = IF g < key THEN g - key + RingSize ELSE g - key
        /\ (h - key) % RingSize = IF h < key THEN h - key + RingSize ELSE h - key
    BY <1>4, <1>6
  <2>2. /\ (IF g < key THEN g - key + RingSize ELSE g - key)
            = (IF h < key THEN h - key + RingSize ELSE h - key)
    BY <1>7, <2>1
  <2>3. g \in Nat /\ h \in Nat /\ key \in Nat /\ g < RingSize /\ h < RingSize /\ RingSize \in Nat
    BY <1>4, <1>5
  <2> QED
    BY <2>2, <2>3
<1> QED
  BY <1>8, PointsAreDisjoint

(***************************************************************************)
(* GetN's walk meets the nodes on the ring in the order of their ranks.    *)
(***************************************************************************)
LEMMA RingWalk ==
    ASSUME RingInv, NEW key \in Position
    PROVE  \E d : IsWalk(Clockwise(Search(key)), d, RankFor(key), nodes)
<1> DEFINE met == ClockwiseFrom(Search(key))
           walk == Clockwise(Search(key))
           rank == RankFor(key)
           d == [i \in DOMAIN sortedHashes |-> (met[i] - key) % RingSize]
<1>1. TypeOK /\ WalkGoesClockwise
  BY InvMakesWalkClockwise DEF RingInv
<1>2. /\ DOMAIN met = DOMAIN sortedHashes
      /\ \A h : (\E i \in DOMAIN met : met[i] = h)
                    <=> (\E k \in DOMAIN sortedHashes : sortedHashes[k] = h)
  BY WalkMeetsAll
<1>3. /\ Len(sortedHashes) \in Nat /\ DOMAIN sortedHashes = 1 .. Len(sortedHashes)
      /\ \A k \in DOMAIN sortedHashes : sortedHashes[k] \in Position
  BY <1>1, LenProperties, ElementOfSeq DEF TypeOK
<1>4. /\ DOMAIN walk = DOMAIN sortedHashes
      /\ \A i \in DOMAIN walk : walk[i] = hashToNode[met[i]]
      /\ walk = [i \in DOMAIN sortedHashes |-> hashToNode[met[i]]]
  BY DEF Clockwise
<1>5. \A i \in DOMAIN met : d[i] = (met[i] - key) % RingSize
  BY <1>2
<1>6. \A i, j \in DOMAIN met : i < j => d[i] < d[j]
  <2> HIDE DEF d
  <2>1. \A i, j \in DOMAIN met :
            i < j => (met[i] - key) % RingSize < (met[j] - key) % RingSize
    BY <1>1 DEF WalkGoesClockwise
  <2> QED
    BY <1>5, <2>1
<1>7. RingSize \in Nat \ {0} /\ \A h \in Position : h \in Nat
  BY HashRingAssumption DEF Position
<1> HIDE DEF d, met, walk
<1>8. ASSUME NEW i \in DOMAIN walk
      PROVE  /\ met[i] \in Position /\ walk[i] \in nodes /\ met[i] \in PointsOf(walk[i])
             /\ d[i] \in Nat /\ rank[walk[i]] <= d[i]
  <2>1. met[i] \in Position /\ \E k \in DOMAIN sortedHashes : sortedHashes[k] = met[i]
    BY <1>2, <1>3, <1>4
  <2>2. walk[i] = hashToNode[met[i]] /\ walk[i] \in Node
    BY <1>4, <2>1 DEF RingInv
  <2>3. walk[i] \in nodes /\ met[i] \in PointsOf(walk[i])
    BY <2>1, <2>2 DEF RingInv
  <2>4. d[i] = (met[i] - key) % RingSize
    BY <1>2, <1>4, <1>5
  <2>5. d[i] \in Nat
    BY <1>7, <2>1, <2>4
  <2>6. rank[walk[i]] <= (met[i] - key) % RingSize
    BY <1>1, <2>2, <2>3, RankIsNearest
  <2> QED
    BY <2>1, <2>3, <2>4, <2>5, <2>6
<1>9. walk \in Seq(nodes)
  <2>1. walk \in [1 .. Len(sortedHashes) -> nodes]
    BY <1>3, <1>4, <1>8
  <2> QED
    BY <1>3, <2>1
<1>10. ASSUME NEW x \in nodes
       PROVE  rank[x] \in Nat /\ \E i \in DOMAIN walk : walk[i] = x /\ rank[x] = d[i]
  <2>1. x \in Node
    BY <1>1 DEF TypeOK
  <2>2. rank[x] \in Nat /\ \E h \in PointsOf(x) : rank[x] = (h - key) % RingSize
    BY <1>1, <2>1, RankIsNearest
  <2>3. PICK h \in PointsOf(x) : rank[x] = (h - key) % RingSize
    BY <2>2
  <2>4. h \in Position
    BY <1>1, <2>1, PointsArePositions
  <2>5. hashToNode[h] = x
    BY <2>1, <2>4 DEF RingInv
  <2>6. \E k \in DOMAIN sortedHashes : sortedHashes[k] = h
    BY <2>1, <2>4, <2>5 DEF RingInv
  <2>7. PICK i \in DOMAIN met : met[i] = h
    BY <1>2, <2>6
  <2> QED
    BY <1>2, <1>4, <1>5, <2>2, <2>3, <2>5, <2>7
<1>11. IsWalk(walk, d, rank, nodes)
  <2> HIDE DEF rank
  <2> QED
    BY <1>2, <1>4, <1>6, <1>8, <1>9, <1>10 DEF IsWalk
<1> QED
  BY <1>11 DEF walk

(***************************************************************************)
(* GetN returns the owner list of its key, whatever the ring.              *)
(***************************************************************************)
LEMMA GetNLists ==
    RingInv => \A key \in Position, n \in Nat :
                   OwnerList(GetN(key, n), RankFor(key), nodes, n)
<1> SUFFICES ASSUME RingInv, NEW key \in Position, NEW n \in Nat
             PROVE  OwnerList(GetN(key, n), RankFor(key), nodes, n)
  OBVIOUS
<1>1. IsFiniteSet(nodes)
  BY HashRingAssumption, FS_Subset DEF RingInv, TypeOK
<1>2. PICK d : IsWalk(Clockwise(Search(key)), d, RankFor(key), nodes)
  BY RingWalk
<1> QED
  BY <1>1, <1>2, CollectIsOwnerList DEF GetN

LEMMA InvMakesGetNPreference == RingInv => GetNIsPreference
<1> SUFFICES ASSUME RingInv, NEW key \in Position, NEW n \in 0 .. Cardinality(Node)
             PROVE  LET rank == RankFor(key)
                        got == GetN(key, n)
                    IN  /\ ToSet(got) = FirstN(rank, nodes, n)
                        /\ \A i, j \in DOMAIN got : i < j => rank[got[i]] < rank[got[j]]
                        /\ nodes # {} => Before(rank, nodes, Get(key)) = {}
  BY DEF GetNIsPreference
<1>1. n \in Nat
  BY FS_CardinalityType, HashRingAssumption
<1>2. /\ OwnerList(GetN(key, n), RankFor(key), nodes, n)
      /\ OwnerList(GetN(key, 1), RankFor(key), nodes, 1)
  BY <1>1, GetNLists
<1>3. ASSUME nodes # {} PROVE Before(RankFor(key), nodes, Get(key)) = {}
  <2> DEFINE one == GetN(key, 1)
             rank == RankFor(key)
  <2>1. TypeOK /\ nodes \subseteq Node /\ IsFiniteSet(nodes)
    BY HashRingAssumption, FS_Subset DEF RingInv, TypeOK
  <2>2. \A x \in nodes : rank[x] \in Nat
    BY <2>1, RankIsNearest
  <2>3. FirstN(rank, nodes, 1) # {}
    <3> HIDE DEF rank
    <3> QED
      BY <1>3, <2>2, OwnersExist
  <2> HIDE DEF one, rank
  <2>4. one \in Seq(nodes) /\ ToSet(one) = FirstN(rank, nodes, 1)
    BY <1>2 DEF OwnerList, one, rank
  <2>5. /\ Len(one) \in Nat /\ DOMAIN one = 1 .. Len(one) /\ one # <<>>
        /\ one[1] \in ToSet(one)
    <3>1. DOMAIN one # {}
      BY <2>3, <2>4 DEF ToSet
    <3>2. Len(one) \in Nat /\ DOMAIN one = 1 .. Len(one)
      BY <2>4, LenProperties
    <3>3. 1 \in DOMAIN one
      BY <3>1, <3>2
    <3> QED
      BY <3>1, <3>2, <3>3 DEF ToSet
  <2>6. Get(key) = one[1]
    BY <2>5 DEF Get, one
  <2>7. Cardinality(Before(rank, nodes, Get(key))) < 1
    BY <2>4, <2>5, <2>6 DEF FirstN
  <2>8. IsFiniteSet(Before(rank, nodes, Get(key)))
    <3>1. Before(rank, nodes, Get(key)) \in SUBSET nodes
      BY DEF Before
    <3> QED
      BY <2>1, <3>1, FS_Subset
  <2>9. Before(rank, nodes, Get(key)) = {}
    BY <2>7, <2>8, FS_EmptySet, FS_CardinalityType
  <2> QED
    BY <2>9 DEF rank
<1> QED
  BY <1>2, <1>3 DEF OwnerList

(***************************************************************************)
(* GetN, the search, the walk with its wrap-around and the loop with its   *)
(* early exits, returns the n nodes nearest to the key, nearest first, and *)
(* Get the nearest: for any ring, key, n and history of joins and leaves,  *)
(* so the modules that use FirstN in the place of the ring may.            *)
(***************************************************************************)
THEOREM GetNIsAlwaysPreference == Spec => []GetNIsPreference
<1>1. Spec => []RingInv
  BY RingInvInit, RingInvPreserved, PTL DEF Spec
<1> QED
  BY <1>1, InvMakesGetNPreference, PTL

----------------------------------------------------------------------------
(***************************************************************************)
(* A list in the order of rank.                                            *)
(***************************************************************************)
Ascending(u, rank) == \A i, j \in DOMAIN u : i < j => rank[u[i]] < rank[u[j]]

(***************************************************************************)
(* The lists of two sets in the same order: when nobody of the larger set  *)
(* comes before anybody of the smaller without being in it, the list of    *)
(* the smaller is how the list of the larger begins.                       *)
(***************************************************************************)
LEMMA InitialListIsPrefix ==
    ASSUME NEW S, NEW rank, \A x \in S : rank[x] \in Nat,
           NEW u \in Seq(S), NEW v \in Seq(S), Ascending(u, rank), Ascending(v, rank),
           ToSet(u) \subseteq ToSet(v),
           \A x \in ToSet(u), y \in ToSet(v) : rank[y] < rank[x] => y \in ToSet(u)
    PROVE  IsPrefix(u, v)
<1>1. /\ Len(u) \in Nat /\ DOMAIN u = 1 .. Len(u) /\ Len(v) \in Nat /\ DOMAIN v = 1 .. Len(v)
      /\ \A i \in DOMAIN u : u[i] \in S
  BY LenProperties, ElementOfSeq
<1>2. /\ IsFiniteSet(ToSet(v)) /\ Cardinality(ToSet(u)) = Len(u)
      /\ Cardinality(ToSet(v)) = Len(v)
      /\ \A i \in DOMAIN u : Cardinality(Before(rank, ToSet(u), u[i])) = i - 1
      /\ \A i \in DOMAIN v : Cardinality(Before(rank, ToSet(v), v[i])) = i - 1
  BY PlaceIsCount DEF Ascending
<1>3. Len(u) <= Len(v)
  BY <1>2, FS_Subset
<1>4. ASSUME NEW i \in DOMAIN u PROVE i \in DOMAIN v /\ v[i] = u[i]
  <2>1. u[i] \in ToSet(u) /\ u[i] \in ToSet(v)
    BY DEF ToSet
  <2>2. PICK k \in DOMAIN v : v[k] = u[i]
    BY <2>1 DEF ToSet
  <2>3. Before(rank, ToSet(u), u[i]) = Before(rank, ToSet(v), u[i])
    BY <2>1 DEF Before
  <2>4. i - 1 = k - 1
    BY <1>2, <2>2, <2>3
  <2> QED
    BY <1>1, <2>2, <2>4
<1>5. SubSeq(u, 1, Len(u)) = SubSeq(v, 1, Len(u))
  <2>1. SubSeq(u, 1, Len(u)) = [i \in 1 .. Len(u) |-> u[i]]
    BY <1>1
  <2>2. SubSeq(v, 1, Len(u)) = [i \in 1 .. Len(u) |-> v[i]]
    BY <1>1, <1>3
  <2> QED
    BY <1>1, <1>4, <2>1, <2>2
<1> QED
  BY <1>3, <1>5 DEF IsPrefix

(***************************************************************************)
(* Taking a member out of an ascending list takes out that member alone.   *)
(***************************************************************************)
LEMMA RemoveFirstKeepsOrder ==
    ASSUME NEW S, NEW rank, \A x \in S : rank[x] \in Nat,
           NEW u \in Seq(S), Ascending(u, rank), NEW e
    PROVE  /\ RemoveFirst(u, e) \in Seq(S) /\ Ascending(RemoveFirst(u, e), rank)
           /\ ToSet(RemoveFirst(u, e)) = ToSet(u) \ {e}
<1> DEFINE w == RemoveFirst(u, e)
<1>1. /\ Len(u) \in Nat /\ DOMAIN u = 1 .. Len(u)
      /\ \A i \in DOMAIN u : u[i] \in S
  BY LenProperties, ElementOfSeq
<1>2. \A i, j \in DOMAIN u : u[i] = u[j] => i = j
  BY PlaceIsCount DEF Ascending
<1>3. CASE ~ \E i \in DOMAIN u : u[i] = e
  <2>1. w = u
    BY <1>1, <1>3 DEF RemoveFirst
  <2> QED
    BY <1>3, <2>1 DEF ToSet
<1>4. ASSUME NEW p \in DOMAIN u, u[p] = e
      PROVE  w \in Seq(S) /\ Ascending(w, rank) /\ ToSet(w) = ToSet(u) \ {e}
  <2>1. w = RemoveAt(u, p)
    <3> DEFINE I == {i \in 1 .. Len(u) : u[i] = e}
    <3>1. w = RemoveAt(u, IF I # {} THEN Min(I) ELSE 0)
      BY <1>1, <1>4 DEF RemoveFirst, SelectInSeq
    <3>2. I = {p}
      BY <1>1, <1>2, <1>4
    <3>3. Min({p}) = p
      BY <1>1 DEF Min
    <3> QED
      BY <3>1, <3>2, <3>3
  <2>2. w = [i \in 1 .. Len(u) - 1 |-> u[IF i < p THEN i ELSE i + 1]]
    <3>1. p \in 1 .. Len(u)
      BY <1>1
    <3> DEFINE a == SubSeq(u, 1, p - 1)
               b == SubSeq(u, p + 1, Len(u))
    <3>2. /\ a \in Seq(S) /\ Len(a) = p - 1
          /\ \A i \in 1 .. p - 1 : a[i] = u[i]
      BY <1>1, <3>1
    <3>3. /\ b \in Seq(S) /\ Len(b) = Len(u) - p
          /\ \A i \in 1 .. Len(u) - p : b[i] = u[i + p]
      <4>1. \A i \in p + 1 .. Len(u) : u[i] \in S
        BY <1>1, <3>1
      <4>2. p + 1 \in Int /\ Len(u) \in Int
        BY <1>1, <3>1
      <4>3. /\ b \in Seq(S)
            /\ Len(b) = IF p + 1 <= Len(u) THEN (Len(u) - (p + 1)) + 1 ELSE 0
            /\ \A i \in 1 .. (Len(u) - (p + 1)) + 1 : b[i] = u[((p + 1) + i) - 1]
        BY <4>1, <4>2, SubSeqProperties
      <4>4. (Len(u) - (p + 1)) + 1 = Len(u) - p
        BY <1>1, <3>1
      <4>5. \A i \in 1 .. Len(u) - p : ((p + 1) + i) - 1 = i + p
        BY <1>1, <3>1
      <4>6. Len(b) = Len(u) - p
        BY <1>1, <3>1, <4>3, <4>4
      <4> HIDE DEF b
      <4> QED
        BY <4>3, <4>4, <4>5, <4>6
    <3> HIDE DEF a, b
    <3>4. w = a \o b
      BY <2>1 DEF RemoveAt, a, b
    <3>5. Len(a) + Len(b) = Len(u) - 1
      BY <1>1, <3>1, <3>2, <3>3
    <3> HIDE DEF w
    <3>6. /\ w \in Seq(S) /\ Len(w) = Len(u) - 1
          /\ \A i \in 1 .. Len(u) - 1 : w[i] = IF i <= p - 1 THEN a[i] ELSE b[i - (p - 1)]
      <4>1. /\ a \o b \in Seq(S) /\ Len(a \o b) = Len(a) + Len(b)
            /\ \A i \in 1 .. Len(a) + Len(b) :
                   (a \o b)[i] = IF i <= Len(a) THEN a[i] ELSE b[i - Len(a)]
        BY <3>2, <3>3, ConcatProperties
      <4> QED
        BY <3>2, <3>4, <3>5, <4>1, Zenon
    <3>7. ASSUME NEW i \in 1 .. Len(u) - 1 PROVE w[i] = u[IF i < p THEN i ELSE i + 1]
      <4>1. CASE i < p
        BY <1>1, <3>1, <3>2, <3>6, <4>1
      <4>2. CASE ~(i < p)
        <5>1. i - (p - 1) \in 1 .. Len(u) - p /\ (i - (p - 1)) + p = i + 1 /\ ~(i <= p - 1)
          BY <1>1, <3>1, <4>2
        <5> QED
          BY <3>3, <3>6, <4>2, <5>1
      <4> QED
        BY <4>1, <4>2
    <3>8. w = [i \in 1 .. Len(u) - 1 |-> w[i]]
      BY <1>1, <3>6, LenProperties
    <3> QED
      BY <3>7, <3>8
  <2> HIDE DEF w
  <2>3. /\ w \in [1 .. Len(u) - 1 -> S] /\ Len(u) - 1 \in Nat
        /\ \A i \in 1 .. Len(u) - 1 : (IF i < p THEN i ELSE i + 1) \in DOMAIN u
    BY <1>1, <2>2
  <2>4. w \in Seq(S) /\ DOMAIN w = 1 .. Len(u) - 1
    BY <2>3
  <2>5. Ascending(w, rank)
    <3> SUFFICES ASSUME NEW i \in DOMAIN w, NEW j \in DOMAIN w, i < j
                 PROVE  rank[w[i]] < rank[w[j]]
      BY DEF Ascending
    <3> DEFINE k == IF i < p THEN i ELSE i + 1
               l == IF j < p THEN j ELSE j + 1
    <3>1. k \in DOMAIN u /\ l \in DOMAIN u /\ w[i] = u[k] /\ w[j] = u[l]
      BY <2>2, <2>3, <2>4
    <3>2. k < l
      BY <1>1, <2>4
    <3> HIDE DEF k, l
    <3> QED
      BY <3>1, <3>2 DEF Ascending
  <2>6. ASSUME NEW i \in DOMAIN u, i # p
        PROVE  \E k \in DOMAIN w : w[k] = u[i]
    <3>1. CASE i < p
      BY <1>1, <2>2, <2>4, <3>1
    <3>2. CASE p < i
      <4>1. i - 1 \in DOMAIN w /\ ~(i - 1 < p) /\ (i - 1) + 1 = i
        BY <1>1, <2>4, <3>2
      <4> QED
        BY <2>2, <2>4, <4>1
    <3> QED
      BY <1>1, <2>6, <3>1, <3>2
  <2>7. \A k \in DOMAIN w : \E i \in DOMAIN u : i # p /\ w[k] = u[i]
    BY <1>1, <2>2, <2>3, <2>4
  <2> QED
    BY <1>2, <1>4, <2>4, <2>5, <2>6, <2>7 DEF ToSet
<1> QED
  BY <1>1, <1>3, <1>4

(***************************************************************************)
(* One member less: everybody else keeps its place.                        *)
(***************************************************************************)
LEMMA OthersKeepPlaces ==
    ASSUME NEW S, IsFiniteSet(S), NEW rank, \A x \in S : rank[x] \in Nat, NEW n \in Nat, NEW e,
           NEW u, OwnerList(u, rank, S, n), NEW v, OwnerList(v, rank, S \ {e}, n)
    PROVE  IsPrefix(RemoveFirst(u, e), v)
<1> DEFINE w == RemoveFirst(u, e)
<1>1. /\ u \in Seq(S) /\ Ascending(u, rank) /\ ToSet(u) = FirstN(rank, S, n)
      /\ Ascending(v, rank) /\ ToSet(v) = FirstN(rank, S \ {e}, n)
  BY DEF OwnerList, Ascending
<1>2. v \in Seq(S)
  <2>1. v \in Seq(S \ {e})
    BY DEF OwnerList
  <2> QED
    BY <2>1, LenProperties, ElementOfSeq
<1>3. w \in Seq(S) /\ Ascending(w, rank) /\ ToSet(w) = ToSet(u) \ {e}
  BY <1>1, RemoveFirstKeepsOrder
<1> HIDE DEF w
<1>4. ToSet(w) \subseteq ToSet(v)
  <2>1. FirstN(rank, S, n) \cap (S \ {e}) \subseteq FirstN(rank, S \ {e}, n)
    BY LeaveKeepsOwners
  <2>2. FirstN(rank, S, n) \subseteq S
    BY DEF FirstN
  <2> QED
    BY <1>1, <1>3, <2>1, <2>2
<1>5. ASSUME NEW x \in ToSet(w), NEW y \in ToSet(v), rank[y] < rank[x]
      PROVE  y \in ToSet(w)
  <2>1. y \in S /\ y # e /\ x \in FirstN(rank, S, n)
    BY <1>1, <1>3 DEF FirstN
  <2>2. y \in FirstN(rank, S, n)
    BY <1>5, <2>1, OwnersAreInitial
  <2> QED
    BY <1>1, <1>3, <2>1, <2>2
<1>6. IsPrefix(w, v)
  BY <1>1, <1>2, <1>3, <1>4, <1>5, InitialListIsPrefix
<1> QED
  BY <1>6 DEF w

(***************************************************************************)
(* An owner list has nobody twice and is as long as the ring allows.       *)
(***************************************************************************)
LEMMA OwnerListIsFull ==
    ASSUME NEW S, IsFiniteSet(S), NEW rank, \A x \in S : rank[x] \in Nat, NEW n \in Nat,
           NEW u, OwnerList(u, rank, S, n)
    PROVE  u \in Injection(1 .. (IF Cardinality(S) < n THEN Cardinality(S) ELSE n), S)
<1>1. /\ u \in Seq(S) /\ Ascending(u, rank)
      /\ Len(u) = IF Cardinality(S) < n THEN Cardinality(S) ELSE n
  BY DEF OwnerList, Ascending
<1>2. u \in [1 .. Len(u) -> S]
  BY <1>1, LenProperties, ElementOfSeq
<1>3. \A i, j \in DOMAIN u : u[i] = u[j] => i = j
  BY <1>1, PlaceIsCount DEF Ascending
<1> QED
  BY <1>1, <1>2, <1>3 DEF Injection, IsInjective

(***************************************************************************)
(* The lists GetN returns at the replication factor.                       *)
(***************************************************************************)
RingLists ==
    /\ IsFiniteSet(nodes) /\ nodes \subseteq Node
    /\ \A key \in Position :
           /\ OwnerList(GetN(key, Factor), RankFor(key), nodes, Factor)
           /\ \A x \in Node : RankFor(key)[x] \in Nat

LEMMA InvGivesLists == RingInv => RingLists
<1> SUFFICES ASSUME RingInv PROVE RingLists
  OBVIOUS
<1>1. TypeOK /\ nodes \subseteq Node /\ IsFiniteSet(nodes) /\ Factor \in Nat
  BY HashRingAssumption, FS_Subset DEF RingInv, TypeOK
<1> QED
  BY <1>1, GetNLists, RankIsNearest DEF RingLists

(***************************************************************************)
(* On the empty ring every lookup returns the empty list.                  *)
(***************************************************************************)
LEMMA InitImplements == Init => Promise!Init
<1> SUFFICES ASSUME Init PROVE Promise!Init
  OBVIOUS
<1>1. RingLists
  BY RingInvInit, InvGivesLists
<1>2. nodes = {}
  BY DEF Init, New
<1>3. ASSUME NEW key \in Position PROVE GetN(key, Factor) = <<>>
  <2>1. GetN(key, Factor) \in Seq({})
    BY <1>1, <1>2 DEF RingLists, OwnerList
  <2> QED
    BY <2>1, LenProperties, ElementOfSeq, EmptySeq
<1> QED
  BY <1>2, <1>3 DEF Promise!Init

(***************************************************************************)
(* What module Placement brings along under its own name is what is here.  *)
(***************************************************************************)
LEMMA SameOperators ==
    /\ \A S : Promise!Cardinality(S) = Cardinality(S)
    /\ \A S, T : Promise!Injection(S, T) = Injection(S, T)
    /\ \A s, t : Promise!IsPrefix(s, t) = IsPrefix(s, t)
    /\ \A s, e : Promise!RemoveFirst(s, e) = RemoveFirst(s, e)
<1>1. \A S : Promise!Cardinality(S) = Cardinality(S)
  BY Zenon DEF Promise!Cardinality, Cardinality
<1>2. \A S, T : Promise!Injection(S, T) = Injection(S, T)
  BY DEF Promise!Injection, Injection, Promise!IsInjective, IsInjective
<1>3. \A s, t : Promise!IsPrefix(s, t) = IsPrefix(s, t)
  BY DEF Promise!IsPrefix, IsPrefix
<1>4. \A s, e : Promise!RemoveFirst(s, e) = RemoveFirst(s, e)
  BY DEF Promise!RemoveFirst, RemoveFirst, Promise!RemoveAt, RemoveAt,
         Promise!SelectInSeq, SelectInSeq, Promise!Min, Min
<1> QED
  BY <1>1, <1>2, <1>3, <1>4

(***************************************************************************)
(* A join or a leave of the ring is one of the promise, for all keys at    *)
(* once: the ranks are fixed by the points, so the lists before and after  *)
(* are owner lists of the same order.                                      *)
(***************************************************************************)
LEMMA StepImplements == RingLists /\ RingLists' /\ [Next]_vars => [Promise!Next]_(Promise!vars)
<1> SUFFICES ASSUME RingLists, RingLists', [Next]_vars
             PROVE  [Promise!Next]_(Promise!vars)
  OBVIOUS
<1>1. /\ IsFiniteSet(nodes) /\ nodes \subseteq Node
      /\ \A key \in Position : /\ OwnerList(GetN(key, Factor), RankFor(key), nodes, Factor)
                               /\ \A x \in Node : RankFor(key)[x] \in Nat
  BY DEF RingLists
<1>2. /\ IsFiniteSet(nodes') /\ nodes' \subseteq Node
      /\ \A key \in Position : OwnerList(GetN(key, Factor)', RankFor(key)', nodes', Factor)
  BY DEF RingLists
<1>3. ASSUME vhash' = vhash, NEW key \in Position PROVE RankFor(key)' = RankFor(key)
  BY <1>3 DEF RankFor, Distance, PointsOf
<1>4. ASSUME vhash' = vhash, NEW key \in Position
      PROVE  GetN(key, Factor)' \in Promise!FullLists(nodes')
  <2>1. OwnerList(GetN(key, Factor)', RankFor(key), nodes', Factor)
    BY <1>2, <1>3, <1>4
  <2>2. Factor \in Nat /\ \A x \in nodes' : RankFor(key)[x] \in Nat
    BY <1>1, <1>2, HashRingAssumption
  <2>3. GetN(key, Factor)' \in Injection(1 .. (IF Cardinality(nodes') < Factor
                                               THEN Cardinality(nodes') ELSE Factor), nodes')
    BY <1>2, <2>1, <2>2, OwnerListIsFull
  <2> QED
    BY <2>3, SameOperators DEF Promise!FullLists
<1>5. ASSUME NEW n \in Node, AddNode(n) PROVE Promise!Join(n)
  <2>1. n \notin nodes /\ nodes' = nodes \cup {n} /\ vhash' = vhash /\ nodes = nodes' \ {n}
    BY <1>5 DEF AddNode
  <2>2. ASSUME NEW key \in Position
        PROVE  IsPrefix(RemoveFirst(GetN(key, Factor)', n), GetN(key, Factor))
    <3>1. /\ OwnerList(GetN(key, Factor)', RankFor(key), nodes', Factor)
          /\ OwnerList(GetN(key, Factor), RankFor(key), nodes' \ {n}, Factor)
      BY <1>1, <1>2, <1>3, <2>1
    <3>2. Factor \in Nat /\ \A x \in nodes' : RankFor(key)[x] \in Nat
      BY <1>1, <1>2, HashRingAssumption
    <3> QED
      BY <1>2, <3>1, <3>2, OthersKeepPlaces
  <2> QED
    BY <1>4, <2>1, <2>2, SameOperators DEF Promise!Join, Promise!Without
<1>6. ASSUME NEW n \in Node, RemoveNode(n) PROVE Promise!Leave(n)
  <2>1. n \in nodes /\ nodes' = nodes \ {n} /\ vhash' = vhash
    BY <1>6 DEF RemoveNode
  <2>2. ASSUME NEW key \in Position
        PROVE  IsPrefix(RemoveFirst(GetN(key, Factor), n), GetN(key, Factor)')
    <3>1. /\ OwnerList(GetN(key, Factor), RankFor(key), nodes, Factor)
          /\ OwnerList(GetN(key, Factor)', RankFor(key), nodes \ {n}, Factor)
      BY <1>1, <1>2, <1>3, <2>1
    <3>2. Factor \in Nat /\ \A x \in nodes : RankFor(key)[x] \in Nat
      BY <1>1, HashRingAssumption
    <3> QED
      BY <1>1, <3>1, <3>2, OthersKeepPlaces
  <2> QED
    BY <1>4, <2>1, <2>2, SameOperators DEF Promise!Leave, Promise!Without
<1>7. CASE UNCHANGED vars
  BY <1>7 DEF vars, Promise!vars, GetN, Clockwise, ClockwiseFrom, Search, Collect, Visit
<1> QED
  BY <1>5, <1>6, <1>7 DEF Next, Promise!Next

(***************************************************************************)
(* The ring keeps the promise of module Placement, whatever its size, its  *)
(* points and its history: AddNode and RemoveNode move nobody else's place *)
(* in what GetN(key, replication.Factor) returns for any key, and no list  *)
(* is ever short or repeats a node.  It is why repair after one failure has *)
(* only the chunks of the node concerned to move.                          *)
(***************************************************************************)
THEOREM RingImplementsPlacement == Spec => ImplementsPlacement
<1>1. Spec => []RingLists
  <2>1. Spec => []RingInv
    BY RingInvInit, RingInvPreserved, PTL DEF Spec
  <2> QED
    BY <2>1, InvGivesLists, PTL
<1> QED
  BY <1>1, InitImplements, StepImplements, PTL DEF Spec, ImplementsPlacement, Promise!Spec
=============================================================================
