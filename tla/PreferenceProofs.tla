-------------------------- MODULE PreferenceProofs --------------------------
(***************************************************************************)
(* Minimal disruption, for rings and preference orders of any size: the    *)
(* facts about FirstN (that is, about GetN) that repair relies on.         *)
(***************************************************************************)
EXTENDS Preference, FiniteSetTheorems, WellFoundedInduction, TLAPS

(***************************************************************************)
(* Fewer members, fewer of them ahead of x.                                *)
(***************************************************************************)
LEMMA BeforeMonotone ==
    ASSUME NEW S, IsFiniteSet(S), NEW T \in SUBSET S, NEW rank, NEW x
    PROVE  /\ IsFiniteSet(Before(rank, T, x)) /\ IsFiniteSet(Before(rank, S, x))
           /\ Cardinality(Before(rank, T, x)) \in Nat
           /\ Cardinality(Before(rank, S, x)) \in Nat
           /\ Cardinality(Before(rank, T, x)) <= Cardinality(Before(rank, S, x))
<1>1. IsFiniteSet(Before(rank, S, x)) /\ IsFiniteSet(Before(rank, T, x))
  <2>1. Before(rank, S, x) \in SUBSET S /\ Before(rank, T, x) \in SUBSET S
    BY DEF Before
  <2> QED
    BY <2>1, FS_Subset
<1>2. Before(rank, T, x) \in SUBSET Before(rank, S, x)
  BY DEF Before
<1> QED
  BY <1>1, <1>2, FS_Subset, FS_CardinalityType

(***************************************************************************)
(* A node that leaves the ring costs nobody else an owner's place: every   *)
(* other owner of a chunk is still one (hashring.RemoveNode, GetN).        *)
(***************************************************************************)
THEOREM LeaveKeepsOwners ==
    ASSUME NEW S, IsFiniteSet(S), NEW T \in SUBSET S, NEW rank, NEW n \in Nat
    PROVE  FirstN(rank, S, n) \cap T \subseteq FirstN(rank, T, n)
<1> SUFFICES ASSUME NEW x \in FirstN(rank, S, n), x \in T
             PROVE  x \in FirstN(rank, T, n)
  OBVIOUS
<1>1. Cardinality(Before(rank, S, x)) < n
  BY DEF FirstN
<1>2. Cardinality(Before(rank, T, x)) < n
  BY <1>1, BeforeMonotone
<1> QED
  BY <1>2 DEF FirstN

(***************************************************************************)
(* A node that joins makes no owner but itself: repair never has to move a *)
(* chunk to a third node because of a join (hashring.AddNode, GetN).       *)
(***************************************************************************)
THEOREM JoinAddsOnlyItself ==
    ASSUME NEW S, IsFiniteSet(S), NEW e, NEW rank, NEW n \in Nat
    PROVE  FirstN(rank, S \cup {e}, n) \subseteq FirstN(rank, S, n) \cup {e}
<1>1. IsFiniteSet(S \cup {e})
  BY FS_AddElement
<1>2. S \in SUBSET (S \cup {e})
  OBVIOUS
<1>3. FirstN(rank, S \cup {e}, n) \cap S \subseteq FirstN(rank, S, n)
  BY <1>1, <1>2, LeaveKeepsOwners
<1> QED
  BY <1>3 DEF FirstN

(***************************************************************************)
(* Owner sets have no gaps: a node of the ring that comes before an owner   *)
(* in the walk is an owner itself, so the primary is always among them     *)
(* (hashring.GetN, Get).                                                   *)
(***************************************************************************)
THEOREM OwnersAreInitial ==
    ASSUME NEW S, IsFiniteSet(S), NEW rank, \A z \in S : rank[z] \in Nat,
           NEW n \in Nat, NEW x \in FirstN(rank, S, n), NEW y \in S, rank[y] < rank[x]
    PROVE  y \in FirstN(rank, S, n)
<1>1. Before(rank, S, y) \in SUBSET Before(rank, S, x)
  <2> SUFFICES ASSUME NEW z \in S, rank[z] < rank[y]
               PROVE  rank[z] < rank[x]
    BY DEF Before
  <2>1. x \in S /\ rank[x] \in Nat /\ rank[y] \in Nat /\ rank[z] \in Nat
    BY DEF FirstN
  <2> QED
    BY <2>1
<1>2. IsFiniteSet(Before(rank, S, x))
  <2>1. Before(rank, S, x) \in SUBSET S
    BY DEF Before
  <2> QED
    BY <2>1, FS_Subset
<1>3. /\ Cardinality(Before(rank, S, y)) <= Cardinality(Before(rank, S, x))
      /\ Cardinality(Before(rank, S, y)) \in Nat
      /\ Cardinality(Before(rank, S, x)) \in Nat
  BY <1>1, <1>2, FS_Subset, FS_CardinalityType
<1>4. Cardinality(Before(rank, S, x)) < n
  BY DEF FirstN
<1> QED
  BY <1>3, <1>4 DEF FirstN

(***************************************************************************)
(* A non-empty set of nodes has one that comes first in the walk, so the   *)
(* target a worker or a download turns to next exists.                     *)
(***************************************************************************)
LEMMA SomeoneIsFirst ==
    ASSUME NEW S, NEW rank, \A x \in S : rank[x] \in Nat, S # {}
    PROVE  \E x \in S : Before(rank, S, x) = {}
<1> DEFINE places == {rank[x] : x \in S}
<1>1. places \subseteq Nat /\ places # {}
  OBVIOUS
<1>2. PICK least \in places : \A y \in places : ~(<<y, least>> \in OpToRel(<, Nat))
  BY <1>1, WFMin, NatLessThanWellFounded
<1>3. \A y \in places : ~(y < least)
  BY <1>1, <1>2 DEF OpToRel
<1>4. PICK x \in S : rank[x] = least
  OBVIOUS
<1>5. Before(rank, S, x) = {}
  BY <1>3, <1>4 DEF Before
<1> QED
  BY <1>5

(***************************************************************************)
(* A ring that is not empty names at least one owner for every chunk.      *)
(***************************************************************************)
LEMMA OwnersExist ==
    ASSUME NEW S, NEW rank, \A x \in S : rank[x] \in Nat, S # {}, NEW n \in Nat \ {0}
    PROVE  FirstN(rank, S, n) # {}
<1>1. PICK x \in S : Before(rank, S, x) = {}
  BY SomeoneIsFirst
<1>2. Cardinality(Before(rank, S, x)) < n
  BY <1>1, FS_EmptySet
<1> QED
  BY <1>2 DEF FirstN

----------------------------------------------------------------------------
(***************************************************************************)
(* ahead[x] is the set of the elements of S that come before x in some     *)
(* strict total order of S.                                                *)
(***************************************************************************)
Orders(ahead, S) ==
    /\ ahead \in [S -> SUBSET S]
    /\ \A x \in S : x \notin ahead[x]
    /\ \A x, y \in S : x # y => x \in ahead[y] \/ y \in ahead[x]
    /\ \A x, y \in S : x \in ahead[y] => ahead[x] \subseteq ahead[y]

(***************************************************************************)
(* Later in the order, more elements ahead.                                *)
(***************************************************************************)
LEMMA PlacesGrow ==
    ASSUME NEW S, IsFiniteSet(S), NEW ahead, Orders(ahead, S),
           NEW x \in S, NEW y \in S, x \in ahead[y]
    PROVE  /\ Cardinality(ahead[x]) \in Nat /\ Cardinality(ahead[y]) \in Nat
           /\ Cardinality(ahead[x]) < Cardinality(ahead[y])
<1>1. /\ ahead[x] \in SUBSET S /\ ahead[y] \in SUBSET S
      /\ x \notin ahead[x] /\ ahead[x] \cup {x} \in SUBSET ahead[y]
  BY DEF Orders
<1>2. IsFiniteSet(ahead[x]) /\ IsFiniteSet(ahead[y])
  BY <1>1, FS_Subset
<1>3. Cardinality(ahead[x] \cup {x}) = Cardinality(ahead[x]) + 1
  BY <1>1, <1>2, FS_AddElement
<1>4. Cardinality(ahead[x] \cup {x}) <= Cardinality(ahead[y])
  BY <1>1, <1>2, FS_Subset
<1>5. Cardinality(ahead[x]) \in Nat /\ Cardinality(ahead[y]) \in Nat
  BY <1>2, FS_CardinalityType
<1> QED
  BY <1>3, <1>4, <1>5

(***************************************************************************)
(* Every place of a finite order is taken, by one element.                 *)
(***************************************************************************)
LEMMA EveryPlaceTaken ==
    ASSUME NEW S, IsFiniteSet(S), NEW ahead, Orders(ahead, S)
    PROVE  /\ Cardinality(S) \in Nat
           /\ \A x \in S : Cardinality(ahead[x]) + 1 \in 1 .. Cardinality(S)
           /\ \A x, y \in S : Cardinality(ahead[x]) = Cardinality(ahead[y]) => x = y
           /\ \A k \in 1 .. Cardinality(S) :
                  \E x \in S : Cardinality(ahead[x]) = k - 1
<1> DEFINE n == Cardinality(S)
           place == [x \in S |-> Cardinality(ahead[x]) + 1]
<1>1. n \in Nat
  BY FS_CardinalityType
<1>2. ASSUME NEW x \in S
      PROVE  Cardinality(ahead[x]) \in Nat /\ Cardinality(ahead[x]) + 1 \in 1 .. n
  <2>1. ahead[x] \in SUBSET (S \ {x})
    BY DEF Orders
  <2>2. IsFiniteSet(S \ {x}) /\ Cardinality(S \ {x}) = n - 1
    BY FS_RemoveElement
  <2>3. IsFiniteSet(ahead[x]) /\ Cardinality(ahead[x]) <= n - 1
    BY <2>1, <2>2, FS_Subset
  <2>4. Cardinality(ahead[x]) \in Nat
    BY <2>3, FS_CardinalityType
  <2> QED
    BY <1>1, <2>3, <2>4
<1>3. ASSUME NEW x \in S, NEW y \in S, Cardinality(ahead[x]) = Cardinality(ahead[y])
      PROVE  x = y
  <2>1. x # y => x \in ahead[y] \/ y \in ahead[x]
    BY DEF Orders
  <2>2. ~(x \in ahead[y]) /\ ~(y \in ahead[x])
    BY <1>3, PlacesGrow
  <2> QED
    BY <2>1, <2>2
<1>4. place \in Injection(S, 1 .. n)
  <2>1. place \in [S -> 1 .. n]
    BY <1>2
  <2>2. ASSUME NEW x \in S, NEW y \in S, place[x] = place[y] PROVE x = y
    BY <1>2, <1>3, <2>2
  <2> QED
    BY <2>1, <2>2 DEF Injection, IsInjective
<1>5. IsFiniteSet(1 .. n) /\ Cardinality(1 .. n) = n
  BY <1>1, FS_Interval
<1>6. place \in Surjection(S, 1 .. n)
  <2> HIDE DEF place
  <2> QED
    BY <1>4, <1>5, FS_Injection
<1>7. ASSUME NEW k \in 1 .. n PROVE \E x \in S : Cardinality(ahead[x]) = k - 1
  <2>1. PICK x \in S : place[x] = k
    BY <1>6 DEF Surjection
  <2>2. Cardinality(ahead[x]) + 1 = k
    BY <2>1
  <2> QED
    BY <1>1, <1>2, <2>2
<1> QED
  BY <1>1, <1>2, <1>3, <1>7

(***************************************************************************)
(* An owner set is as large as it should be: n owners, or the whole ring   *)
(* when that has fewer (hashring.GetN stops at n results or when it has    *)
(* seen all nodes).                                                        *)
(***************************************************************************)
THEOREM OwnersAreFull ==
    ASSUME NEW S, IsFiniteSet(S), NEW rank, NEW n \in Nat,
           \A x \in S : rank[x] \in Nat, \A x, y \in S : rank[x] = rank[y] => x = y
    PROVE  /\ IsFiniteSet(FirstN(rank, S, n))
           /\ Cardinality(FirstN(rank, S, n)) = IF Cardinality(S) < n THEN Cardinality(S) ELSE n
<1> DEFINE ahead == [x \in S |-> Before(rank, S, x)]
           F == FirstN(rank, S, n)
           m == IF Cardinality(S) < n THEN Cardinality(S) ELSE n
           place == [x \in F |-> Cardinality(ahead[x]) + 1]
<1>1. Orders(ahead, S)
  BY DEF Orders, Before
<1>2. \A x \in S : ahead[x] = Before(rank, S, x)
  OBVIOUS
<1>3. F = {x \in S : Cardinality(ahead[x]) < n}
  BY <1>2 DEF FirstN
<1> HIDE DEF ahead, F
<1>4. /\ Cardinality(S) \in Nat
      /\ \A x \in S : Cardinality(ahead[x]) + 1 \in 1 .. Cardinality(S)
      /\ \A x, y \in S : Cardinality(ahead[x]) = Cardinality(ahead[y]) => x = y
      /\ \A k \in 1 .. Cardinality(S) : \E x \in S : Cardinality(ahead[x]) = k - 1
  BY <1>1, EveryPlaceTaken
<1>5. \A x \in S : Cardinality(ahead[x]) \in Nat
  <2> SUFFICES ASSUME NEW x \in S PROVE Cardinality(ahead[x]) \in Nat
    OBVIOUS
  <2>1. ahead[x] \in SUBSET S
    BY <1>1 DEF Orders
  <2> QED
    BY <2>1, FS_Subset, FS_CardinalityType
<1>6. m \in Nat /\ \A x \in F : x \in S /\ Cardinality(ahead[x]) + 1 \in 1 .. m
  BY <1>3, <1>4, <1>5
<1>7. IsFiniteSet(F)
  <2>1. F \in SUBSET S
    BY <1>3
  <2> QED
    BY <2>1, FS_Subset
<1>8. place \in Injection(F, 1 .. m)
  <2>1. place \in [F -> 1 .. m]
    BY <1>6
  <2>2. ASSUME NEW x \in F, NEW y \in F, place[x] = place[y] PROVE x = y
    BY <1>4, <1>5, <1>6, <2>2
  <2> QED
    BY <2>1, <2>2 DEF Injection, IsInjective
<1>9. place \in Surjection(F, 1 .. m)
  <2>1. place \in [F -> 1 .. m]
    BY <1>6
  <2>2. ASSUME NEW k \in 1 .. m PROVE \E x \in F : place[x] = k
    <3>1. k \in 1 .. Cardinality(S) /\ k - 1 < n /\ k \in Nat
      BY <1>4, <1>6
    <3>2. PICK x \in S : Cardinality(ahead[x]) = k - 1
      BY <1>4, <3>1
    <3>3. x \in F /\ Cardinality(ahead[x]) + 1 = k
      BY <1>3, <3>1, <3>2
    <3> QED
      BY <3>3
  <2> QED
    BY <2>1, <2>2 DEF Surjection
<1>10. IsFiniteSet(1 .. m) /\ Cardinality(1 .. m) = m
  BY <1>6, FS_Interval
<1> HIDE DEF place, m
<1>11. Cardinality(1 .. m) = Cardinality(F)
  BY <1>7, <1>8, <1>9, FS_Surjection
<1> QED
  BY <1>7, <1>10, <1>11 DEF F, m

(***************************************************************************)
(* A ring whose owners are all among n nodes has each of the n that is on  *)
(* it for an owner.                                                        *)
(***************************************************************************)
LEMMA OwnersOfSmallerSet ==
    ASSUME NEW S, IsFiniteSet(S), NEW rank, NEW n \in Nat,
           \A x \in S : rank[x] \in Nat, \A x, y \in S : rank[x] = rank[y] => x = y,
           NEW J, IsFiniteSet(J), Cardinality(J) <= n, FirstN(rank, S, n) \subseteq J,
           NEW t \in S, t \in J
    PROVE  t \in FirstN(rank, S, n)
<1> SUFFICES ASSUME t \notin FirstN(rank, S, n) PROVE FALSE
  OBVIOUS
<1> DEFINE F == FirstN(rank, S, n)
<1>1. /\ IsFiniteSet(F)
      /\ Cardinality(F) = IF Cardinality(S) < n THEN Cardinality(S) ELSE n
  BY OwnersAreFull
<1>2. /\ Cardinality(Before(rank, S, t)) \in Nat /\ Cardinality(S) \in Nat
      /\ Cardinality(Before(rank, S, t)) <= Cardinality(S)
  <2>1. Before(rank, S, t) \in SUBSET S
    BY DEF Before
  <2> QED
    BY <2>1, FS_Subset, FS_CardinalityType
<1>3. ~(Cardinality(Before(rank, S, t)) < n)
  BY DEF FirstN
<1>4. Cardinality(F) = n
  BY <1>1, <1>2, <1>3
<1>5. F \cup {t} \in SUBSET J
  OBVIOUS
<1>6. Cardinality(F \cup {t}) = n + 1
  BY <1>1, <1>4, FS_AddElement
<1>7. Cardinality(F \cup {t}) <= Cardinality(J) /\ Cardinality(J) \in Nat
  BY <1>5, FS_Subset, FS_CardinalityType
<1> QED
  BY <1>6, <1>7
=============================================================================
