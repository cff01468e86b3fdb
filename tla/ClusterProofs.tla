---------------------------- MODULE ClusterProofs ---------------------------
(***************************************************************************)
(* What becomes of an acknowledged chunk, for clusters of any size, any    *)
(* replication factor and any number of faults.                            *)
(***************************************************************************)
EXTENDS Cluster, PreferenceProofs, TLAPS

LEMMA OwnersTyped ==
    ASSUME NEW S \in SUBSET Node
    PROVE  /\ Owners[S] = FirstN(Rank, S, Factor)
           /\ Owners[S] \in SUBSET S
           /\ S # {} => Owners[S] # {}
<1>1. Owners[S] = FirstN(Rank, S, Factor)
  BY DEF Owners
<1>2. FirstN(Rank, S, Factor) \in SUBSET S
  BY DEF FirstN
<1>3. S # {} => FirstN(Rank, S, Factor) # {}
  BY OwnersExist, ClusterAssumption
<1> QED
  BY <1>1, <1>2, <1>3

LEMMA CurrentIsTarget ==
    ASSUME TypeOK, NEW n \in Node, todo[n] # {}
    PROVE  Current(n) \in todo[n] /\ Current(n) \in Node
<1>1. todo[n] \in SUBSET Node
  BY DEF TypeOK
<1>2. \E t \in todo[n] : Before(Rank, todo[n], t) = {}
  BY <1>1, SomeoneIsFirst, ClusterAssumption
<1> QED
  BY <1>1, <1>2 DEF Current

LEMMA FaultCounted ==
    ASSUME TypeOK, Fault \/ UNCHANGED faults
    PROVE  faults' \in 0 .. MaxFaults
  BY ClusterAssumption DEF TypeOK, Fault

----------------------------------------------------------------------------
LEMMA TypePreserved == TypeOK /\ [Next]_vars => TypeOK'
<1> SUFFICES ASSUME TypeOK, [Next]_vars PROVE TypeOK'
  OBVIOUS
<1> USE DEF tasks
<1>1. ASSUME NEW n \in Node, Upload(n) PROVE TypeOK'
  BY <1>1 DEF Upload, TypeOK
<1>2. ASSUME NEW n \in Node, Take(n) PROVE TypeOK'
  <2>1. ring[n] \in SUBSET Node
    BY DEF TypeOK
  <2>2. Owners[ring[n]] \in SUBSET Node
    BY <2>1, OwnersTyped
  <2>3. queue[n] \in Nat /\ queue[n] > 0
    BY <1>2 DEF Take, TypeOK
  <2>4. queue[n] # 0 /\ queue[n] - 1 \in Nat
    BY <2>3
  <2>5. n \in up
    BY <2>4 DEF TypeOK
  <2>6. excuse' \subseteq Excuse
    BY <1>2 DEF Take, TypeOK, Excuse
  <2> QED
    BY <1>2, <2>2, <2>4, <2>5, <2>6 DEF Take, TypeOK
<1>3. ASSUME NEW n \in Node, Push(n) PROVE TypeOK'
  <2>1. Current(n) \in todo[n] /\ Current(n) \in Node
    BY <1>3, CurrentIsTarget DEF Push
  <2>2. excuse' \subseteq Excuse
    BY <1>3 DEF Push, TypeOK, Excuse
  <2> QED
    BY <1>3, <2>1, <2>2 DEF Push, TypeOK
<1>4. ASSUME NEW n \in Node, GiveUp(n) PROVE TypeOK'
  <2>1. Current(n) \in todo[n] /\ Current(n) \in Node
    BY <1>4, CurrentIsTarget DEF GiveUp
  <2>2. excuse' \subseteq Excuse
    BY <1>4 DEF GiveUp, TypeOK, Excuse
  <2>3. faults' \in 0 .. MaxFaults
    BY <1>4, FaultCounted DEF GiveUp
  <2> QED
    BY <1>4, <2>1, <2>2, <2>3 DEF GiveUp, TypeOK
<1>5. ASSUME NEW n \in Node, Crash(n) PROVE TypeOK'
  <2>1. excuse' \subseteq Excuse
    BY <1>5 DEF Crash, TypeOK, Excuse
  <2>2. faults' \in 0 .. MaxFaults
    BY <1>5, FaultCounted DEF Crash
  <2> QED
    BY <1>5, <2>1, <2>2 DEF Crash, TypeOK
<1>6. ASSUME NEW n \in Node, Restart(n) PROVE TypeOK'
  <2>1. excuse' \subseteq Excuse
    BY <1>6 DEF Restart, TypeOK, Excuse
  <2> QED
    BY <1>6, <2>1 DEF Restart, TypeOK
<1>7. ASSUME NEW n \in Node, NEW p \in Node, DeclareDead(n, p) PROVE TypeOK'
  <2>1. faults' \in 0 .. MaxFaults
    BY <1>7, FaultCounted DEF DeclareDead
  <2> QED
    BY <1>7, <2>1 DEF DeclareDead, TypeOK
<1>8. ASSUME NEW n \in Node, NEW p \in Node, RepairVisit(n, p) PROVE TypeOK'
  <2>1. n \in up
    BY <1>8 DEF RepairVisit, TypeOK
  <2> QED
    BY <1>8, <2>1 DEF RepairVisit, TypeOK
<1>9. ASSUME NEW n \in Node, NEW p \in Node, DeclareAlive(n, p) PROVE TypeOK'
  <2>1. excuse' \subseteq Excuse
    BY <1>9 DEF DeclareAlive, TypeOK, Excuse
  <2> QED
    BY <1>9, <2>1 DEF DeclareAlive, TypeOK
<1>10. CASE UNCHANGED vars
  BY <1>10 DEF vars, TypeOK
<1> QED
  BY <1>1, <1>2, <1>3, <1>4, <1>5, <1>6, <1>7, <1>8, <1>9, <1>10 DEF Next, WorkerStep

(***************************************************************************)
(* Rings, stores, queues and repairs stay well formed at every node; each  *)
(* node is on its own ring, works only through targets of its job that are *)
(* not itself, and has nothing to do while it is down.                     *)
(***************************************************************************)
THEOREM TypeCorrect == Spec => []TypeOK
<1>1. Init => TypeOK
  BY ClusterAssumption DEF Init, TypeOK
<1> QED
  BY <1>1, TypePreserved, PTL DEF Spec

----------------------------------------------------------------------------
(***************************************************************************)
(* LossTakesFaults made inductive.  Nodes that are down or off a ring have *)
(* cost a fault each.  A chunk that is on no disk was accepted by a node   *)
(* that is no owner in the full cluster, and once its job has left the     *)
(* queue each owner that it will not reach has cost a fault.               *)
(***************************************************************************)
FaultInv ==
    /\ \A n \in Node : Cardinality(Node \ (ring[n] \cap up)) <= faults
    /\ acked # None /\ disk = {} /\ "wiped" \notin excuse =>
           /\ acked \notin Owners[Node]
           /\ queue[acked] = 0 => Cardinality(Owners[Node] \ (todo[acked] \cap up)) <= faults

(***************************************************************************)
(* One step takes at most one node out of reach.                           *)
(***************************************************************************)
LEMMA OneMoreNode ==
    ASSUME NEW S \in SUBSET Node, NEW T \in SUBSET Node, NEW x, T \subseteq S \cup {x}
    PROVE  /\ Cardinality(S) \in Nat /\ Cardinality(T) \in Nat
           /\ Cardinality(T) <= Cardinality(S) + 1
           /\ T \subseteq S => Cardinality(T) <= Cardinality(S)
<1>1. IsFiniteSet(S) /\ IsFiniteSet(T)
  BY ClusterAssumption, FS_Subset
<1>2. Cardinality(S) \in Nat /\ Cardinality(T) \in Nat
  BY <1>1, FS_CardinalityType
<1>3. IsFiniteSet(S \cup {x}) /\ Cardinality(S \cup {x}) <= Cardinality(S) + 1
  <2>1. /\ IsFiniteSet(S \cup {x})
        /\ Cardinality(S \cup {x}) = IF x \in S THEN Cardinality(S) ELSE Cardinality(S) + 1
    BY <1>1, FS_AddElement
  <2> QED
    BY <1>2, <2>1
<1>4. Cardinality(S \cup {x}) \in Nat /\ Cardinality(T) <= Cardinality(S \cup {x})
  BY <1>3, FS_Subset, FS_CardinalityType
<1>5. T \subseteq S => Cardinality(T) <= Cardinality(S)
  BY <1>1, FS_Subset
<1> QED
  BY <1>2, <1>3, <1>4, <1>5

LEMMA OutOfReachCounted == TypeOK /\ FaultInv /\ [Next]_vars =>
    \A m \in Node : Cardinality(Node \ (ring'[m] \cap up')) <= faults'
<1> SUFFICES ASSUME TypeOK, FaultInv, [Next]_vars, NEW m \in Node
             PROVE  Cardinality(Node \ (ring'[m] \cap up')) <= faults'
  OBVIOUS
<1> DEFINE S == Node \ (ring[m] \cap up)
           T == Node \ (ring'[m] \cap up')
<1>1. Cardinality(S) <= faults /\ faults \in Nat
  BY DEF FaultInv, TypeOK
<1>2. \/ T \subseteq S /\ (faults' = faults \/ faults' = faults + 1)
      \/ faults' = faults + 1 /\ \E x : T \subseteq S \cup {x}
  <2>1. ASSUME NEW n \in Node, Upload(n) \/ Take(n) \/ Push(n) \/ GiveUp(n)
        PROVE  T \subseteq S /\ (faults' = faults \/ faults' = faults + 1)
    BY <2>1 DEF Upload, Take, Push, GiveUp, Fault
  <2>2. ASSUME NEW n \in Node, Crash(n)
        PROVE  faults' = faults + 1 /\ T \subseteq S \cup {n}
    BY <2>2 DEF Crash, Fault
  <2>3. ASSUME NEW n \in Node, Restart(n)
        PROVE  T \subseteq S /\ faults' = faults
    BY <2>3 DEF Restart, TypeOK
  <2>4. ASSUME NEW n \in Node, NEW p \in Node, DeclareDead(n, p)
        PROVE  \/ T \subseteq S /\ faults' = faults
               \/ faults' = faults + 1 /\ T \subseteq S \cup {p}
    <3>1. up' = up /\ ring[m] \ {p} \subseteq ring'[m]
      BY <2>4 DEF DeclareDead, TypeOK
    <3>2. CASE p \in up
      BY <2>4, <3>1, <3>2 DEF DeclareDead, Fault
    <3>3. CASE p \notin up
      BY <2>4, <3>1, <3>3 DEF DeclareDead
    <3> QED
      BY <3>2, <3>3
  <2>5. ASSUME NEW n \in Node, NEW p \in Node, RepairVisit(n, p) \/ DeclareAlive(n, p)
        PROVE  T \subseteq S /\ faults' = faults
    BY <2>5 DEF RepairVisit, DeclareAlive, TypeOK
  <2>6. CASE UNCHANGED vars
    BY <2>6 DEF vars
  <2> HIDE DEF S, T
  <2> QED
    BY <2>1, <2>2, <2>3, <2>4, <2>5, <2>6 DEF Next, WorkerStep
<1>3. S \in SUBSET Node /\ T \in SUBSET Node
  OBVIOUS
<1> HIDE DEF S, T
<1>4. CASE T \subseteq S /\ (faults' = faults \/ faults' = faults + 1)
  <2>1. Cardinality(S) \in Nat /\ Cardinality(T) \in Nat /\ Cardinality(T) <= Cardinality(S)
    BY <1>3, <1>4, OneMoreNode
  <2> QED
    BY <1>1, <1>4, <2>1 DEF T
<1>5. CASE faults' = faults + 1 /\ \E x : T \subseteq S \cup {x}
  <2>1. PICK x : T \subseteq S \cup {x}
    BY <1>5
  <2>2. /\ Cardinality(S) \in Nat /\ Cardinality(T) \in Nat
        /\ Cardinality(T) <= Cardinality(S) + 1
    BY <1>3, <2>1, OneMoreNode
  <2> QED
    BY <1>1, <1>5, <2>2 DEF T
<1> QED
  BY <1>2, <1>4, <1>5

(***************************************************************************)
(* A node that is no owner among those on its ring is none in the full     *)
(* cluster, and an owner there that is on the ring is an owner on it.      *)
(***************************************************************************)
LEMMA OwnersOnRing ==
    ASSUME NEW S \in SUBSET Node, NEW x \in S, x \in Owners[Node]
    PROVE  x \in Owners[S]
<1>1. IsFiniteSet(Node) /\ Factor \in Nat
  BY ClusterAssumption
<1>2. FirstN(Rank, Node, Factor) \cap S \subseteq FirstN(Rank, S, Factor)
  BY <1>1, LeaveKeepsOwners
<1>3. Owners[Node] = FirstN(Rank, Node, Factor) /\ Owners[S] = FirstN(Rank, S, Factor)
  BY OwnersTyped
<1> QED
  BY <1>2, <1>3

LEMMA FaultsPreserved == TypeOK /\ FaultInv /\ [Next]_vars => FaultInv'
<1> SUFFICES ASSUME TypeOK, FaultInv, [Next]_vars,
                    acked' # None, disk' = {}, "wiped" \notin excuse'
             PROVE  /\ acked' \notin Owners[Node]
                    /\ queue'[acked'] = 0 =>
                           Cardinality(Owners[Node] \ (todo'[acked'] \cap up')) <= faults'
  BY OutOfReachCounted DEF FaultInv
<1> USE DEF tasks
<1>0. Owners[Node] \in SUBSET Node /\ faults \in Nat
  BY OwnersTyped DEF TypeOK
<1>1. ASSUME NEW n \in Node, Upload(n)
      PROVE  acked' \notin Owners[Node] /\ queue'[acked'] # 0
  <2>1. acked' = n /\ queue'[n] = queue[n] + 1 /\ queue[n] \in Nat
    BY <1>1 DEF Upload, TypeOK
  <2>2. n \notin Owners[ring[n]] /\ n \in ring[n] /\ ring[n] \in SUBSET Node
    BY <1>1 DEF Upload, TypeOK
  <2> QED
    BY <2>1, <2>2, OwnersOnRing
<1>2. CASE ~\E n \in Node : Upload(n)
  <2>1. disk = {} /\ acked' = acked /\ excuse \subseteq excuse'
    BY <1>2 DEF Next, vars, WorkerStep, Take, Push, GiveUp, Crash, Restart, DeclareDead,
                RepairVisit, DeclareAlive
  <2>2. /\ acked \in Node /\ acked \notin Owners[Node] /\ queue[acked] \in Nat
        /\ queue[acked] = 0 => Cardinality(Owners[Node] \ (todo[acked] \cap up)) <= faults
    BY <2>1 DEF TypeOK, FaultInv
  <2> DEFINE S == Owners[Node] \ (todo[acked] \cap up)
             T == Owners[Node] \ (todo'[acked] \cap up')
  <2>3. S \in SUBSET Node /\ T \in SUBSET Node
    BY <1>0
  <2>4. CASE Take(acked)
    <3> DEFINE R == Node \ (ring[acked] \cap up)
    <3>1. /\ todo'[acked] = Owners[ring[acked]] \ {acked} /\ up' = up /\ faults' = faults
          /\ ring[acked] \in SUBSET Node
      BY <2>2, <2>4 DEF Take, TypeOK
    <3>2. T \subseteq R
      BY <1>0, <2>2, <3>1, OwnersOnRing
    <3>3. Cardinality(R) <= faults
      BY <2>2 DEF FaultInv
    <3>4. R \in SUBSET Node
      OBVIOUS
    <3> HIDE DEF R, T
    <3>5. Cardinality(T) \in Nat /\ Cardinality(R) \in Nat /\ Cardinality(T) <= Cardinality(R)
      BY <2>3, <3>2, <3>4, OneMoreNode
    <3>6. Cardinality(T) <= faults'
      BY <1>0, <3>1, <3>3, <3>5
    <3> QED
      BY <2>1, <2>2, <3>6 DEF T
  <2>5. CASE ~Take(acked)
    <3>1. ASSUME queue'[acked] = 0
          PROVE  /\ queue[acked] = 0
                 /\ \/ T \subseteq S /\ (faults' = faults \/ faults' = faults + 1)
                    \/ faults' = faults + 1 /\ \E x : T \subseteq S \cup {x}
      <4>1. ASSUME NEW n \in Node, n # acked, Take(n) \/ Push(n) \/ GiveUp(n)
            PROVE  /\ queue'[acked] = queue[acked] /\ T \subseteq S
                   /\ faults' = faults \/ faults' = faults + 1
        <5>1. queue'[acked] = queue[acked] /\ todo'[acked] = todo[acked] /\ up' = up
          <6>1. CASE Take(n)
            BY <2>2, <4>1, <6>1 DEF Take, TypeOK
          <6>2. CASE Push(n)
            BY <2>2, <4>1, <6>2 DEF Push, TypeOK
          <6>3. CASE GiveUp(n)
            BY <2>2, <4>1, <6>3 DEF GiveUp, TypeOK
          <6> QED
            BY <4>1, <6>1, <6>2, <6>3
        <5>2. faults' = faults \/ faults' = faults + 1
          BY <4>1 DEF Take, Push, GiveUp, Fault
        <5> QED
          BY <5>1, <5>2
      <4>2. ~Push(acked)
        BY <2>1 DEF Push
      <4>3. ASSUME GiveUp(acked)
            PROVE  /\ queue'[acked] = queue[acked]
                   /\ \/ T \subseteq S /\ faults' = faults
                      \/ faults' = faults + 1 /\ \E x : T \subseteq S \cup {x}
        <5>1. /\ queue' = queue /\ up' = up
              /\ todo'[acked] = todo[acked] \ {Current(acked)}
          BY <2>2, <4>3 DEF GiveUp, TypeOK
        <5>2. CASE Current(acked) \in up
          <6>1. T \subseteq S \cup {Current(acked)}
            BY <5>1
          <6>2. faults' = faults + 1
            BY <4>3, <5>2 DEF GiveUp, Fault
          <6> QED
            BY <5>1, <6>1, <6>2
        <5>3. CASE Current(acked) \notin up
          BY <4>3, <5>1, <5>3 DEF GiveUp
        <5> QED
          BY <5>2, <5>3
      <4>4. ASSUME NEW n \in Node, Crash(n)
            PROVE  /\ queue[acked] = 0
                   /\ faults' = faults + 1 /\ T \subseteq S \cup {n}
        <5>1. faults' = faults + 1 /\ up' = up \ {n}
          BY <4>4 DEF Crash, Fault
        <5>2. CASE n = acked
          <6>1. queue[acked] = 0 /\ todo[acked] = {}
            BY <2>1, <2>2, <4>4, <5>2 DEF Crash
          <6> QED
            BY <5>1, <6>1
        <5>3. CASE n # acked
          <6>1. queue'[acked] = queue[acked] /\ todo'[acked] = todo[acked]
            BY <2>2, <4>4, <5>3 DEF Crash, TypeOK
          <6> QED
            BY <3>1, <5>1, <6>1
        <5> QED
          BY <5>2, <5>3
      <4>5. ASSUME NEW n \in Node, Restart(n)
            PROVE  queue' = queue /\ T \subseteq S /\ faults' = faults
        BY <4>5 DEF Restart
      <4>6. ASSUME NEW n \in Node, NEW p \in Node,
                   DeclareDead(n, p) \/ RepairVisit(n, p) \/ DeclareAlive(n, p)
            PROVE  /\ queue' = queue /\ T \subseteq S
                   /\ faults' = faults \/ faults' = faults + 1
        <5>1. queue' = queue /\ todo' = todo /\ up' = up
          BY <2>1, <4>6 DEF DeclareDead, RepairVisit, DeclareAlive
        <5>2. faults' = faults \/ faults' = faults + 1
          BY <4>6 DEF DeclareDead, RepairVisit, DeclareAlive, Fault
        <5> QED
          BY <5>1, <5>2
      <4>7. CASE UNCHANGED vars
        BY <3>1, <4>7 DEF vars
      <4> HIDE DEF S, T
      <4> QED
        BY <1>2, <2>5, <3>1, <4>1, <4>2, <4>3, <4>4, <4>5, <4>6, <4>7 DEF Next, WorkerStep
    <3> HIDE DEF S, T
    <3>2. ASSUME queue'[acked] = 0 PROVE Cardinality(T) <= faults'
      <4>1. Cardinality(S) <= faults
        BY <2>2, <3>1, <3>2 DEF S
      <4>2. CASE T \subseteq S /\ (faults' = faults \/ faults' = faults + 1)
        <5>1. /\ Cardinality(S) \in Nat /\ Cardinality(T) \in Nat
              /\ Cardinality(T) <= Cardinality(S)
          BY <2>3, <4>2, OneMoreNode
        <5> QED
          BY <1>0, <4>1, <4>2, <5>1
      <4>3. CASE faults' = faults + 1 /\ \E x : T \subseteq S \cup {x}
        <5>1. PICK x : T \subseteq S \cup {x}
          BY <4>3
        <5>2. /\ Cardinality(S) \in Nat /\ Cardinality(T) \in Nat
              /\ Cardinality(T) <= Cardinality(S) + 1
          BY <2>3, <5>1, OneMoreNode
        <5> QED
          BY <1>0, <4>1, <4>3, <5>2
      <4> QED
        BY <3>1, <3>2, <4>2, <4>3
    <3> QED
      BY <2>1, <2>2, <3>2 DEF T
  <2> QED
    BY <2>4, <2>5
<1> QED
  BY <1>1, <1>2

(***************************************************************************)
(* While the accepting node does not crash with a chunk in its memory      *)
(* only, an acknowledged chunk survives any number of faults below the     *)
(* replication factor: crashes, short outages and false alarms, before or  *)
(* after the worker reads the ring.                                        *)
(***************************************************************************)
THEOREM FewFaultsLoseNothing == Spec => []LossTakesFaults
<1>1. Init => FaultInv
  <2> SUFFICES ASSUME Init PROVE \A n \in Node : Cardinality(Node \ (ring[n] \cap up)) <= faults
    BY DEF Init, FaultInv
  <2> SUFFICES ASSUME NEW n \in Node PROVE Cardinality(Node \ (ring[n] \cap up)) <= faults
    OBVIOUS
  <2>1. Node \ (ring[n] \cap up) = {} /\ faults = 0
    BY DEF Init
  <2> QED
    BY <2>1, FS_EmptySet
<1>2. TypeOK /\ FaultInv => LossTakesFaults
  <2> SUFFICES ASSUME TypeOK, FaultInv, Lost, "wiped" \notin excuse
               PROVE  faults >= Factor
    BY DEF LossTakesFaults
  <2>1. /\ acked \in Node /\ acked \notin Owners[Node] /\ todo[acked] = {}
        /\ Cardinality(Owners[Node] \ (todo[acked] \cap up)) <= faults
    BY DEF Lost, TypeOK, FaultInv
  <2>2. Owners[Node] \ (todo[acked] \cap up) = Owners[Node]
    BY <2>1
  <2>3. Owners[Node] = FirstN(Rank, Node, Factor)
    BY OwnersTyped
  <2>4. /\ Cardinality(Owners[Node]) = IF Cardinality(Node) < Factor THEN Cardinality(Node)
                                       ELSE Factor
    BY <2>3, OwnersAreFull, ClusterAssumption
  <2>5. Cardinality(Before(Rank, Node, acked)) >= Factor
    <3>1. Cardinality(Before(Rank, Node, acked)) \in Nat /\ Factor \in Nat
      BY ClusterAssumption, BeforeMonotone
    <3> QED
      BY <2>1, <2>3, <3>1 DEF FirstN
  <2>6. /\ Cardinality(Before(Rank, Node, acked)) \in Nat /\ Cardinality(Node) \in Nat
        /\ Cardinality(Before(Rank, Node, acked)) <= Cardinality(Node)
    <3>1. Before(Rank, Node, acked) \in SUBSET Node
      BY DEF Before
    <3> QED
      BY <3>1, ClusterAssumption, FS_Subset, FS_CardinalityType
  <2>7. Factor \in Nat /\ faults \in Nat
    BY ClusterAssumption DEF TypeOK
  <2> QED
    BY <2>1, <2>2, <2>4, <2>5, <2>6, <2>7
<1> QED
  BY <1>1, <1>2, TypeCorrect, FaultsPreserved, PTL DEF Spec

----------------------------------------------------------------------------
(***************************************************************************)
(* Before the upload there is nothing to do; a job has no more owners than *)
(* a chunk has.                                                            *)
(***************************************************************************)
QuietInv ==
    /\ acked = None => disk = {} /\ \A n \in Node : queue[n] = 0 /\ todo[n] = {}
    /\ \A n \in Node : Cardinality(job[n]) <= Factor

(***************************************************************************)
(* A worker in the middle of its job has seen to every running owner that  *)
(* is no longer among its targets.                                         *)
(***************************************************************************)
JobsComplete ==
    ~Excused => \A n \in Node : todo[n] # {} => job[n] \cap up \subseteq disk \cup todo[n]

(***************************************************************************)
(* Whoever runs and has the chunk is an owner in its own view, so that its *)
(* repairs do not pass the chunk by.                                       *)
(***************************************************************************)
HoldersOwn == ~Excused => \A d \in disk \cap up : d \in Owners[ring[d]]

ConvergeInv == TypeOK /\ QuietInv /\ JobsComplete /\ HoldersOwn /\ NoCopyOverlooked

LEMMA OwnersAreFew ==
    ASSUME NEW S \in SUBSET Node
    PROVE  Cardinality(Owners[S]) <= Factor
<1>1. IsFiniteSet(S) /\ Cardinality(S) \in Nat
  BY ClusterAssumption, FS_Subset, FS_CardinalityType
<1>2. /\ Factor \in Nat /\ \A x \in S : Rank[x] \in Nat
      /\ \A x, y \in S : Rank[x] = Rank[y] => x = y
  BY ClusterAssumption
<1>3. Cardinality(FirstN(Rank, S, Factor))
          = IF Cardinality(S) < Factor THEN Cardinality(S) ELSE Factor
  BY <1>1, <1>2, OwnersAreFull
<1> QED
  BY <1>1, <1>2, <1>3 DEF Owners

LEMMA QuietPreserved == TypeOK /\ QuietInv /\ [Next]_vars => QuietInv'
<1> SUFFICES ASSUME TypeOK, QuietInv, [Next]_vars PROVE QuietInv'
  OBVIOUS
<1> USE DEF tasks
<1>1. ASSUME acked' = None
      PROVE  disk' = {} /\ \A n \in Node : queue'[n] = 0 /\ todo'[n] = {}
  <2>1. acked = None
    BY <1>1, ClusterAssumption DEF Next, vars, Upload, WorkerStep, Take, Push, GiveUp, Crash,
           Restart, DeclareDead, RepairVisit, DeclareAlive
  <2>2. disk = {} /\ \A n \in Node : queue[n] = 0 /\ todo[n] = {}
    BY <2>1 DEF QuietInv
  <2>3. ~ \E n \in Node : Upload(n) \/ WorkerStep(n)
    <3> SUFFICES ASSUME NEW n \in Node, Upload(n) \/ WorkerStep(n) PROVE FALSE
      OBVIOUS
    <3>1. queue[n] = 0 /\ todo[n] = {}
      BY <2>2
    <3> QED
      BY <1>1, <3>1, ClusterAssumption DEF Upload, WorkerStep, Take, Push, GiveUp
  <2>4. ASSUME NEW n \in Node, Crash(n)
        PROVE  disk' = {} /\ \A k \in Node : queue'[k] = 0 /\ todo'[k] = {}
    BY <2>2, <2>4 DEF Crash, TypeOK
  <2>5. ASSUME NEW n \in Node, NEW p \in Node, RepairVisit(n, p)
        PROVE  UNCHANGED <<disk, queue, todo>>
    BY <2>2, <2>5 DEF RepairVisit
  <2>6. \/ UNCHANGED <<disk, queue, todo>>
        \/ \E n \in Node : Crash(n)
        \/ \E n, p \in Node : RepairVisit(n, p)
    BY <2>3 DEF Next, vars, Restart, DeclareDead, DeclareAlive
  <2> QED
    BY <2>2, <2>4, <2>5, <2>6
<1>2. ASSUME NEW k \in Node PROVE Cardinality(job'[k]) <= Factor
  <2>1. CASE job' = job
    BY <2>1 DEF QuietInv
  <2>2. ASSUME NEW n \in Node, Take(n) PROVE Cardinality(job'[k]) <= Factor
    <3>1. job'[k] = IF k = n THEN Owners[ring[n]] ELSE job[k]
      BY <2>2 DEF Take, TypeOK
    <3>2. ring[n] \in SUBSET Node
      BY DEF TypeOK
    <3> QED
      BY <3>1, <3>2, OwnersAreFew DEF QuietInv
  <2>3. ASSUME NEW n \in Node, Crash(n) PROVE Cardinality(job'[k]) <= Factor
    <3>1. job'[k] = IF k = n THEN {} ELSE job[k]
      BY <2>3 DEF Crash, TypeOK
    <3>2. Cardinality({}) <= Factor
      BY FS_EmptySet, ClusterAssumption
    <3> QED
      BY <3>1, <3>2 DEF QuietInv
  <2>4. job' = job \/ \E n \in Node : Take(n) \/ Crash(n)
    BY DEF Next, vars, Upload, WorkerStep, Push, GiveUp, Restart, DeclareDead, RepairVisit,
           DeclareAlive
  <2> QED
    BY <2>1, <2>2, <2>3, <2>4
<1> QED
  BY <1>1, <1>2 DEF QuietInv

(***************************************************************************)
(* What no excuse means once the upload was acknowledged: nobody comes     *)
(* back, no ring grows, no copy goes.                                      *)
(***************************************************************************)
LEMMA WithoutExcuse ==
    ASSUME TypeOK, [Next]_vars, acked # None, ~Excused'
    PROVE  /\ ~Excused /\ excuse \subseteq excuse'
           /\ up' \subseteq up /\ disk \subseteq disk'
           /\ \A n \in Node : ring'[n] \subseteq ring[n]
           /\ ~ \E n \in Node : Upload(n) \/ Restart(n)
           /\ ~ \E n, p \in Node : DeclareAlive(n, p)
<1> USE DEF tasks
<1>1. ~ \E n \in Node : Upload(n) \/ Restart(n)
  BY DEF Upload, Restart, Excused
<1>2. ~ \E n, p \in Node : DeclareAlive(n, p)
  BY DEF DeclareAlive, Excused
<1>3. excuse \subseteq excuse' /\ up' \subseteq up /\ disk \subseteq disk'
  BY <1>1, <1>2 DEF Next, vars, WorkerStep, Take, Push, GiveUp, Crash, DeclareDead, RepairVisit
<1>4. ~Excused
  BY <1>3 DEF Excused
<1>5. ASSUME NEW n \in Node, NEW p \in Node, DeclareDead(n, p), NEW k \in Node
      PROVE  ring'[k] \subseteq ring[k]
  BY <1>5 DEF DeclareDead, TypeOK
<1>6. ring' = ring \/ \E n, p \in Node : DeclareDead(n, p)
  BY <1>1, <1>2 DEF Next, vars, WorkerStep, Take, Push, GiveUp, Crash, RepairVisit
<1>7. \A k \in Node : ring'[k] \subseteq ring[k]
  BY <1>5, <1>6
<1> QED
  BY <1>1, <1>2, <1>3, <1>4, <1>7

LEMMA JobsPreserved == ConvergeInv /\ [Next]_vars => JobsComplete'
<1> SUFFICES ASSUME ConvergeInv, [Next]_vars, ~Excused', NEW k \in Node, todo'[k] # {}
             PROVE  job'[k] \cap up' \subseteq disk' \cup todo'[k]
  BY DEF JobsComplete
<1> USE DEF tasks
<1>1. TypeOK /\ QuietInv /\ JobsComplete
  BY DEF ConvergeInv
<1>2. acked # None
  <2> SUFFICES ASSUME acked = None PROVE FALSE
    OBVIOUS
  <2>1. \A n \in Node : queue[n] = 0 /\ todo[n] = {}
    BY <1>1 DEF QuietInv
  <2>2. ASSUME NEW n \in Node, WorkerStep(n) PROVE FALSE
    <3>1. queue[n] = 0 /\ todo[n] = {}
      BY <2>1
    <3> QED
      BY <2>2, <3>1 DEF WorkerStep, Take, Push, GiveUp
  <2>3. ASSUME NEW n \in Node, Crash(n) PROVE FALSE
    BY <1>1, <2>1, <2>3 DEF Crash, TypeOK
  <2>4. todo' = todo
    BY <2>2, <2>3 DEF Next, vars, Upload, Restart, DeclareDead, RepairVisit, DeclareAlive
  <2> QED
    BY <2>1, <2>4
<1>3. /\ ~Excused /\ up' \subseteq up /\ disk \subseteq disk'
      /\ ~ \E n \in Node : Upload(n) \/ Restart(n)
      /\ ~ \E n, p \in Node : DeclareAlive(n, p)
  BY <1>1, <1>2, WithoutExcuse
<1>4. CASE todo'[k] = todo[k] /\ job'[k] = job[k]
  BY <1>1, <1>3, <1>4 DEF JobsComplete
<1>5. ASSUME NEW n \in Node, Take(n)
      PROVE  job'[k] \cap up' \subseteq disk' \cup todo'[k]
  <2>1. CASE k = n
    <3>1. job'[n] = Owners[ring[n]] /\ todo'[n] = Owners[ring[n]] \ {n}
      BY <1>1, <1>5 DEF Take, TypeOK
    <3>2. n \in Owners[ring[n]] => n \in disk
      BY <1>5 DEF Take, Excused
    <3> QED
      BY <1>3, <2>1, <3>1, <3>2
  <2>2. CASE k # n
    BY <1>1, <1>4, <1>5, <2>2 DEF Take, TypeOK
  <2> QED
    BY <2>1, <2>2
<1>6. ASSUME NEW n \in Node, Push(n)
      PROVE  job'[k] \cap up' \subseteq disk' \cup todo'[k]
  <2>1. CASE k = n
    <3>1. /\ job' = job /\ todo'[n] = todo[n] \ {Current(n)} /\ todo[n] # {}
          /\ Current(n) \in disk'
      BY <1>1, <1>6 DEF Push, TypeOK
    <3>2. job[n] \cap up \subseteq disk \cup todo[n]
      BY <1>1, <1>3, <3>1 DEF JobsComplete
    <3> QED
      BY <1>3, <2>1, <3>1, <3>2
  <2>2. CASE k # n
    BY <1>1, <1>4, <1>6, <2>2 DEF Push, TypeOK
  <2> QED
    BY <2>1, <2>2
<1>7. ASSUME NEW n \in Node, GiveUp(n)
      PROVE  job'[k] \cap up' \subseteq disk' \cup todo'[k]
  <2>1. CASE k = n
    <3>1. /\ job' = job /\ todo'[n] = todo[n] \ {Current(n)} /\ todo[n] # {} /\ up' = up
      BY <1>1, <1>7 DEF GiveUp, TypeOK
    <3>2. Current(n) \notin up
      BY <1>7 DEF GiveUp, Excused
    <3>3. job[n] \cap up \subseteq disk \cup todo[n]
      BY <1>1, <1>3, <3>1 DEF JobsComplete
    <3> QED
      BY <1>3, <2>1, <3>1, <3>2, <3>3
  <2>2. CASE k # n
    BY <1>1, <1>4, <1>7, <2>2 DEF GiveUp, TypeOK
  <2> QED
    BY <2>1, <2>2
<1>8. ASSUME NEW n \in Node, Crash(n)
      PROVE  job'[k] \cap up' \subseteq disk' \cup todo'[k]
  <2>1. k # n
    BY <1>1, <1>8 DEF Crash, TypeOK
  <2> QED
    BY <1>1, <1>4, <1>8, <2>1 DEF Crash, TypeOK
<1>9. \/ todo' = todo /\ job' = job
      \/ \E n \in Node : Take(n) \/ Push(n) \/ GiveUp(n) \/ Crash(n)
  BY <1>3 DEF Next, vars, WorkerStep, DeclareDead, RepairVisit
<1> QED
  BY <1>4, <1>5, <1>6, <1>7, <1>8, <1>9

(***************************************************************************)
(* A node with the chunk got it as an owner in its own view, or by a push  *)
(* that was not late: then its owners are all in the job, of which it is   *)
(* one, and a job has no more of them than a chunk.                        *)
(***************************************************************************)
LEMMA PushedIsOwner ==
    ASSUME ConvergeInv, ~Excused', NEW n \in Node, Push(n), Current(n) \notin disk
    PROVE  LET t == Current(n)
           IN  /\ t \in Owners[ring[t]] /\ t \in Node
               /\ Owners[ring[t]] \subseteq job[n] \/ repair[t] # {}
<1> DEFINE t == Current(n)
<1>1. TypeOK /\ QuietInv
  BY DEF ConvergeInv
<1>2. t \in todo[n] /\ t \in Node /\ t \in job[n] /\ job[n] \in SUBSET Node
  <2>1. todo[n] # {}
    BY DEF Push
  <2>2. t \in todo[n] /\ t \in Node
    BY <1>1, <2>1, CurrentIsTarget
  <2> QED
    BY <1>1, <2>2 DEF TypeOK
<1>3. ring[t] \in SUBSET Node /\ t \in ring[t]
  BY <1>1, <1>2 DEF TypeOK
<1>4. Owners[ring[t]] \subseteq job[n] \/ (repair[t] # {} /\ t \in Owners[ring[t]])
  <2> HIDE DEF t
  <2> QED
    BY DEF Push, Excused, t
<1>5. ASSUME Owners[ring[t]] \subseteq job[n] PROVE t \in Owners[ring[t]]
  <2> HIDE DEF t
  <2>1. IsFiniteSet(job[n]) /\ IsFiniteSet(ring[t]) /\ Cardinality(job[n]) <= Factor
    BY <1>1, <1>2, <1>3, ClusterAssumption, FS_Subset DEF QuietInv
  <2>2. /\ Factor \in Nat /\ \A x \in ring[t] : Rank[x] \in Nat
        /\ \A x, y \in ring[t] : Rank[x] = Rank[y] => x = y
    BY <1>3, ClusterAssumption
  <2>3. FirstN(Rank, ring[t], Factor) \subseteq job[n]
    BY <1>3, <1>5, OwnersTyped
  <2>4. t \in FirstN(Rank, ring[t], Factor)
    BY <1>2, <1>3, <2>1, <2>2, <2>3, OwnersOfSmallerSet
  <2> QED
    BY <1>3, <2>4, OwnersTyped
<1> QED
  BY <1>2, <1>4, <1>5

LEMMA HoldersPreserved == ConvergeInv /\ [Next]_vars => HoldersOwn'
<1> SUFFICES ASSUME ConvergeInv, [Next]_vars, ~Excused', NEW d \in disk' \cap up'
             PROVE  d \in Owners[ring[d]]'
  BY DEF HoldersOwn
<1> USE DEF tasks
<1>1. TypeOK /\ QuietInv /\ HoldersOwn /\ TypeOK'
  BY TypePreserved DEF ConvergeInv
<1>2. d \in Node /\ ring[d] \in SUBSET Node /\ ring'[d] \in SUBSET Node /\ d \in ring'[d]
  BY <1>1 DEF TypeOK
<1>3. CASE acked = None
  <2>1. disk = {} /\ \A n \in Node : todo[n] = {}
    BY <1>1, <1>3 DEF QuietInv
  <2>2. PICK n \in Node : Upload(n)
    BY <2>1 DEF Next, vars, WorkerStep, Take, Push, GiveUp, Crash, Restart, DeclareDead,
                RepairVisit, DeclareAlive
  <2> QED
    BY <1>2, <2>1, <2>2 DEF Upload, Owners
<1>4. CASE acked # None
  <2>1. /\ ~Excused /\ up' \subseteq up /\ ring'[d] \subseteq ring[d]
        /\ ~ \E n \in Node : Upload(n)
    BY <1>1, <1>2, <1>4, WithoutExcuse
  <2>2. CASE d \in disk
    <3>1. d \in Owners[ring[d]]
      BY <1>1, <2>1, <2>2 DEF HoldersOwn
    <3>2. IsFiniteSet(ring[d]) /\ ring'[d] \in SUBSET ring[d] /\ Factor \in Nat
      BY <1>2, <2>1, ClusterAssumption, FS_Subset
    <3>3. FirstN(Rank, ring[d], Factor) \cap ring'[d] \subseteq FirstN(Rank, ring'[d], Factor)
      BY <3>2, LeaveKeepsOwners
    <3> QED
      BY <1>2, <3>1, <3>3 DEF Owners
  <2>3. CASE d \notin disk
    <3>1. PICK n \in Node : Push(n) /\ d = Current(n)
      BY <2>1, <2>3 DEF Next, vars, WorkerStep, Take, Push, GiveUp, Crash, Restart,
                        DeclareDead, RepairVisit, DeclareAlive
    <3>2. d \in Owners[ring[d]]
      BY <2>3, <3>1, PushedIsOwner
    <3>3. ring' = ring
      BY <3>1 DEF Push
    <3> QED
      BY <3>2, <3>3 DEF Owners
  <2> QED
    BY <2>2, <2>3
<1> QED
  BY <1>3, <1>4

LEMMA OverlookedPreserved == ConvergeInv /\ [Next]_vars => NoCopyOverlooked'
<1> DEFINE Covered(d, o) == \/ o \in disk
                            \/ \E n \in Node : o \in todo[n]
                            \/ queue[d] > 0 \/ repair[d] # {} \/ ~(ring[d] \subseteq up)
<1> SUFFICES ASSUME ConvergeInv, [Next]_vars, ~Excused',
                    NEW d \in disk' \cap up', NEW o \in Owners[ring'[d]] \cap up'
             PROVE  Covered(d, o)'
  BY DEF NoCopyOverlooked, Owners
<1> USE DEF tasks
<1>1. TypeOK /\ QuietInv /\ JobsComplete /\ HoldersOwn /\ NoCopyOverlooked /\ TypeOK'
  BY TypePreserved DEF ConvergeInv
<1>2. d \in Node /\ ring[d] \in SUBSET Node /\ ring'[d] \in SUBSET Node
  BY <1>1 DEF TypeOK
<1>3. o \in Node /\ o \in ring'[d]
  BY <1>2, OwnersTyped
<1>4. ASSUME NEW n \in Node, Upload(n) PROVE Covered(d, o)'
  <2>1. acked = None
    BY <1>4 DEF Upload
  <2>2. disk = {} /\ queue[n] = 0
    BY <1>1, <2>1 DEF QuietInv
  <2>3. d = n /\ queue'[n] = 1
    BY <1>1, <1>4, <2>2 DEF Upload, TypeOK
  <2> QED
    BY <2>3
<1>5. CASE acked = None /\ ~ \E n \in Node : Upload(n)
  <2>1. disk = {} /\ \A n \in Node : todo[n] = {}
    BY <1>1, <1>5 DEF QuietInv
  <2>2. disk' = {}
    BY <1>5, <2>1 DEF Next, vars, WorkerStep, Take, Push, GiveUp, Crash, Restart, DeclareDead,
                      RepairVisit, DeclareAlive
  <2> QED
    BY <2>2
<1>6. CASE acked # None
  <2>1. /\ ~Excused /\ up' \subseteq up /\ disk \subseteq disk'
        /\ ~ \E n \in Node : Upload(n) \/ Restart(n)
        /\ ~ \E n, p \in Node : DeclareAlive(n, p)
    BY <1>1, <1>6, WithoutExcuse
  <2>2. d \in up /\ o \in up
    BY <2>1
  <2>3. ASSUME d \in disk, ring'[d] = ring[d] PROVE Covered(d, o)
    BY <1>1, <2>1, <2>2, <2>3 DEF NoCopyOverlooked
  <2>4. ASSUME NEW n \in Node, Take(n) PROVE Covered(d, o)'
    <3>1. /\ disk' = disk /\ ring' = ring /\ up' = up /\ repair' = repair /\ todo[n] = {}
          /\ \A k \in Node : /\ todo'[k] = IF k = n THEN Owners[ring[n]] \ {n} ELSE todo[k]
                             /\ k # n => queue'[k] = queue[k]
      <4>1. /\ disk' = disk /\ ring' = ring /\ up' = up /\ repair' = repair /\ todo[n] = {}
            /\ todo' = [todo EXCEPT ![n] = Owners[ring[n]] \ {n}]
            /\ queue' = [queue EXCEPT ![n] = queue[n] - 1]
        BY <2>4 DEF Take
      <4>2. DOMAIN todo = Node /\ DOMAIN queue = Node
        BY <1>1 DEF TypeOK
      <4> QED
        BY <4>1, <4>2
    <3>2. CASE d = n
      BY <3>1, <3>2, <1>2
    <3>3. CASE d # n
      <4>1. Covered(d, o)
        BY <2>3, <3>1
      <4>2. ASSUME NEW k \in Node, o \in todo[k] PROVE o \in todo'[k]
        BY <3>1, <4>2
      <4> QED
        BY <1>2, <3>1, <3>3, <4>1, <4>2
    <3> QED
      BY <3>2, <3>3
  <2>5. ASSUME NEW n \in Node, Push(n) PROVE Covered(d, o)'
    <3> DEFINE t == Current(n)
    <3>1. /\ disk' = disk \cup {t} /\ ring' = ring /\ up' = up /\ repair' = repair
          /\ queue' = queue /\ todo[n] # {}
          /\ \A k \in Node : todo'[k] = IF k = n THEN todo[n] \ {t} ELSE todo[k]
      BY <1>1, <2>5 DEF Push, TypeOK
    <3> HIDE DEF t
    <3>2. CASE o = t
      BY <3>1, <3>2
    <3>3. CASE o # t /\ d \in disk
      <4>1. Covered(d, o)
        BY <2>3, <3>1, <3>3
      <4>2. ASSUME NEW k \in Node, o \in todo[k] PROVE o \in todo'[k]
        BY <3>1, <3>3, <4>2
      <4> QED
        BY <3>1, <4>1, <4>2
    <3>4. CASE o # t /\ d \notin disk
      <4>1. d = t
        BY <3>1, <3>4
      <4>2. Owners[ring[d]] \subseteq job[n] \/ repair[d] # {}
        BY <2>5, <3>4, <4>1, PushedIsOwner DEF t
      <4>3. CASE repair[d] # {}
        BY <3>1, <4>3
      <4>4. CASE Owners[ring[d]] \subseteq job[n]
        <5>1. o \in job[n] \cap up
          BY <2>2, <3>1, <4>4
        <5>2. o \in disk \/ o \in todo[n]
          BY <1>1, <2>1, <3>1, <5>1 DEF JobsComplete
        <5> QED
          BY <3>1, <3>4, <5>2
      <4> QED
        BY <4>2, <4>3, <4>4
    <3> QED
      BY <3>2, <3>3, <3>4
  <2>6. ASSUME NEW n \in Node, GiveUp(n) PROVE Covered(d, o)'
    <3> DEFINE t == Current(n)
    <3>1. /\ disk' = disk /\ ring' = ring /\ up' = up /\ repair' = repair /\ queue' = queue
          /\ \A k \in Node : todo'[k] = IF k = n THEN todo[n] \ {t} ELSE todo[k]
      BY <1>1, <2>6 DEF GiveUp, TypeOK
    <3>2. t \notin up
      BY <2>6 DEF GiveUp, Excused
    <3> HIDE DEF t
    <3>3. Covered(d, o) /\ o # t
      BY <2>2, <2>3, <3>1, <3>2
    <3>4. ASSUME NEW k \in Node, o \in todo[k] PROVE o \in todo'[k]
      BY <3>1, <3>3, <3>4
    <3> QED
      BY <3>1, <3>3, <3>4
  <2>7. ASSUME NEW n \in Node, Crash(n) PROVE Covered(d, o)'
    <3>1. /\ disk' = disk /\ ring' = ring /\ up' = up \ {n}
          /\ \A k \in Node : k # n => /\ todo'[k] = todo[k] /\ queue'[k] = queue[k]
                                      /\ repair'[k] = repair[k]
      BY <1>1, <2>7 DEF Crash, TypeOK
    <3>2. Covered(d, o) /\ d # n /\ d \in disk
      BY <2>3, <3>1
    <3>3. ASSUME NEW k \in Node, o \in todo[k] PROVE Covered(d, o)'
      <4>1. CASE k # n
        BY <3>1, <3>3, <4>1
      <4>2. CASE k = n
        <5>1. n \in ring[d]
          BY <2>2, <2>7, <3>2, <3>3, <4>2 DEF Crash, Excused
        <5> QED
          BY <3>1, <5>1
      <4> QED
        BY <4>1, <4>2
    <3> QED
      BY <1>2, <3>1, <3>2, <3>3
  <2>8. ASSUME NEW n \in Node, NEW p \in Node, DeclareDead(n, p) PROVE Covered(d, o)'
    <3>1. /\ disk' = disk /\ up' = up /\ todo' = todo /\ queue' = queue
          /\ \A k \in Node : k # n => ring'[k] = ring[k] /\ repair'[k] = repair[k]
          /\ p \in repair'[n]
      BY <1>1, <2>8 DEF DeclareDead, TypeOK
    <3>2. CASE d = n
      BY <3>1, <3>2
    <3>3. CASE d # n
      BY <1>2, <2>3, <3>1, <3>3
    <3> QED
      BY <3>2, <3>3
  <2>9. ASSUME NEW n \in Node, NEW p \in Node, RepairVisit(n, p) PROVE Covered(d, o)'
    <3>1. /\ disk' = disk /\ up' = up /\ todo' = todo /\ ring' = ring
          /\ \A k \in Node : k # n => queue'[k] = queue[k] /\ repair'[k] = repair[k]
      BY <1>1, <2>9 DEF RepairVisit, TypeOK
    <3>2. CASE d = n
      <4>1. n \in disk \cap Owners[ring[n]]
        BY <1>1, <2>1, <2>2, <3>1, <3>2 DEF HoldersOwn
      <4>2. queue[n] \in Nat /\ queue'[n] = queue[n] + 1
        BY <1>1, <2>9, <4>1 DEF RepairVisit, TypeOK
      <4> QED
        BY <3>2, <4>2
    <3>3. CASE d # n
      BY <1>2, <2>3, <3>1, <3>3
    <3> QED
      BY <3>2, <3>3
  <2>10. CASE UNCHANGED vars
    BY <2>3, <2>10 DEF vars
  <2> QED
    BY <2>1, <2>4, <2>5, <2>6, <2>7, <2>8, <2>9, <2>10 DEF Next, WorkerStep
<1> QED
  BY <1>4, <1>5, <1>6

LEMMA ConvergeInvHolds == Spec => []ConvergeInv
<1>1. Init => ConvergeInv
  <2>1. Init => TypeOK
    BY ClusterAssumption DEF Init, TypeOK
  <2>2. Cardinality({}) <= Factor
    BY FS_EmptySet, ClusterAssumption
  <2>3. Init => QuietInv
    BY <2>2 DEF Init, QuietInv
  <2> QED
    BY <2>1, <2>3 DEF Init, ConvergeInv, JobsComplete, HoldersOwn, NoCopyOverlooked
<1>2. ConvergeInv /\ [Next]_vars => ConvergeInv'
  BY TypePreserved, QuietPreserved, JobsPreserved, HoldersPreserved, OverlookedPreserved
     DEF ConvergeInv
<1> QED
  BY <1>1, <1>2, PTL DEF Spec

(***************************************************************************)
(* No missing copy is overlooked, for any number of nodes, any replication *)
(* factor and any number of faults: short of the five excuses, a running   *)
(* owner that lacks the chunk is in somebody's hands or ahead of a repair. *)
(***************************************************************************)
THEOREM NothingOverlooked == Spec => []NoCopyOverlooked
<1>1. ConvergeInv => NoCopyOverlooked
  BY DEF ConvergeInv
<1> QED
  BY <1>1, ConvergeInvHolds, PTL

(***************************************************************************)
(* Every running node has an idle worker, an empty queue and no repair     *)
(* ahead, and has the running nodes on its ring and no others.             *)
(***************************************************************************)
AtRest ==
    \A n \in Node : /\ queue[n] = 0 /\ todo[n] = {} /\ repair[n] = {}
                    /\ n \in up => ring[n] = up

(***************************************************************************)
(* The safety part of RepairConverges: a cluster with nothing left to do   *)
(* and no excuse has every live owner of the chunk served, or no running   *)
(* node has a copy.                                                        *)
(***************************************************************************)
THEOREM RestIsConverged ==
    Spec => [](AtRest /\ ~Excused => LiveOwners \subseteq disk \/ disk \cap up = {})
<1>1. ConvergeInv => (AtRest /\ ~Excused => LiveOwners \subseteq disk \/ disk \cap up = {})
  <2> SUFFICES ASSUME ConvergeInv, AtRest, ~Excused, NEW d \in disk \cap up
               PROVE  LiveOwners \subseteq disk
    OBVIOUS
  <2>1. TypeOK /\ NoCopyOverlooked /\ up \in SUBSET Node /\ d \in Node
    BY DEF ConvergeInv, TypeOK
  <2>2. /\ ring[d] = up /\ queue[d] = 0 /\ repair[d] = {} /\ \A n \in Node : todo[n] = {}
    BY <2>1 DEF AtRest
  <2>3. LiveOwners \subseteq up
    BY <2>1, OwnersTyped DEF LiveOwners
  <2> QED
    BY <2>1, <2>2, <2>3 DEF NoCopyOverlooked, LiveOwners
<1> QED
  BY <1>1, ConvergeInvHolds, PTL
=============================================================================
