------------------------- MODULE SelfHealingProofs --------------------------
(***************************************************************************)
(* The failure detector, for any number of peers and any thresholds with   *)
(* SuspectAfter < DeadAfter, and self-healing on top of it: the ring       *)
(* follows the membership table for every peer that is not astray.         *)
(***************************************************************************)
EXTENDS SelfHealing, TLAPS

----------------------------------------------------------------------------
(* The detector alone (Membership).                                        *)

States == {Unknown, Alive, Suspect, Dead}

(***************************************************************************)
(* What pingPeer makes of a peer, case by case.                            *)
(***************************************************************************)
LEMMA ClassifyCases ==
    ASSUME TypeOK, NEW p \in Peer
    PROVE  /\ ping[p] = "ok" => Classify(p) = Alive
           /\ ping[p] # "ok" /\ since[p] >= DeadAfter => Classify(p) = Dead
           /\ ping[p] # "ok" /\ since[p] >= SuspectAfter /\ since[p] < DeadAfter
                  => Classify(p) = Suspect
           /\ ping[p] # "ok" /\ since[p] < SuspectAfter => Classify(p) = state[p]
           /\ Classify(p) \in States
<1>1. /\ since[p] \in Nat /\ SuspectAfter \in Nat /\ DeadAfter \in Nat
      /\ SuspectAfter < DeadAfter /\ state[p] \in States
  BY MembershipAssumption DEF TypeOK, States
<1> QED
  BY <1>1 DEF Classify, States

LEMMA TypePreserved == TypeOK /\ [Next]_vars => TypeOK'
<1> SUFFICES ASSUME TypeOK, [Next]_vars PROVE TypeOK'
  OBVIOUS
<1> USE MembershipAssumption DEF tables, callbacks, RoundOver, Unknown, Alive, Suspect, Dead
<1>1. CASE Start
  BY <1>1 DEF TypeOK, Start
<1>2. CASE Stop
  BY <1>2 DEF TypeOK, Stop
<1>3. CASE HeartbeatRound
  BY <1>3 DEF TypeOK, HeartbeatRound
<1>4. CASE LoopExit
  BY <1>4 DEF TypeOK, LoopExit
<1>5. CASE Tick
  <2>1. since' \in [Peer -> 0 .. DeadAfter]
    BY <1>5 DEF TypeOK, Tick
  <2> QED
    BY <1>5, <2>1 DEF TypeOK, Tick
<1>6. ASSUME NEW p \in Peer, AddPeer(p) PROVE TypeOK'
  BY <1>6 DEF TypeOK, AddPeer
<1>7. ASSUME NEW p \in Peer, Answer(p) PROVE TypeOK'
  BY <1>7 DEF TypeOK, Answer
<1>8. ASSUME NEW p \in Peer, PingPeer(p) PROVE TypeOK'
  <2>1. state' \in [Peer -> States]
    <3>1. Classify(p) \in States
      BY ClassifyCases
    <3> QED
      BY <1>8, <3>1 DEF TypeOK, PingPeer, States
  <2>2. since' \in [Peer -> 0 .. DeadAfter]
    BY <1>8 DEF TypeOK, PingPeer
  <2>3. onDead' \in [Peer -> 0 .. MaxCallbacks]
    BY <1>8 DEF TypeOK, PingPeer
  <2>4. onAlive' \in [Peer -> 0 .. MaxCallbacks]
    BY <1>8 DEF TypeOK, PingPeer
  <2>5. ping' \in [Peer -> {"idle", "sent", "ok", "failed"}]
    BY <1>8 DEF TypeOK, PingPeer
  <2> QED
    BY <1>8, <2>1, <2>2, <2>3, <2>4, <2>5 DEF TypeOK, PingPeer, States
<1>9. ASSUME NEW p \in Peer, MarkAliveManually(p) PROVE TypeOK'
  BY <1>9 DEF TypeOK, MarkAliveManually
<1>10. ASSUME NEW p \in Peer, RunOnDead(p) PROVE TypeOK'
  BY <1>10 DEF TypeOK, RunOnDead
<1>11. ASSUME NEW p \in Peer, RunOnAlive(p) PROVE TypeOK'
  BY <1>11 DEF TypeOK, RunOnAlive
<1>12. ASSUME NEW p \in Peer, Flip(p) PROVE TypeOK'
  BY <1>12 DEF TypeOK, Flip
<1>13. CASE UNCHANGED vars
  BY <1>13 DEF TypeOK, vars
<1> QED
  BY <1>1, <1>2, <1>3, <1>4, <1>5, <1>6, <1>7, <1>8, <1>9, <1>10, <1>11, <1>12,
     <1>13 DEF Next

LEMMA InitTyped == Init => TypeOK
<1> SUFFICES ASSUME Init PROVE TypeOK
  OBVIOUS
<1>1. /\ DeadAfter \in Nat /\ MaxCallbacks \in Nat
      /\ 0 \in 0 .. DeadAfter /\ 0 \in 0 .. MaxCallbacks
  BY MembershipAssumption
<1>2. /\ since \in [Peer -> 0 .. DeadAfter]
      /\ onDead \in [Peer -> 0 .. MaxCallbacks]
      /\ onAlive \in [Peer -> 0 .. MaxCallbacks]
  BY <1>1 DEF Init
<1>3. /\ state \in [Peer -> {Unknown, Alive, Suspect, Dead}]
      /\ ping \in [Peer -> {"idle", "sent", "ok", "failed"}]
      /\ loop \in {"new", "running", "exited"}
      /\ stopped \in BOOLEAN
      /\ reachable \in [Peer -> BOOLEAN]
      /\ unmarked \subseteq Gossiped
      /\ loop # "running" => RoundOver
  BY Zenon DEF Init, RoundOver
<1> QED
  BY <1>2, <1>3 DEF TypeOK

(***************************************************************************)
(* The table, the pings and the callback counts of membership.go stay      *)
(* well formed, and the loop exits only once its pings have been judged.   *)
(***************************************************************************)
THEOREM TypeCorrect == Spec => []TypeOK
  BY InitTyped, TypePreserved, PTL DEF Spec

----------------------------------------------------------------------------
LEMMA SilencePreserved ==
    TypeOK /\ ClassifiedBySilence /\ [Next]_vars => ClassifiedBySilence'
<1> SUFFICES ASSUME TypeOK, ClassifiedBySilence, [Next]_vars, NEW q \in Peer
             PROVE  /\ state'[q] = Dead => since'[q] = DeadAfter
                    /\ state'[q] = Suspect => since'[q] >= SuspectAfter
  BY DEF ClassifiedBySilence
<1>0. /\ state[q] = Dead => since[q] = DeadAfter
      /\ state[q] = Suspect => since[q] >= SuspectAfter
  BY DEF ClassifiedBySilence
<1>t. /\ since[q] \in 0 .. DeadAfter /\ SuspectAfter \in Nat /\ DeadAfter \in Nat
      /\ SuspectAfter < DeadAfter
  BY MembershipAssumption DEF TypeOK
<1> USE DEF Unknown, Alive, Suspect, Dead
<1>1. ASSUME NEW p \in Peer, AddPeer(p) \/ MarkAliveManually(p)
      PROVE  /\ state'[q] = Dead => since'[q] = DeadAfter
             /\ state'[q] = Suspect => since'[q] >= SuspectAfter
  BY <1>0, <1>1 DEF TypeOK, AddPeer, MarkAliveManually
<1>2. CASE Tick
  <2>1. state'[q] = state[q] /\ since'[q] >= since[q] /\ since'[q] \in 0 .. DeadAfter
    BY <1>2, <1>t DEF TypeOK, Tick
  <2> QED
    BY <1>0, <1>t, <2>1
<1>3. ASSUME NEW p \in Peer, PingPeer(p)
      PROVE  /\ state'[q] = Dead => since'[q] = DeadAfter
             /\ state'[q] = Suspect => since'[q] >= SuspectAfter
  <2>1. CASE p # q
    BY <1>0, <1>3, <2>1 DEF TypeOK, PingPeer
  <2>2. CASE p = q
    <3>1. /\ state'[q] = Classify(q)
          /\ since'[q] = IF ping[q] = "ok" THEN 0 ELSE since[q]
      BY <1>3, <2>2 DEF TypeOK, PingPeer
    <3>2. CASE ping[q] = "ok"
      BY <3>1, <3>2, ClassifyCases
    <3>3. CASE ping[q] # "ok"
      BY <1>0, <1>t, <3>1, <3>3, ClassifyCases
    <3> QED
      BY <3>2, <3>3
  <2> QED
    BY <2>1, <2>2
<1>4. ASSUME UNCHANGED tables
      PROVE  /\ state'[q] = Dead => since'[q] = DeadAfter
             /\ state'[q] = Suspect => since'[q] >= SuspectAfter
  BY <1>0, <1>4 DEF tables
<1>5. \/ UNCHANGED tables
      \/ Tick
      \/ \E p \in Peer : AddPeer(p) \/ MarkAliveManually(p) \/ PingPeer(p)
  BY DEF Next, vars, tables, callbacks, Start, Stop, HeartbeatRound, LoopExit, Answer,
         RunOnDead, RunOnAlive, Flip
<1> QED
  BY <1>1, <1>2, <1>3, <1>4, <1>5

(***************************************************************************)
(* pingPeer never calls a peer dead (or suspect) that has not been silent  *)
(* for DeadAfter (SuspectAfter), for any interleaving of pings, answers    *)
(* and manual marks.                                                       *)
(***************************************************************************)
THEOREM SilenceJustifiesState == Spec => []ClassifiedBySilence
<1>1. Init => ClassifiedBySilence
  BY DEF Init, ClassifiedBySilence, Unknown, Dead, Suspect
<1> QED
  BY <1>1, TypeCorrect, SilencePreserved, PTL DEF Spec

(***************************************************************************)
(* A dead peer leaves that state only by being seen alive, the one         *)
(* transition on which pingPeer fires OnNodeAlive.                         *)
(***************************************************************************)
THEOREM DeadStaysOrRevives == Spec => DeadOnlyToAlive
<1>1. ASSUME TypeOK, ClassifiedBySilence, [Next]_vars, NEW q \in Peer, state[q] = Dead
      PROVE  state'[q] \in {Dead, Alive}
  <2> USE DEF Unknown, Alive, Suspect, Dead
  <2>1. since[q] = DeadAfter /\ DeadAfter \in Nat
    BY <1>1, MembershipAssumption DEF ClassifiedBySilence
  <2>2. ASSUME NEW p \in Peer, PingPeer(p) PROVE state'[q] \in {Dead, Alive}
    <3>1. state'[q] = IF p = q THEN Classify(q) ELSE state[q]
      BY <1>1, <2>2 DEF TypeOK, PingPeer
    <3>2. Classify(q) \in {Dead, Alive}
      BY <1>1, <2>1, ClassifyCases
    <3> QED
      BY <1>1, <3>1, <3>2
  <2>3. ASSUME NEW p \in Peer, AddPeer(p) \/ MarkAliveManually(p)
        PROVE  state'[q] \in {Dead, Alive}
    BY <1>1, <2>3 DEF TypeOK, AddPeer, MarkAliveManually
  <2>4. \/ UNCHANGED state
        \/ \E p \in Peer : AddPeer(p) \/ MarkAliveManually(p) \/ PingPeer(p)
    BY <1>1 DEF Next, vars, tables, callbacks, Start, Stop, HeartbeatRound, LoopExit, Tick, Answer,
       RunOnDead, RunOnAlive, Flip
  <2> QED
    BY <1>1, <2>2, <2>3, <2>4
<1>2. ASSUME TypeOK, ClassifiedBySilence, [Next]_vars
      PROVE  [\A p \in Peer : state[p] = Dead => state'[p] \in {Dead, Alive}]_vars
  BY <1>1, <1>2
<1> QED
  BY <1>2, TypeCorrect, SilenceJustifiesState, PTL DEF Spec, DeadOnlyToAlive

----------------------------------------------------------------------------
(* The detector wired to the ring (SelfHealing).                           *)

(***************************************************************************)
(* Every step of the wired system is a step of the detector alone.         *)
(***************************************************************************)
LEMMA HealStepIsStep == [HealNext]_healVars => [Next]_vars
<1> SUFFICES ASSUME HealNext PROVE Next
  BY DEF healVars
<1> QED
  BY DEF HealNext, Next, Quiet, Join, HealPingPeer, HealMarkAliveManually, HandleNodeDead, HandleNodeAlive

(***************************************************************************)
(* What a verdict of pingPeer can do to the callbacks of a peer.           *)
(***************************************************************************)
LEMMA PingEffect ==
    ASSUME TypeOK, NEW p \in Peer, PingPeer(p), NEW q \in Peer
    PROVE  /\ q # p => /\ state'[q] = state[q]
                       /\ onDead'[q] = onDead[q] /\ onAlive'[q] = onAlive[q]
           /\ onDead'[p] = IF state[p] # Dead /\ state'[p] = Dead
                           THEN onDead[p] + 1 ELSE onDead[p]
           /\ onAlive'[p] = IF state[p] = Dead /\ state'[p] = Alive
                            THEN onAlive[p] + 1 ELSE onAlive[p]
           /\ state'[p] = Classify(p)
           /\ onDead' = onDead <=> onDead'[p] = onDead[p]
           /\ onAlive' = onAlive <=> onAlive'[p] = onAlive[p]
<1>1. state'[p] = Classify(p) /\ (q # p => state'[q] = state[q])
  BY DEF TypeOK, PingPeer
<1>2. onDead \in [Peer -> Nat] /\ onAlive \in [Peer -> Nat]
  BY MembershipAssumption DEF TypeOK
<1> QED
  BY <1>1, <1>2 DEF PingPeer

(***************************************************************************)
(* A peer in the table stays in it, and the ping of an absent peer is      *)
(* idle: no verdict is reached about a peer before it was added.           *)
(***************************************************************************)
PingsKnown == \A p \in Peer : ping[p] # "idle" => state[p] # Unknown

PendingKnown == \A p \in Peer : Pending(p) => state[p] # Unknown

HealInv == /\ HealTypeOK
           /\ ClassifiedBySilence
           /\ PingsKnown
           /\ PendingKnown
           /\ RingResolvable
           /\ LoneCallback
           /\ RingTracksUnlessAstray

LEMMA HealTypePreserved == HealTypeOK /\ [HealNext]_healVars => HealTypeOK'
<1> SUFFICES ASSUME HealTypeOK, [HealNext]_healVars PROVE HealTypeOK'
  OBVIOUS
<1>1. TypeOK'
  BY HealStepIsStep, TypePreserved DEF HealTypeOK
<1>2. ring' \subseteq Peer \cup {self} /\ astray' \subseteq Peer
  BY DEF HealTypeOK, HealNext, healVars, Quiet, Join, HealPingPeer, HealMarkAliveManually, HandleNodeDead,
         HandleNodeAlive
<1> QED
  BY <1>1, <1>2 DEF HealTypeOK

LEMMA CountsAreNat ==
    ASSUME TypeOK, NEW p \in Peer
    PROVE  onDead[p] \in Nat /\ onAlive[p] \in Nat
  BY MembershipAssumption DEF TypeOK

(***************************************************************************)
(* What the invariant says of one peer.                                    *)
(***************************************************************************)
PeerInv(q) ==
    /\ ping[q] # "idle" => state[q] # Unknown
    /\ Pending(q) => state[q] # Unknown
    /\ q \in ring => state[q] # Unknown
    /\ q \notin astray =>
           /\ onDead[q] + onAlive[q] <= 1
           /\ onDead[q] > 0 => state[q] = Dead
           /\ onAlive[q] > 0 => state[q] \in {Alive, Suspect}
           /\ ~Pending(q) => (q \in ring <=> state[q] \in {Alive, Suspect})

LEMMA InvByPeer ==
    HealInv <=> /\ HealTypeOK
                /\ ClassifiedBySilence
                /\ self \in ring
                /\ \A q \in Peer : PeerInv(q)
<1>1. HealTypeOK => (RingResolvable <=> /\ self \in ring
                                        /\ \A q \in Peer : q \in ring => state[q] # Unknown)
  BY SelfAssumption DEF HealTypeOK, RingResolvable, OnTable
<1> QED
  BY <1>1 DEF HealInv, PingsKnown, PendingKnown, LoneCallback, RingTracksUnlessAstray, PeerInv

(***************************************************************************)
(* A step that leaves the peer's entry, callbacks and place on the ring    *)
(* alone, and pings it only if it is known, keeps its invariant.           *)
(***************************************************************************)
LEMMA PeerUntouched ==
    ASSUME NEW q \in Peer, PeerInv(q),
           state'[q] = state[q], onDead'[q] = onDead[q], onAlive'[q] = onAlive[q],
           q \in ring' <=> q \in ring, q \in astray' <=> q \in astray,
           ping'[q] # "idle" => state[q] # Unknown
    PROVE  PeerInv(q)'
  BY DEF PeerInv, Pending

(***************************************************************************)
(* A verdict about q itself.                                               *)
(***************************************************************************)
LEMMA PeerPinged ==
    ASSUME HealTypeOK, ClassifiedBySilence, NEW q \in Peer, PeerInv(q), HealPingPeer(q)
    PROVE  PeerInv(q)'
<1>1. /\ PingPeer(q) /\ TypeOK /\ ring' = ring /\ ping'[q] = "idle"
      /\ state[q] # Unknown
  BY DEF HealTypeOK, HealPingPeer, PingPeer, TypeOK, PeerInv
<1>2. onDead[q] \in Nat /\ onAlive[q] \in Nat
  BY <1>1, CountsAreNat
<1>3. /\ onDead'[q] = IF state[q] # Dead /\ state'[q] = Dead THEN onDead[q] + 1 ELSE onDead[q]
      /\ onAlive'[q] = IF state[q] = Dead /\ state'[q] = Alive THEN onAlive[q] + 1 ELSE onAlive[q]
      /\ state'[q] = Classify(q)
      /\ onDead' = onDead <=> onDead'[q] = onDead[q]
      /\ onAlive' = onAlive <=> onAlive'[q] = onAlive[q]
  BY <1>1, PingEffect
<1>4. /\ state'[q] \in {Alive, Suspect, Dead}
      /\ state[q] = Dead => state'[q] \in {Alive, Dead}
      /\ state[q] \in {Alive, Suspect, Dead}
  <2>1. since[q] \in Nat /\ DeadAfter \in Nat
    BY <1>1, MembershipAssumption DEF TypeOK
  <2>2. state[q] = Dead => since[q] >= DeadAfter
    BY <2>1 DEF ClassifiedBySilence
  <2>3. state[q] \in {Alive, Suspect, Dead}
    BY <1>1 DEF TypeOK
  <2> QED
    BY <1>1, <1>3, <2>1, <2>2, <2>3 DEF Classify
<1> USE DEF Unknown, Alive, Suspect, Dead
<1>5. CASE onDead' = onDead /\ onAlive' = onAlive
  <2>1. state'[q] = Dead <=> state[q] = Dead
    BY <1>2, <1>3, <1>4, <1>5
  <2>2. astray' = astray
    BY <1>5 DEF HealPingPeer
  <2> QED
    BY <1>1, <1>4, <1>5, <2>1, <2>2 DEF PeerInv, Pending
<1>6. CASE ~(onDead' = onDead /\ onAlive' = onAlive) /\ Pending(q)
  <2>1. q \in astray'
    BY <1>6 DEF HealPingPeer
  <2> QED
    BY <1>1, <1>4, <2>1 DEF PeerInv
<1>7. CASE ~(onDead' = onDead /\ onAlive' = onAlive) /\ ~Pending(q)
  <2>1. onDead[q] = 0 /\ onAlive[q] = 0
    BY <1>2, <1>7 DEF Pending
  <2>2. \/ state'[q] = Dead /\ onDead'[q] = 1 /\ onAlive'[q] = 0
        \/ state'[q] = Alive /\ onDead'[q] = 0 /\ onAlive'[q] = 1
    BY <1>3, <1>7, <2>1
  <2> QED
    BY <1>1, <2>2 DEF PeerInv, Pending
<1> QED
  BY <1>5, <1>6, <1>7

LEMMA HealInvPreserved == HealInv /\ [HealNext]_healVars => HealInv'
<1> SUFFICES ASSUME HealInv, [HealNext]_healVars PROVE HealInv'
  OBVIOUS
<1>1. /\ HealTypeOK /\ TypeOK /\ ClassifiedBySilence /\ self \in ring
      /\ \A q \in Peer : PeerInv(q)
  BY InvByPeer DEF HealTypeOK
<1>2. HealTypeOK' /\ ClassifiedBySilence'
  BY <1>1, HealTypePreserved, HealStepIsStep, SilencePreserved
<1>3. self \in ring'
  BY <1>1, SelfAssumption DEF HealNext, healVars, Quiet, Join, HealPingPeer, HealMarkAliveManually, HandleNodeDead,
     HandleNodeAlive
<1>4. ASSUME NEW q \in Peer PROVE PeerInv(q)'
  <2>0. PeerInv(q) /\ onDead[q] \in Nat /\ onAlive[q] \in Nat
    BY <1>1, CountsAreNat
  <2>1. CASE \/ UNCHANGED healVars
             \/ Quiet(Start) \/ Quiet(Stop) \/ Quiet(LoopExit) \/ Quiet(Tick)
             \/ \E p \in Peer : Quiet(Flip(p))
    <3>1. UNCHANGED <<state, ping, onDead, onAlive, ring, astray>>
      BY <2>1 DEF healVars, vars, Quiet, tables, callbacks, Start, Stop, LoopExit, Tick, Flip
    <3> QED
      BY <2>0, <3>1, PeerUntouched DEF PeerInv
  <2>2. CASE Quiet(HeartbeatRound)
    <3>1. /\ UNCHANGED <<state, onDead, onAlive, ring, astray>>
          /\ ping'[q] # "idle" => state[q] # Unknown
      BY <2>2 DEF Quiet, HeartbeatRound, tables, callbacks
    <3> QED
      BY <2>0, <3>1, PeerUntouched
  <2>3. ASSUME NEW p \in Peer, Quiet(Answer(p)) PROVE PeerInv(q)'
    <3>1. /\ UNCHANGED <<state, onDead, onAlive, ring, astray>>
          /\ ping'[q] # "idle" => ping[q] # "idle"
      BY <1>1, <2>3 DEF Quiet, Answer, tables, callbacks, TypeOK
    <3> QED
      BY <2>0, <3>1, PeerUntouched DEF PeerInv
  <2>4. ASSUME NEW p \in Peer, Join(p) PROVE PeerInv(q)'
    <3>1. /\ UNCHANGED <<ping, onDead, onAlive, astray>> /\ ring' = ring \cup {p}
          /\ state[p] = Unknown /\ state' = [state EXCEPT ![p] = Alive]
      BY <2>4 DEF Join, AddPeer, callbacks
    <3>2. CASE q # p
      <4>1. state'[q] = state[q] /\ (q \in ring' <=> q \in ring)
        BY <1>1, <3>1, <3>2 DEF TypeOK
      <4> QED
        BY <2>0, <3>1, <4>1, PeerUntouched DEF PeerInv
    <3>3. CASE q = p
      <4>1. state'[q] = Alive /\ q \in ring'
        BY <1>1, <3>1, <3>3 DEF TypeOK
      <4>2. ~Pending(q) /\ ~Pending(q)' /\ onDead'[q] = 0 /\ onAlive'[q] = 0
        BY <2>0, <3>1, <3>3 DEF PeerInv, Pending
      <4> QED
        BY <4>1, <4>2 DEF PeerInv, Unknown, Alive, Suspect, Dead
    <3> QED
      BY <3>2, <3>3
  <2>5. ASSUME NEW p \in Peer, HealPingPeer(p) PROVE PeerInv(q)'
    <3>1. CASE q = p
      BY <1>1, <2>0, <2>5, <3>1, PeerPinged
    <3>2. CASE q # p
      <4>1. state'[q] = state[q] /\ onDead'[q] = onDead[q] /\ onAlive'[q] = onAlive[q]
        BY <1>1, <2>5, <3>2, PingEffect DEF HealPingPeer
      <4>2. ping'[q] = ping[q]
        BY <1>1, <2>5, <3>2 DEF HealPingPeer, PingPeer, TypeOK
      <4>3. ring' = ring /\ (q \in astray' <=> q \in astray)
        BY <2>5, <3>2 DEF HealPingPeer
      <4> QED
        BY <2>0, <4>1, <4>2, <4>3, PeerUntouched DEF PeerInv
    <3> QED
      BY <3>1, <3>2
  <2>6. ASSUME NEW p \in Peer, HandleNodeDead(p) PROVE PeerInv(q)'
    <3>1. /\ UNCHANGED <<state, ping, onAlive, astray>> /\ ring' = ring \ {p}
          /\ onDead[p] > 0 /\ onDead' = [onDead EXCEPT ![p] = @ - 1]
      BY <2>6 DEF HandleNodeDead, RunOnDead, tables
    <3>2. CASE q # p
      <4>1. onDead'[q] = onDead[q] /\ (q \in ring' <=> q \in ring)
        BY <1>1, <3>1, <3>2 DEF TypeOK
      <4> QED
        BY <2>0, <3>1, <4>1, PeerUntouched DEF PeerInv
    <3>3. CASE q = p
      <4>1. onDead'[q] = onDead[q] - 1 /\ q \notin ring' /\ Pending(q)
        BY <1>1, <2>0, <3>1, <3>3 DEF TypeOK, Pending
      <4> QED
        BY <2>0, <3>1, <3>3, <4>1 DEF PeerInv, Pending, Unknown, Alive, Suspect, Dead
    <3> QED
      BY <3>2, <3>3
  <2>7. ASSUME NEW p \in Peer, HandleNodeAlive(p) PROVE PeerInv(q)'
    <3>1. /\ UNCHANGED <<state, ping, onDead, astray>> /\ ring' = ring \cup {p}
          /\ onAlive[p] > 0 /\ onAlive' = [onAlive EXCEPT ![p] = @ - 1]
      BY <2>7 DEF HandleNodeAlive, RunOnAlive, tables
    <3>2. CASE q # p
      <4>1. onAlive'[q] = onAlive[q] /\ (q \in ring' <=> q \in ring)
        BY <1>1, <3>1, <3>2 DEF TypeOK
      <4> QED
        BY <2>0, <3>1, <4>1, PeerUntouched DEF PeerInv
    <3>3. CASE q = p
      <4>1. onAlive'[q] = onAlive[q] - 1 /\ q \in ring' /\ Pending(q)
        BY <1>1, <2>0, <3>1, <3>3 DEF TypeOK, Pending
      <4> QED
        BY <2>0, <3>1, <3>3, <4>1 DEF PeerInv, Pending, Unknown, Alive, Suspect, Dead
    <3> QED
      BY <3>2, <3>3
  <2>8. ASSUME NEW p \in Peer, HealMarkAliveManually(p) PROVE PeerInv(q)'
    <3>1. /\ UNCHANGED <<ping, onDead, onAlive, ring>> /\ state[p] # Unknown
          /\ state' = [state EXCEPT ![p] = Alive]
          /\ astray' = IF state[p] = Dead THEN astray \cup {p} ELSE astray
      BY <2>8 DEF HealMarkAliveManually, MarkAliveManually, callbacks
    <3>2. CASE q # p
      <4>1. state'[q] = state[q] /\ (q \in astray' <=> q \in astray)
        BY <1>1, <3>1, <3>2 DEF TypeOK
      <4> QED
        BY <2>0, <3>1, <4>1, PeerUntouched DEF PeerInv
    <3>3. CASE q = p
      <4>1. state'[q] = Alive /\ (state[q] = Dead => q \in astray')
            /\ state[q] \in {Alive, Suspect, Dead}
        BY <1>1, <3>1, <3>3 DEF TypeOK
      <4> QED
        BY <2>0, <3>1, <4>1 DEF PeerInv, Pending, Unknown, Alive, Suspect, Dead
    <3> QED
      BY <3>2, <3>3
  <2> QED
    BY <2>1, <2>2, <2>3, <2>4, <2>5, <2>6, <2>7, <2>8 DEF HealNext
<1>5. RingResolvable'
  BY <1>2, <1>3, <1>4, SelfAssumption DEF HealTypeOK, RingResolvable, OnTable, PeerInv
<1> QED
  BY <1>2, <1>4, <1>5 DEF HealInv, PingsKnown, PendingKnown, LoneCallback,
     RingTracksUnlessAstray, PeerInv

LEMMA HealInvInitially == HealInit => HealInv
<1> SUFFICES ASSUME HealInit PROVE HealInv
  OBVIOUS
<1>1. HealTypeOK /\ ClassifiedBySilence
  BY InitTyped DEF HealInit, HealTypeOK, Init, ClassifiedBySilence, Unknown, Dead, Suspect
<1>2. ASSUME NEW q \in Peer PROVE PeerInv(q)
  BY SelfAssumption DEF HealInit, Init, PeerInv, Pending, Unknown, Alive, Suspect
<1> QED
  BY <1>1, <1>2, InvByPeer DEF HealInit

LEMMA HealInvAlways == HealSpec => []HealInv
  BY HealInvInitially, HealInvPreserved, PTL DEF HealSpec

(***************************************************************************)
(* The wired node keeps its table, ring and history well formed.           *)
(***************************************************************************)
THEOREM HealTypeCorrect == HealSpec => []HealTypeOK
  BY HealInvAlways, PTL DEF HealInv

(***************************************************************************)
(* Every ring node but this one is in the table, so replicate never meets  *)
(* a target without an address, and this node stays on its own ring.       *)
(***************************************************************************)
THEOREM RingAlwaysResolvable == HealSpec => []RingResolvable
  BY HealInvAlways, PTL DEF HealInv

(***************************************************************************)
(* The ring agrees with the table about every peer whose callbacks have    *)
(* run, unless the last two overlapped or it was marked alive while dead:  *)
(* there is no other way for the two handlers to leave the ring wrong.     *)
(***************************************************************************)
THEOREM RingFollowsTable == HealSpec => []RingTracksUnlessAstray
  BY HealInvAlways, PTL DEF HealInv

(***************************************************************************)
(* Without overlap there is at most one callback outstanding for a peer,   *)
(* and it announces the state the table shows.                             *)
(***************************************************************************)
THEOREM CallbacksAreCurrent == HealSpec => []LoneCallback
  BY HealInvAlways, PTL DEF HealInv

(***************************************************************************)
(* The wired node implements the failure detector on its own: callbacks    *)
(* and ring updates add no step the detector could not take.               *)
(***************************************************************************)
THEOREM HealImplementsMembership == HealSpec => Spec
  BY HealStepIsStep, PTL DEF HealSpec, HealInit, Spec
=============================================================================
