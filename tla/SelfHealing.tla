---------------------------- MODULE SelfHealing -----------------------------
(***************************************************************************)
(* The failure detector wired to the hash ring, as cmd/node/main.go does:  *)
(* peers are put in the table and on the ring together before the          *)
(* heartbeat loop starts, and from then on the ring changes only in the    *)
(* callbacks recovery.HandleNodeDead and recovery.HandleNodeAlive.         *)
(* MarkAliveManually changes the table and fires no callback.  The repair  *)
(* that HandleNodeDead also starts is module Recovery's.                   *)
(*                                                                         *)
(* The callbacks run in goroutines of their own.  A history variable,      *)
(* astray, marks the peers whose latest callback was started while an      *)
(* earlier one had not run yet, or that were marked alive by hand while    *)
(* dead.                                                                   *)
(***************************************************************************)
EXTENDS Membership

CONSTANT self  \* this node

ASSUME SelfAssumption == self \notin Peer

VARIABLES ring,   \* the node set of the hash ring
          astray  \* history: peers the ring may be wrong about

healVars == <<vars, ring, astray>>

(***************************************************************************)
(* The detector's state is well formed, and only peers and this node are   *)
(* ever put on the ring.                                                   *)
(***************************************************************************)
HealTypeOK == /\ TypeOK
              /\ ring \subseteq Peer \cup {self}
              /\ astray \subseteq Peer

HealInit == /\ Init
            /\ ring = {self}
            /\ astray = {}

----------------------------------------------------------------------------
FaultyJoin(p) ==  \* the peer is put on the ring only
    /\ loop = "new"
    /\ p \notin ring
    /\ ring' = ring \cup {p}
    /\ UNCHANGED <<vars, astray>>

Join(p) ==
    /\ loop = "new"
    /\ AddPeer(p)
    /\ ring' = ring \cup {p}
    /\ UNCHANGED astray

Pending(p) == onDead[p] + onAlive[p] > 0

HealPingPeer(p) ==
    /\ PingPeer(p)
    /\ astray' = IF onDead' = onDead /\ onAlive' = onAlive THEN astray
                 ELSE IF Pending(p) THEN astray \cup {p}
                 ELSE astray \ {p}
    /\ UNCHANGED ring

HealMarkAliveManually(p) ==
    /\ MarkAliveManually(p)
    /\ astray' = IF state[p] = Dead THEN astray \cup {p} ELSE astray
    /\ UNCHANGED ring

FaultyHandleNodeDead(p) ==  \* the ring is not told
    /\ RunOnDead(p)
    /\ UNCHANGED <<ring, astray>>

HandleNodeDead(p) ==
    /\ RunOnDead(p)
    /\ ring' = ring \ {p}
    /\ UNCHANGED astray

FaultyHandleNodeAlive(p) ==  \* logged, but not re-added
    /\ RunOnAlive(p)
    /\ UNCHANGED <<ring, astray>>

HandleNodeAlive(p) ==
    /\ RunOnAlive(p)
    /\ ring' = ring \cup {p}
    /\ UNCHANGED astray

Quiet(A) == A /\ UNCHANGED <<ring, astray>>

HealNext ==
    \/ Quiet(Start)
    \/ Quiet(Stop)
    \/ Quiet(HeartbeatRound)
    \/ Quiet(LoopExit)
    \/ Quiet(Tick)
    \/ \E p \in Peer : \/ Join(p)
                       \/ Quiet(Answer(p))
                       \/ HealPingPeer(p)
                       \/ HealMarkAliveManually(p)
                       \/ HandleNodeDead(p)
                       \/ HandleNodeAlive(p)
                       \/ Quiet(Flip(p))

HealFairness ==
    /\ WF_healVars(Quiet(HeartbeatRound))
    /\ SF_healVars(Quiet(LoopExit))
    /\ WF_healVars(Quiet(Tick))
    /\ \A p \in Peer : /\ WF_healVars(Quiet(Answer(p)) \/ HealPingPeer(p))
                       /\ WF_healVars(HandleNodeDead(p))
                       /\ WF_healVars(HandleNodeAlive(p))

HealSpec == HealInit /\ [][HealNext]_healVars

FairHealSpec == HealSpec /\ HealFairness

----------------------------------------------------------------------------
OnTable(p) == state[p] # Unknown

(***************************************************************************)
(* This node never drops off its own ring, and every other node on it is   *)
(* in the membership table: the address a worker resolves for a replica    *)
(* target (AddrFor) always exists, dead or not.                            *)
(***************************************************************************)
RingResolvable == self \in ring /\ \A p \in ring \ {self} : OnTable(p)

(***************************************************************************)
(* Once its callbacks have run, a peer is on the ring exactly when the     *)
(* table does not hold it dead, provided its last two callbacks did not    *)
(* overlap and it was not marked alive while dead.  The next callback that *)
(* runs alone puts an astray peer right.                                   *)
(***************************************************************************)
RingTracksUnlessAstray ==
    \A p \in Peer \ astray :
        ~Pending(p) => (p \in ring <=> state[p] \in {Alive, Suspect})

(***************************************************************************)
(* RingTracksUnlessAstray made inductive: for a peer not astray at most    *)
(* one callback is outstanding and it is about the peer's present state.   *)
(***************************************************************************)
LoneCallback ==
    \A p \in Peer \ astray : /\ onDead[p] + onAlive[p] <= 1
                             /\ onDead[p] > 0 => state[p] = Dead
                             /\ onAlive[p] > 0 => state[p] \in {Alive, Suspect}

(***************************************************************************)
(* Self-healing does heal: a peer that stays down leaves the ring for good *)
(* and one that stays up is re-admitted for good, unless it is astray.     *)
(***************************************************************************)
HealsUnlessAstray ==
    \A p \in Peer :
        /\ <>[](Monitored(p) /\ p \notin astray /\ ~reachable[p]) => <>[](p \notin ring)
        /\ <>[](Monitored(p) /\ p \notin astray /\ reachable[p]) => <>[](p \in ring)

(***************************************************************************)
(* What membership.go and recovery.go say of a peer that comes back: it is *)
(* re-added to the hash ring.                                              *)
(***************************************************************************)
UpIsReadmitted ==
    \A p \in Peer : <>[](Monitored(p) /\ reachable[p]) => <>[](p \in ring)
=============================================================================
