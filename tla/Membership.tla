----------------------------- MODULE Membership -----------------------------
(***************************************************************************)
(* Failure detection at one node (internal/cluster/membership.go).         *)
(*                                                                         *)
(* The heartbeat loop pings every known peer concurrently and waits for    *)
(* all answers.  A ping reads the table, leaves the lock, asks the peer,   *)
(* takes the lock again and classifies the peer by the time since its last *)
(* heartbeat; a change to or from dead starts one goroutine per registered *)
(* callback, and nothing orders those goroutines.                          *)
(*                                                                         *)
(* Time is the variable since: the ticks since p.LastHeartbeat, counted up *)
(* to DeadAfter, beyond which the code makes no distinction.  A ping is a  *)
(* request (ping = "sent"), its outcome ("ok", "failed") and the update    *)
(* under the lock (back to "idle"), each its own step, so that time and    *)
(* other goroutines may come between.                                      *)
(***************************************************************************)
EXTENDS Naturals, FiniteSets

CONSTANTS Peer,          \* IDs AddPeer may be called with, self left out
          SuspectAfter,  \* ticks of silence before suspect (3 s)
          DeadAfter,     \* ticks of silence before dead (9 s)
          MaxCallbacks,  \* BOUND: unfinished callbacks per peer and kind
          Gossiped       \* BOUND: peers MarkAliveManually is called for, once each

ASSUME MembershipAssumption ==
    /\ SuspectAfter \in Nat \ {0}
    /\ DeadAfter \in Nat
    /\ SuspectAfter < DeadAfter
    /\ MaxCallbacks \in Nat \ {0}
    /\ Gossiped \subseteq Peer

Unknown == "unknown"     \* not in the table
Alive   == "alive"
Suspect == "suspect"
Dead    == "dead"

VARIABLES state,      \* peer -> Unknown or its State
          since,      \* peer -> ticks since LastHeartbeat, at most DeadAfter
          ping,       \* peer -> its ping of the current round
          onDead,     \* peer -> OnNodeDead goroutines not yet run
          onAlive,    \* peer -> OnNodeAlive goroutines not yet run
          loop,       \* the heartbeat goroutine
          stopped,    \* stopCh is closed
          reachable,  \* environment: /healthz of the peer answers 200 in time
          unmarked    \* BOUND: peers MarkAliveManually may still be called for

tables == <<state, since>>
callbacks == <<onDead, onAlive>>
vars == <<state, since, ping, onDead, onAlive, loop, stopped, reachable, unmarked>>

(***************************************************************************)
(* The current round's pings have all been judged (wg.Wait).               *)
(***************************************************************************)
RoundOver == \A p \in Peer : ping[p] = "idle"

(***************************************************************************)
(* The table, the pings of a round and the outstanding callbacks are well  *)
(* formed, and no ping outlives the loop that sent it: heartbeatRound      *)
(* waits for all of them, so nothing is classified after the loop's exit.  *)
(***************************************************************************)
TypeOK ==
    /\ state \in [Peer -> {Unknown, Alive, Suspect, Dead}]
    /\ since \in [Peer -> 0 .. DeadAfter]
    /\ ping \in [Peer -> {"idle", "sent", "ok", "failed"}]
    /\ onDead \in [Peer -> 0 .. MaxCallbacks]
    /\ onAlive \in [Peer -> 0 .. MaxCallbacks]
    /\ loop \in {"new", "running", "exited"}
    /\ stopped \in BOOLEAN
    /\ reachable \in [Peer -> BOOLEAN]
    /\ unmarked \subseteq Gossiped
    /\ loop # "running" => RoundOver

Init ==
    /\ state = [p \in Peer |-> Unknown]
    /\ since = [p \in Peer |-> 0]
    /\ ping = [p \in Peer |-> "idle"]
    /\ onDead = [p \in Peer |-> 0]
    /\ onAlive = [p \in Peer |-> 0]
    /\ loop = "new"
    /\ stopped = FALSE
    /\ reachable \in [Peer -> BOOLEAN]
    /\ unmarked = Gossiped

----------------------------------------------------------------------------
(***************************************************************************)
(* AddPeer for self or for a known peer returns at once.                   *)
(***************************************************************************)
AddPeer(p) ==
    /\ state[p] = Unknown
    /\ state' = [state EXCEPT ![p] = Alive]
    /\ since' = [since EXCEPT ![p] = 0]
    /\ UNCHANGED <<ping, callbacks, loop, stopped, reachable, unmarked>>

Start ==
    /\ loop = "new"
    /\ loop' = "running"
    /\ UNCHANGED <<tables, ping, callbacks, stopped, reachable, unmarked>>

Stop ==
    /\ loop # "new"
    /\ ~stopped
    /\ stopped' = TRUE
    /\ UNCHANGED <<tables, ping, callbacks, loop, reachable, unmarked>>

(***************************************************************************)
(* heartbeatRound: the loop's select took the ticker.  It may do so with   *)
(* stopCh closed too, because select picks among ready cases at random.    *)
(***************************************************************************)
HeartbeatRound ==
    /\ loop = "running"
    /\ RoundOver
    /\ ping' = [p \in Peer |-> IF state[p] = Unknown THEN "idle" ELSE "sent"]
    /\ UNCHANGED <<tables, callbacks, loop, stopped, reachable, unmarked>>

FaultyLoopExit ==  \* heartbeatRound returns without wg.Wait
    /\ loop = "running"
    /\ stopped
    /\ loop' = "exited"
    /\ UNCHANGED <<tables, ping, callbacks, stopped, reachable, unmarked>>

LoopExit ==
    /\ loop = "running"
    /\ stopped
    /\ RoundOver
    /\ loop' = "exited"
    /\ UNCHANGED <<tables, ping, callbacks, stopped, reachable, unmarked>>

(***************************************************************************)
(* pingPeer, first half: the GET /healthz outside the lock.                *)
(***************************************************************************)
Answer(p) ==
    /\ ping[p] = "sent"
    /\ ping' = [ping EXCEPT ![p] = IF reachable[p] THEN "ok" ELSE "failed"]
    /\ UNCHANGED <<tables, callbacks, loop, stopped, reachable, unmarked>>

(***************************************************************************)
(* pingPeer, second half, under the lock.  A failed ping before            *)
(* SuspectAfter leaves the state as it was.                                *)
(***************************************************************************)
FaultyClassify(p) ==  \* the two cases of the switch in the wrong order
    IF ping[p] = "ok" THEN Alive
    ELSE IF since[p] >= SuspectAfter THEN Suspect
    ELSE state[p]

FaultyEagerClassify(p) ==  \* dead at the suspect threshold
    IF ping[p] = "ok" THEN Alive
    ELSE IF since[p] >= SuspectAfter THEN Dead
    ELSE state[p]

FaultyStickyClassify(p) ==  \* an answer does not revive a dead peer
    IF ping[p] = "ok" /\ state[p] # Dead THEN Alive
    ELSE IF since[p] >= DeadAfter THEN Dead
    ELSE IF since[p] >= SuspectAfter THEN Suspect
    ELSE state[p]

Classify(p) ==
    IF ping[p] = "ok" THEN Alive
    ELSE IF since[p] >= DeadAfter THEN Dead
    ELSE IF since[p] >= SuspectAfter THEN Suspect
    ELSE state[p]

FaultyPingPeer(p) ==  \* OnNodeDead fires on suspicion already
    LET new == Classify(p)
        died == state[p] = Alive /\ new # Alive
        revived == state[p] = Dead /\ new = Alive
    IN  /\ ping[p] \in {"ok", "failed"}
        /\ state' = [state EXCEPT ![p] = new]
        /\ since' = IF ping[p] = "ok" THEN [since EXCEPT ![p] = 0] ELSE since
        /\ ping' = [ping EXCEPT ![p] = "idle"]
        /\ died => onDead[p] < MaxCallbacks
        /\ revived => onAlive[p] < MaxCallbacks
        /\ onDead' = IF died THEN [onDead EXCEPT ![p] = @ + 1] ELSE onDead
        /\ onAlive' = IF revived THEN [onAlive EXCEPT ![p] = @ + 1] ELSE onAlive
        /\ UNCHANGED <<loop, stopped, reachable, unmarked>>

PingPeer(p) ==
    LET new == Classify(p)
        died == state[p] # Dead /\ new = Dead
        revived == state[p] = Dead /\ new = Alive
    IN  /\ ping[p] \in {"ok", "failed"}
        /\ state' = [state EXCEPT ![p] = new]
        /\ since' = IF ping[p] = "ok" THEN [since EXCEPT ![p] = 0] ELSE since
        /\ ping' = [ping EXCEPT ![p] = "idle"]
        /\ died => onDead[p] < MaxCallbacks
        /\ revived => onAlive[p] < MaxCallbacks
        /\ onDead' = IF died THEN [onDead EXCEPT ![p] = @ + 1] ELSE onDead
        /\ onAlive' = IF revived THEN [onAlive EXCEPT ![p] = @ + 1] ELSE onAlive
        /\ UNCHANGED <<loop, stopped, reachable, unmarked>>

(***************************************************************************)
(* MarkAliveManually overrides the detector and fires no callback.         *)
(***************************************************************************)
FaultyMarkAliveManually(p) ==  \* LastHeartbeat set, the state forgotten
    /\ p \in unmarked
    /\ state[p] # Unknown
    /\ since' = [since EXCEPT ![p] = 0]
    /\ unmarked' = unmarked \ {p}
    /\ UNCHANGED <<state, ping, callbacks, loop, stopped, reachable>>

MarkAliveManually(p) ==
    /\ p \in unmarked
    /\ state[p] # Unknown
    /\ state' = [state EXCEPT ![p] = Alive]
    /\ since' = [since EXCEPT ![p] = 0]
    /\ unmarked' = unmarked \ {p}
    /\ UNCHANGED <<ping, callbacks, loop, stopped, reachable>>

(***************************************************************************)
(* A callback goroutine runs.                                              *)
(***************************************************************************)
RunOnDead(p) ==
    /\ onDead[p] > 0
    /\ onDead' = [onDead EXCEPT ![p] = @ - 1]
    /\ UNCHANGED <<tables, ping, onAlive, loop, stopped, reachable, unmarked>>

RunOnAlive(p) ==
    /\ onAlive[p] > 0
    /\ onAlive' = [onAlive EXCEPT ![p] = @ - 1]
    /\ UNCHANGED <<tables, ping, onDead, loop, stopped, reachable, unmarked>>

----------------------------------------------------------------------------
(***************************************************************************)
(* The environment: time passes; peers go down and come back.  Whether a   *)
(* peer is up matters only while it is asked, so it changes only then.     *)
(***************************************************************************)
Tick ==
    /\ since' = [p \in Peer |-> IF state[p] # Unknown /\ since[p] < DeadAfter
                                THEN since[p] + 1 ELSE since[p]]
    /\ since' # since
    /\ UNCHANGED <<state, ping, callbacks, loop, stopped, reachable, unmarked>>

Flip(p) ==
    /\ ping[p] = "sent"
    /\ reachable' = [reachable EXCEPT ![p] = ~@]
    /\ UNCHANGED <<tables, ping, callbacks, loop, stopped, unmarked>>

Detector(p) == Answer(p) \/ PingPeer(p)

Next ==
    \/ Start
    \/ Stop
    \/ HeartbeatRound
    \/ LoopExit
    \/ Tick
    \/ \E p \in Peer : \/ AddPeer(p)
                       \/ Answer(p)
                       \/ PingPeer(p)
                       \/ MarkAliveManually(p)
                       \/ RunOnDead(p)
                       \/ RunOnAlive(p)
                       \/ Flip(p)

(***************************************************************************)
(* The ticker keeps firing, an HTTP request ends (2 s timeout), runnable   *)
(* goroutines are scheduled, and the clock advances.  select chooses at    *)
(* random, so a closed stopCh is not passed over for ever.                 *)
(***************************************************************************)
Fairness ==
    /\ WF_vars(HeartbeatRound)
    /\ SF_vars(LoopExit)
    /\ WF_vars(Tick)
    /\ \A p \in Peer : /\ WF_vars(Detector(p))
                       /\ WF_vars(RunOnDead(p))
                       /\ WF_vars(RunOnAlive(p))

Spec == Init /\ [][Next]_vars

FairSpec == Spec /\ Fairness

----------------------------------------------------------------------------
(***************************************************************************)
(* The state a peer is shown in is backed by silence: a dead peer has been *)
(* silent for DeadAfter, a suspect one for SuspectAfter, also when the     *)
(* verdict was reached with a ping that was answered long ago or a manual  *)
(* mark fell between a ping and its verdict.                               *)
(***************************************************************************)
ClassifiedBySilence ==
    \A p \in Peer : /\ state[p] = Dead => since[p] = DeadAfter
                    /\ state[p] = Suspect => since[p] >= SuspectAfter

(***************************************************************************)
(* A dead peer can only become alive again, never suspect: OnNodeAlive     *)
(* fires on dead -> alive alone, so a peer that slipped from dead to       *)
(* suspect to alive would stay off the ring.                               *)
(***************************************************************************)
DeadOnlyToAlive ==
    [][\A p \in Peer : state[p] = Dead => state'[p] \in {Dead, Alive}]_vars

Monitored(p) == state[p] # Unknown /\ loop = "running" /\ ~stopped

(***************************************************************************)
(* A peer that stays down while the loop runs ends up dead for good,       *)
(* whatever answers, verdicts and manual marks went before (pingPeer).     *)
(***************************************************************************)
DownIsNoticed ==
    \A p \in Peer : <>[](Monitored(p) /\ ~reachable[p]) => <>[](state[p] = Dead)

(***************************************************************************)
(* A peer that stays up while the loop runs ends up alive for good, also   *)
(* from dead and with a failed ping still to be judged (pingPeer).         *)
(***************************************************************************)
UpIsNoticed ==
    \A p \in Peer : <>[](Monitored(p) /\ reachable[p]) => <>[](state[p] = Alive)
=============================================================================
