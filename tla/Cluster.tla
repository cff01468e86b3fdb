------------------------------- MODULE Cluster ------------------------------
(***************************************************************************)
(* All nodes together, and one chunk: an upload is accepted somewhere, the *)
(* accepting node's engine pushes the chunk to the owners its own ring     *)
(* names, and every node follows deaths and returns on its own.            *)
(*                                                                         *)
(* The parts are those of the modules about one node, seen from further    *)
(* away: a push with its retries is one step (Replication), a node's walk  *)
(* over its chunks is one visit of this chunk (Recovery), a declared death *)
(* changes the ring at once (SelfHealing).  What is new is that nodes act  *)
(* on different views, crash, and come back with their files but without   *)
(* queue, jobs and repairs.                                                *)
(***************************************************************************)
EXTENDS Naturals, FiniteSets, Preference

CONSTANTS Node,      \* physical nodes
          Rank,      \* node -> place in the walk from the chunk
          Factor,    \* copies of a chunk (3 in the code)
          None,      \* no node
          MaxFaults  \* BOUND: crashes, false alarms and short outages

ASSUME ClusterAssumption ==
    /\ IsFiniteSet(Node)
    /\ None \notin Node
    /\ Rank \in [Node -> Nat]
    /\ \A m, n \in Node : Rank[m] = Rank[n] => m = n
    /\ Factor \in Nat \ {0}
    /\ MaxFaults \in Nat

VARIABLES ring,    \* node -> the nodes on its hash ring
          disk,    \* the nodes that store the chunk
          up,      \* the nodes that run
          queue,   \* node -> jobs for the chunk in its queue
          job,     \* node -> the owners its worker saw when it took its job
          todo,    \* node -> targets of that job still to push to
          repair,  \* node -> declared deaths whose repair has not come to the chunk
          acked,   \* the node that acknowledged the upload
          excuse,  \* history: what happened that nothing makes good again
          faults   \* BOUND: faults so far

tasks == <<queue, job, todo, repair>>
vars == <<ring, disk, up, tasks, acked, excuse, faults>>

Excuse == {"wiped", "skipped self", "missed", "late", "unnoticed", "readmitted"}

(***************************************************************************)
(* Every node is on its own ring and pushes only to the other owners its   *)
(* job names, never to itself; a node that is down has nothing to do.      *)
(***************************************************************************)
TypeOK ==
    /\ ring \in [Node -> SUBSET Node] /\ \A n \in Node : n \in ring[n]
    /\ disk \subseteq Node /\ up \subseteq Node
    /\ queue \in [Node -> Nat]
    /\ job \in [Node -> SUBSET Node]
    /\ todo \in [Node -> SUBSET Node] /\ \A n \in Node : todo[n] \subseteq job[n] \ {n}
    /\ repair \in [Node -> SUBSET Node]
    /\ \A n \in Node \ up : queue[n] = 0 /\ todo[n] = {} /\ repair[n] = {}
    /\ acked \in Node \cup {None}
    /\ excuse \subseteq Excuse
    /\ faults \in 0 .. MaxFaults

Owners == [S \in SUBSET Node |-> FirstN(Rank, S, Factor)]

Current(n) == CHOOSE t \in todo[n] : Before(Rank, todo[n], t) = {}

Init ==
    /\ ring = [n \in Node |-> Node]
    /\ disk = {} /\ up = Node
    /\ queue = [n \in Node |-> 0]
    /\ job = [n \in Node |-> {}] /\ todo = [n \in Node |-> {}]
    /\ repair = [n \in Node |-> {}]
    /\ acked = None /\ excuse = {}
    /\ faults = 0

Fault == faults < MaxFaults /\ faults' = faults + 1

----------------------------------------------------------------------------
(***************************************************************************)
(* handleUploadBlob at n: keep a copy if n is an owner in its view, hand   *)
(* the chunk to the engine, answer the client.                             *)
(***************************************************************************)
FaultyUpload(n) ==  \* only chunks this node stores are enqueued
    /\ acked = None
    /\ n \in up
    /\ disk' = IF n \in Owners[ring[n]] THEN disk \cup {n} ELSE disk
    /\ queue' = IF n \in Owners[ring[n]] THEN [queue EXCEPT ![n] = @ + 1] ELSE queue
    /\ acked' = n
    /\ UNCHANGED <<ring, up, job, todo, repair, excuse, faults>>

Upload(n) ==
    /\ acked = None
    /\ n \in up
    /\ disk' = IF n \in Owners[ring[n]] THEN disk \cup {n} ELSE disk
    /\ queue' = [queue EXCEPT ![n] = @ + 1]
    /\ acked' = n
    /\ UNCHANGED <<ring, up, job, todo, repair, excuse, faults>>

(***************************************************************************)
(* A worker of n takes a job and reads the ring.  It leaves itself out,    *)
(* whether or not it has the chunk.                                        *)
(***************************************************************************)
FaultyTake(n) ==  \* the worker pushes to itself too
    /\ queue[n] > 0 /\ todo[n] = {}
    /\ queue' = [queue EXCEPT ![n] = @ - 1]
    /\ job' = [job EXCEPT ![n] = Owners[ring[n]]]
    /\ todo' = [todo EXCEPT ![n] = Owners[ring[n]]]
    /\ UNCHANGED <<ring, disk, up, repair, acked, excuse, faults>>

Take(n) ==
    /\ queue[n] > 0 /\ todo[n] = {}
    /\ queue' = [queue EXCEPT ![n] = @ - 1]
    /\ job' = [job EXCEPT ![n] = Owners[ring[n]]]
    /\ todo' = [todo EXCEPT ![n] = Owners[ring[n]] \ {n}]
    /\ excuse' = IF n \in Owners[ring[n]] \ disk THEN excuse \cup {"skipped self"} ELSE excuse
    /\ UNCHANGED <<ring, disk, up, repair, acked, faults>>

(***************************************************************************)
(* A push arrives.  It is late if the target, new to the chunk, knows of   *)
(* an owner that the job leaves out, and no repair to come makes the       *)
(* target look at the chunk as an owner of it.                             *)
(***************************************************************************)
Push(n) ==
    LET t == Current(n)
    IN  /\ todo[n] # {} /\ t \in up
        /\ disk' = disk \cup {t}
        /\ todo' = [todo EXCEPT ![n] = @ \ {t}]
        /\ excuse' = IF /\ t \notin disk /\ ~(Owners[ring[t]] \subseteq job[n])
                        /\ repair[t] = {} \/ t \notin Owners[ring[t]]
                     THEN excuse \cup {"late"} ELSE excuse
        /\ UNCHANGED <<ring, up, queue, job, repair, acked, faults>>

(***************************************************************************)
(* All six attempts failed: the target is down, or was out of reach for    *)
(* longer than the retries take (6 s) and shorter than the detector needs  *)
(* to call it dead (9 s).                                                  *)
(***************************************************************************)
GiveUp(n) ==
    LET t == Current(n)
    IN  /\ todo[n] # {}
        /\ IF t \in up THEN Fault ELSE UNCHANGED faults
        /\ todo' = [todo EXCEPT ![n] = @ \ {t}]
        /\ excuse' = IF t \in up THEN excuse \cup {"missed"} ELSE excuse
        /\ UNCHANGED <<ring, disk, up, queue, job, repair, acked>>

----------------------------------------------------------------------------
(***************************************************************************)
(* HandleNodeDead at n for a node that is down, or a false alarm; then the *)
(* repair goroutine comes to the chunk.                                    *)
(***************************************************************************)
FaultyDeclareDead(n, p) ==  \* repairs only what the dead node owned
    /\ n \in up /\ p \in ring[n] \ {n}
    /\ IF p \in up THEN Fault ELSE UNCHANGED faults
    /\ ring' = [ring EXCEPT ![n] = @ \ {p}]
    /\ repair' = IF p \in Owners[ring[n]] THEN [repair EXCEPT ![n] = @ \cup {p}] ELSE repair
    /\ UNCHANGED <<disk, up, queue, job, todo, acked, excuse>>

DeclareDead(n, p) ==
    /\ n \in up /\ p \in ring[n] \ {n}
    /\ IF p \in up THEN Fault ELSE UNCHANGED faults
    /\ ring' = [ring EXCEPT ![n] = @ \ {p}]
    /\ repair' = [repair EXCEPT ![n] = @ \cup {p}]
    /\ UNCHANGED <<disk, up, queue, job, todo, acked, excuse>>

FaultyRepairVisit(n, p) ==  \* leaves it to the first owner to restore copies
    /\ p \in repair[n]
    /\ repair' = [repair EXCEPT ![n] = @ \ {p}]
    /\ queue' = IF n \in disk /\ Before(Rank, ring[n], n) = {}
                THEN [queue EXCEPT ![n] = @ + 1] ELSE queue
    /\ UNCHANGED <<ring, disk, up, job, todo, acked, excuse, faults>>

RepairVisit(n, p) ==
    /\ p \in repair[n]
    /\ repair' = [repair EXCEPT ![n] = @ \ {p}]
    /\ queue' = IF n \in disk \cap Owners[ring[n]] THEN [queue EXCEPT ![n] = @ + 1] ELSE queue
    /\ UNCHANGED <<ring, disk, up, job, todo, acked, excuse, faults>>

(***************************************************************************)
(* HandleNodeAlive: p is on n's ring again; no chunk moves.                *)
(***************************************************************************)
DeclareAlive(n, p) ==
    /\ n \in up /\ p \in up \ ring[n]
    /\ ring' = [ring EXCEPT ![n] = @ \cup {p}]
    /\ excuse' = IF acked = None THEN excuse ELSE excuse \cup {"readmitted"}
    /\ UNCHANGED <<disk, up, tasks, acked, faults>>

(***************************************************************************)
(* A crash keeps the files.  In the middle of a job it goes unnoticed by   *)
(* the nodes with the chunk that hold the crashed node for dead already.   *)
(* A node starts with all its peers on its ring.                           *)
(***************************************************************************)
Crash(n) ==
    /\ Fault
    /\ n \in up
    /\ up' = up \ {n}
    /\ queue' = [queue EXCEPT ![n] = 0]
    /\ job' = [job EXCEPT ![n] = {}] /\ todo' = [todo EXCEPT ![n] = {}]
    /\ repair' = [repair EXCEPT ![n] = {}]
    /\ excuse' = excuse
           \cup (IF n \notin disk /\ (queue[n] > 0 \/ todo[n] # {}) THEN {"wiped"} ELSE {})
           \cup (IF todo[n] # {} /\ \E d \in disk \cap (up \ {n}) : n \notin ring[d]
                 THEN {"unnoticed"} ELSE {})
    /\ UNCHANGED <<ring, disk, acked>>

Restart(n) ==
    /\ n \notin up
    /\ up' = up \cup {n}
    /\ ring' = [ring EXCEPT ![n] = Node]
    /\ excuse' = IF acked = None THEN excuse ELSE excuse \cup {"readmitted"}
    /\ UNCHANGED <<disk, tasks, acked, faults>>

WorkerStep(n) == Take(n) \/ Push(n) \/ GiveUp(n)

Next == \E n \in Node : \/ Upload(n)
                        \/ WorkerStep(n)
                        \/ Crash(n)
                        \/ Restart(n)
                        \/ \E p \in Node : \/ DeclareDead(n, p)
                                           \/ RepairVisit(n, p)
                                           \/ DeclareAlive(n, p)

(***************************************************************************)
(* A node that runs goes on: its worker, its repairs, its failure detector *)
(* (a node that is down is found dead, one that is up alive).  Nothing is  *)
(* assumed of uploads, crashes and restarts.                               *)
(***************************************************************************)
NodeStep(n) ==
    \/ WorkerStep(n)
    \/ \E p \in Node : \/ p \notin up /\ DeclareDead(n, p)
                       \/ RepairVisit(n, p)
                       \/ DeclareAlive(n, p)

Fairness == \A n \in Node : WF_vars(NodeStep(n))

Spec == Init /\ [][Next]_vars

FairSpec == Spec /\ Fairness

----------------------------------------------------------------------------
Lost == acked # None /\ disk = {} /\ \A n \in Node : queue[n] = 0 /\ todo[n] = {}

(***************************************************************************)
(* While the accepting node keeps running, it takes as many faults as a    *)
(* chunk has copies to lose an acknowledged one: handleUploadBlob answers  *)
(* a client before any push when its node is no owner, and no owner then   *)
(* gets the chunk only if each of them crashed, was out of reach for all   *)
(* six attempts or was taken for dead, one fault each, whatever the ring   *)
(* was when the worker read it.                                            *)
(***************************************************************************)
LossTakesFaults == Lost => "wiped" \in excuse \/ faults >= Factor

LiveOwners == Owners[up]

Excused == excuse \cap {"skipped self", "missed", "late", "unnoticed", "readmitted"} # {}

(***************************************************************************)
(* No missing copy is overlooked: when a running node has the chunk and    *)
(* names a running owner that lacks it, somebody is pushing it there, or   *)
(* the node has the chunk in its queue, a repair to finish or a death to   *)
(* find out about (worker, repairLocalChunks, HandleNodeDead).  So nodes   *)
(* that have nothing left to do have restored the replication factor.      *)
(***************************************************************************)
NoCopyOverlooked ==
    ~Excused => \A d \in disk \cap up : \A o \in Owners[ring[d]] \cap up :
                    \/ o \in disk
                    \/ \E n \in Node : o \in todo[n]
                    \/ queue[d] > 0 \/ repair[d] # {} \/ ~(ring[d] \subseteq up)

(***************************************************************************)
(* Repair restores the replication factor: once acknowledged, a chunk with *)
(* a copy on a running node ends up with all its live owners, unless an    *)
(* owner was skipped as "self" or missed in a short outage, a push came in *)
(* after the target's own repair, a node crashed in the middle of a job    *)
(* when a node with the chunk held it for dead already, or a node was      *)
(* re-admitted.                                                            *)
(***************************************************************************)
RepairConverges ==
    []<>(\/ acked = None
         \/ LiveOwners \subseteq disk
         \/ disk \cap up = {}
         \/ Excused)

(***************************************************************************)
(* The comment in handleUploadBlob: "every node that touches a chunk       *)
(* during upload makes sure the full replica set converges".  Asked only   *)
(* of runs in which the accepting node stays up and nobody is out of reach *)
(* for a moment or comes back.                                             *)
(***************************************************************************)
FullSetConverges ==
    /\ <>[](acked \in up)
    /\ [](excuse \cap {"missed", "readmitted"} = {})
    => <>[](LiveOwners \subseteq disk)
=============================================================================
