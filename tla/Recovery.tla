------------------------------ MODULE Recovery ------------------------------
(***************************************************************************)
(* Self-healing repair at one node (internal/recovery), on top of the      *)
(* replication engine whose queue it shares with uploads.                  *)
(*                                                                         *)
(* HandleNodeDead takes a node off the ring and starts a goroutine that    *)
(* lists the local chunks and re-enqueues those this node is an owner of;  *)
(* HandleNodeAlive puts a node back and moves no data.  Meanwhile upload   *)
(* handlers store and enqueue the chunks of client blobs, and peers push   *)
(* chunks to this node.  All of them read the ring afresh at each step and *)
(* may wait for room in the queue.  The end of the process: NodeProcess.   *)
(***************************************************************************)
EXTENDS Replication

CONSTANTS Handler,     \* upload requests
          Blob,        \* handler -> the chunks of its blob, in order
          Received,    \* BOUND: chunks that peers push to this node
          DiskFaults,  \* local reads, writes and listings may fail
          MaxDeaths,   \* BOUND: calls of HandleNodeDead
          MaxRevivals  \* BOUND: calls of HandleNodeAlive

ASSUME RecoveryAssumption ==
    /\ Blob \in [Handler -> Seq(Chunk)]
    /\ Received \subseteq Chunk
    /\ DiskFaults \in BOOLEAN
    /\ MaxDeaths \in Nat
    /\ MaxRevivals \in Nat

VARIABLES rpc,         \* dead node -> where its repair goroutine is
          ids,         \* dead node -> listed chunks not visited yet
          cur,         \* dead node -> chunk its repair is enqueueing
          hpc,         \* handler -> where it is
          hpos,        \* handler -> index of the chunk it is at
          repairOwed,  \* history: <<chunk, node>> repair has to see to
          unread,      \* history: chunks a failed local read or listing left out
          deaths, revivals  \* BOUND

repairs == <<rpc, ids, cur>>
uploads == <<hpc, hpos>>
counts == <<deaths, revivals>>
engine == <<queue, closed, cancelled, pc, job, todo, attempt, owed, gaveUp,
            abandoned, jobs>>
recVars == <<vars, rpc, ids, cur, hpc, hpos, repairOwed, unread, deaths, revivals>>

(***************************************************************************)
(* The engine, the repairs and the uploads are well formed; repair owes    *)
(* chunks to other nodes only.                                             *)
(***************************************************************************)
RecTypeOK ==
    /\ TypeOK
    /\ rpc \in [Node -> {"none", "list", "walk", "send"}]
    /\ ids \in [Node -> SUBSET Chunk]
    /\ cur \in [Node -> Chunk \cup {NoChunk}]
    /\ hpc \in [Handler -> {"idle", "chunk", "send", "acked", "failed"}]
    /\ hpos \in [Handler -> Nat]
    /\ repairOwed \subseteq Chunk \X (Node \ {self})
    /\ unread \subseteq Chunk
    /\ deaths \in 0 .. MaxDeaths /\ revivals \in 0 .. MaxRevivals

RecInit ==
    /\ Init
    /\ rpc = [d \in Node |-> "none"]
    /\ ids = [d \in Node |-> {}]
    /\ cur = [d \in Node |-> NoChunk]
    /\ hpc = [h \in Handler |-> "idle"]
    /\ hpos = [h \in Handler |-> 1]
    /\ repairOwed = {} /\ unread = {}
    /\ deaths = 0 /\ revivals = 0

----------------------------------------------------------------------------
(***************************************************************************)
(* What the death of d leaves this node to see to: its own chunks that it  *)
(* is an owner of on the new ring, at each of the other owners.            *)
(***************************************************************************)
OwedAfter(d) ==
    {p \in Chunk \X (Node \ {self}) :
         p[1] \in stored[self]
         /\ {self, p[2]} \subseteq FirstN(Rank[p[1]], ring \ {d}, Factor)}

HandleNodeDead(d) ==
    /\ d # self
    /\ deaths < MaxDeaths
    /\ rpc[d] = "none"  \* BOUND: one repair goroutine per dead node
    /\ ring' = ring \ {d}
    /\ rpc' = [rpc EXCEPT ![d] = "list"]
    /\ repairOwed' = {p \in repairOwed : p[2] # d} \cup OwedAfter(d)
    /\ deaths' = deaths + 1
    /\ UNCHANGED <<engine, stored, up, ids, cur, uploads, unread, revivals>>

HandleNodeAlive(n) ==
    /\ n \notin ring
    /\ revivals < MaxRevivals
    /\ ring' = ring \cup {n}
    /\ revivals' = revivals + 1
    /\ UNCHANGED <<engine, stored, up, repairs, uploads, repairOwed, unread, deaths>>

(***************************************************************************)
(* repairLocalChunks: list; visit each chunk, skipping those this node no  *)
(* longer owns; enqueue.                                                   *)
(***************************************************************************)
RepairList(d) ==
    /\ rpc[d] = "list"
    /\ \/ /\ ids' = [ids EXCEPT ![d] = stored[self]]
          /\ rpc' = [rpc EXCEPT ![d] = "walk"]
          /\ UNCHANGED unread
       \/ /\ DiskFaults
          /\ rpc' = [rpc EXCEPT ![d] = "none"]
          /\ unread' = unread \cup stored[self]
          /\ UNCHANGED ids
    /\ UNCHANGED <<vars, cur, uploads, repairOwed, counts>>

FaultyRepairVisit(d, c) ==  \* pushes only what the dead node was primary for
    /\ rpc[d] = "walk"
    /\ c \in ids[d]
    /\ ids' = [ids EXCEPT ![d] = @ \ {c}]
    /\ IF Nearest(c, ring \cup {d}) = d
       THEN /\ rpc' = [rpc EXCEPT ![d] = "send"]
            /\ cur' = [cur EXCEPT ![d] = c]
       ELSE UNCHANGED <<rpc, cur>>
    /\ UNCHANGED <<vars, uploads, repairOwed, unread, counts>>

RepairVisit(d, c) ==
    /\ rpc[d] = "walk"
    /\ c \in ids[d]
    /\ ids' = [ids EXCEPT ![d] = @ \ {c}]
    /\ \/ /\ self \notin Targets(c)
          /\ UNCHANGED <<rpc, cur, unread>>
       \/ /\ self \in Targets(c) /\ DiskFaults
          /\ unread' = unread \cup {c}
          /\ UNCHANGED <<rpc, cur>>
       \/ /\ self \in Targets(c)
          /\ rpc' = [rpc EXCEPT ![d] = "send"]
          /\ cur' = [cur EXCEPT ![d] = c]
          /\ UNCHANGED unread
    /\ UNCHANGED <<vars, uploads, repairOwed, counts>>

FaultyRepairEnqueue(d) ==  \* drops the chunk when the queue is full
    /\ rpc[d] = "send"
    /\ Enqueue(cur[d]) \/ (Len(queue) = QueueSize /\ UNCHANGED queue)
    /\ rpc' = [rpc EXCEPT ![d] = "walk"]
    /\ cur' = [cur EXCEPT ![d] = NoChunk]
    /\ UNCHANGED <<ring, switches, work, stored, up, history, jobs, ids, uploads,
                   repairOwed, unread, counts>>

RepairEnqueue(d) ==
    /\ rpc[d] = "send"
    /\ Enqueue(cur[d])
    /\ rpc' = [rpc EXCEPT ![d] = "walk"]
    /\ cur' = [cur EXCEPT ![d] = NoChunk]
    /\ UNCHANGED <<ring, switches, work, stored, up, history, jobs, ids, uploads,
                   repairOwed, unread, counts>>

RepairDone(d) ==
    /\ rpc[d] = "walk"
    /\ ids[d] = {}
    /\ rpc' = [rpc EXCEPT ![d] = "none"]
    /\ UNCHANGED <<vars, ids, cur, uploads, repairOwed, unread, counts>>

RepairStep(d) == \/ RepairList(d)
                 \/ \E c \in Chunk : RepairVisit(d, c)
                 \/ RepairEnqueue(d)
                 \/ RepairDone(d)

----------------------------------------------------------------------------
(***************************************************************************)
(* handleUploadBlob, chunk by chunk: keep a copy if this node is one of    *)
(* the targets now, enqueue in any case, and answer after the last one.    *)
(***************************************************************************)
UploadBegin(h) ==
    /\ hpc[h] = "idle"
    /\ hpc' = [hpc EXCEPT ![h] = IF Blob[h] = <<>> THEN "acked" ELSE "chunk"]
    /\ UNCHANGED <<vars, hpos, repairs, repairOwed, unread, counts>>

UploadPut(h) ==
    LET c == Blob[h][hpos[h]]
    IN  /\ hpc[h] = "chunk"
        /\ \/ /\ self \in Targets(c)
              /\ stored' = [stored EXCEPT ![self] = @ \cup {c}]
              /\ hpc' = [hpc EXCEPT ![h] = "send"]
           \/ /\ self \in Targets(c) /\ DiskFaults
              /\ hpc' = [hpc EXCEPT ![h] = "failed"]
              /\ UNCHANGED stored
           \/ /\ self \notin Targets(c)
              /\ hpc' = [hpc EXCEPT ![h] = "send"]
              /\ UNCHANGED stored
        /\ UNCHANGED <<ring, engine, up, hpos, repairs, repairOwed, unread, counts>>

UploadEnqueue(h) ==
    /\ hpc[h] = "send"
    /\ Enqueue(Blob[h][hpos[h]])
    /\ hpos' = [hpos EXCEPT ![h] = @ + 1]
    /\ hpc' = [hpc EXCEPT ![h] = IF hpos[h] = Len(Blob[h]) THEN "acked" ELSE "chunk"]
    /\ UNCHANGED <<ring, switches, work, stored, up, history, jobs, repairs,
                   repairOwed, unread, counts>>

UploadStep(h) == UploadPut(h) \/ UploadEnqueue(h)

(***************************************************************************)
(* handlePutChunk: a peer pushes a chunk here.                             *)
(***************************************************************************)
HandlePutChunk(c) ==
    /\ c \in Received
    /\ stored' = [stored EXCEPT ![self] = @ \cup {c}]
    /\ UNCHANGED <<ring, engine, up, repairs, uploads, repairOwed, unread, counts>>

Aside == UNCHANGED <<repairs, uploads, repairOwed, unread, counts>>

RecNext ==
    \/ \E d \in Node : HandleNodeDead(d) \/ HandleNodeAlive(d) \/ RepairStep(d)
    \/ \E h \in Handler : UploadBegin(h) \/ UploadStep(h)
    \/ \E c \in Chunk : HandlePutChunk(c)
    \/ \E w \in Worker : WorkerStep(w) /\ Aside
    \/ \E n \in Node : Flip(n) /\ Aside

(***************************************************************************)
(* Goroutines are scheduled.  Senders blocked on the queue are served in   *)
(* turn (Go channels are FIFO), so room that appears again and again       *)
(* reaches each of them: strong fairness.                                  *)
(***************************************************************************)
RecFairness ==
    /\ \A w \in Worker : WF_recVars(WorkerStep(w) /\ Aside)
    /\ \A d \in Node \ {self} : SF_recVars(RepairStep(d))
    /\ \A h \in Handler : SF_recVars(UploadStep(h))

RecSpec == RecInit /\ [][RecNext]_recVars

FairRecSpec == RecSpec /\ RecFairness

----------------------------------------------------------------------------
Queued == {queue[i] : i \in DOMAIN queue}

(***************************************************************************)
(* The repair goroutine of d will still come to chunk c.                   *)
(***************************************************************************)
Visiting(d, c) == \/ rpc[d] = "list"
                  \/ rpc[d] \in {"walk", "send"} /\ c \in ids[d]
                  \/ rpc[d] = "send" /\ cur[d] = c

SeenTo(p) == \/ p \in Delivered \cup gaveUp \cup abandoned \cup InHand
             \/ p[1] \in Queued \cup unread
             \/ \E d \in Node : Visiting(d, p[1])

(***************************************************************************)
(* No hole in repair: after a death, every chunk this node held and owns   *)
(* is seen to at each of its other owners (held there, given up on, or on  *)
(* its way through some repair, the queue or a worker), although the walk, *)
(* the queue and the workers each look at a ring that further deaths and   *)
(* re-admissions keep changing.  A pair is out of the promise while either *)
(* node is not an owner, and a node re-admitted later starts anew.         *)
(***************************************************************************)
RepairHasNoHole ==
    \A p \in repairOwed : {self, p[2]} \subseteq Targets(p[1]) => SeenTo(p)

(***************************************************************************)
(* Repair ends: again and again all that deaths left to see to is held by  *)
(* the owners or given up on, unless the owners have changed.  Neither a   *)
(* full queue nor owners that are down keep it waiting for ever.           *)
(***************************************************************************)
RepairRestores ==
    []<>(\A p \in repairOwed :
             \/ p \in Delivered \cup gaveUp
             \/ p[1] \in unread
             \/ ~({self, p[2]} \subseteq Targets(p[1])))
=============================================================================
