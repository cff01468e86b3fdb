---------------------------- MODULE Replication -----------------------------
(***************************************************************************)
(* The replication engine of one node (internal/replication): a bounded    *)
(* queue of chunks, a pool of workers that push each chunk to its replica  *)
(* targets, retries with backoff, and the two halves of a shutdown         *)
(* (cancelling the workers' context, closing the queue).                   *)
(*                                                                         *)
(* A chunk stands for its ID and its bytes, which its ID determines.       *)
(* Rank[c] is the order in which the ring is walked from chunk c (see      *)
(* Preference), so a worker's targets are the Factor first nodes of the    *)
(* ring AT THE MOMENT IT TAKES THE JOB and are pushed to in rank order.    *)
(* The wait between two attempts has no length: it ends at any time.       *)
(***************************************************************************)
EXTENDS Naturals, Sequences, FiniteSets, Preference

CONSTANTS Node,        \* physical nodes
          self,        \* the node this engine runs on
          Chunk,       \* chunks
          NoChunk,     \* no job
          Rank,        \* chunk -> node -> place in the walk from the chunk
          Factor,      \* copies of a chunk (3 in the code)
          Worker,      \* the worker goroutines (4 in the code)
          QueueSize,   \* capacity of the queue (1024 in the code)
          MaxRetries,  \* attempts after the first one (5 in the code)
          Lossy,       \* a push to a node that is up may fail, or its answer be lost
          Flaky,       \* BOUND: the nodes that go down and come back
          MaxJobs      \* BOUND: calls of Enqueue by the callers of this module

ASSUME ReplicationAssumption ==
    /\ self \in Node
    /\ NoChunk \notin Chunk
    /\ IsFiniteSet(Node)
    /\ Rank \in [Chunk -> [Node -> Nat]]
    /\ \A c \in Chunk, m, n \in Node : Rank[c][m] = Rank[c][n] => m = n
    /\ Factor \in Nat \ {0}
    /\ Worker # {}  \* NewEngine replaces a count <= 0 by 4
    /\ QueueSize \in Nat \ {0}
    /\ MaxRetries \in Nat
    /\ Lossy \in BOOLEAN
    /\ Flaky \subseteq Node \ {self}
    /\ MaxJobs \in Nat

VARIABLES ring,       \* the nodes on the hash ring
          queue,      \* the jobs in the channel
          closed,     \* close(e.queue) was called
          cancelled,  \* the workers' context is cancelled
          pc,         \* worker -> where it is
          job,        \* worker -> the chunk it replicates
          todo,       \* worker -> targets not done with; the nearest is current
          attempt,    \* worker -> attempt at the current target, 0 the first
          stored,     \* node -> the chunks it holds
          up,         \* environment: nodes whose HTTP API answers
          owed,       \* history: <<chunk, target>> of every job taken
          gaveUp,     \* history: pairs given up after the last attempt
          abandoned,  \* history: pairs dropped because the context was cancelled
          jobs        \* BOUND: calls of Enqueue so far

work == <<pc, job, todo, attempt>>
history == <<owed, gaveUp, abandoned>>
switches == <<closed, cancelled>>
vars == <<ring, queue, closed, cancelled, pc, job, todo, attempt, stored, up,
          owed, gaveUp, abandoned, jobs>>

(***************************************************************************)
(* The channel never exceeds its capacity, attempts never exceed the       *)
(* retries, and workers only handle chunks and nodes.                      *)
(***************************************************************************)
TypeOK ==
    /\ ring \subseteq Node
    /\ queue \in Seq(Chunk) /\ Len(queue) <= QueueSize
    /\ closed \in BOOLEAN /\ cancelled \in BOOLEAN
    /\ pc \in [Worker -> {"idle", "push", "backoff", "exited"}]
    /\ job \in [Worker -> Chunk \cup {NoChunk}]
    /\ todo \in [Worker -> SUBSET Node]
    /\ attempt \in [Worker -> 0 .. MaxRetries]
    /\ stored \in [Node -> SUBSET Chunk]
    /\ up \subseteq Node
    /\ owed \subseteq Chunk \X Node
    /\ gaveUp \subseteq Chunk \X Node
    /\ abandoned \subseteq Chunk \X Node
    /\ jobs \in 0 .. MaxJobs

(***************************************************************************)
(* TargetsFor: GetN(chunk, Factor).                                        *)
(***************************************************************************)
Targets(c) == FirstN(Rank[c], ring, Factor)

Nearest(c, S) == CHOOSE n \in S : Before(Rank[c], S, n) = {}

Current(w) == Nearest(job[w], todo[w])

Init ==
    /\ ring = Node
    /\ queue = <<>>
    /\ closed = FALSE /\ cancelled = FALSE
    /\ pc = [w \in Worker |-> "idle"]
    /\ job = [w \in Worker |-> NoChunk]
    /\ todo = [w \in Worker |-> {}]
    /\ attempt = [w \in Worker |-> 0]
    /\ stored = [n \in Node |-> {}]
    /\ up = Node
    /\ owed = {} /\ gaveUp = {} /\ abandoned = {}
    /\ jobs = 0

----------------------------------------------------------------------------
(***************************************************************************)
(* The channel send: it waits for room.  On a closed channel it panics,    *)
(* and the caller gets no further.                                         *)
(***************************************************************************)
FaultyEnqueue(c) ==  \* no bound on the queue
    /\ ~closed
    /\ queue' = Append(queue, c)

Enqueue(c) ==
    /\ ~closed
    /\ Len(queue) < QueueSize
    /\ queue' = Append(queue, c)

(***************************************************************************)
(* A caller (the upload handler, a repair) hands a chunk to the engine.    *)
(***************************************************************************)
Submit(c) ==
    /\ jobs < MaxJobs
    /\ jobs' = jobs + 1
    /\ Enqueue(c)
    /\ UNCHANGED <<ring, switches, work, stored, up, history>>

(***************************************************************************)
(* The loop over the targets goes on with rest, the targets left.          *)
(***************************************************************************)
FaultyContinue(w, rest) ==  \* the end of the target list is not noticed
    /\ todo' = [todo EXCEPT ![w] = rest]
    /\ attempt' = [attempt EXCEPT ![w] = 0]
    /\ pc' = [pc EXCEPT ![w] = "push"]
    /\ UNCHANGED job

Continue(w, rest) ==
    /\ todo' = [todo EXCEPT ![w] = rest]
    /\ attempt' = [attempt EXCEPT ![w] = 0]
    /\ pc' = [pc EXCEPT ![w] = IF rest = {} THEN "idle" ELSE "push"]
    /\ job' = IF rest = {} THEN [job EXCEPT ![w] = NoChunk] ELSE job

(***************************************************************************)
(* worker and the start of replicate: receive a job, read the ring.        *)
(***************************************************************************)
Take(w) ==
    /\ pc[w] = "idle"
    /\ queue # <<>>
    /\ queue' = Tail(queue)
    /\ LET c == Head(queue)
           rest == Targets(c) \ {self}
       IN  /\ todo' = [todo EXCEPT ![w] = rest]
           /\ attempt' = [attempt EXCEPT ![w] = 0]
           /\ pc' = [pc EXCEPT ![w] = IF rest = {} THEN "idle" ELSE "push"]
           /\ job' = [job EXCEPT ![w] = IF rest = {} THEN NoChunk ELSE c]
           /\ owed' = owed \cup ({c} \X rest)
    /\ UNCHANGED <<ring, switches, stored, up, gaveUp, abandoned, jobs>>

(***************************************************************************)
(* PushChunk returned nil: the peer verified the chunk and stored it.      *)
(***************************************************************************)
PushOk(w) ==
    /\ pc[w] = "push"
    /\ ~cancelled
    /\ LET n == Current(w)
       IN  /\ n \in up
           /\ stored' = [stored EXCEPT ![n] = @ \cup {job[w]}]
           /\ Continue(w, todo[w] \ {n})
    /\ UNCHANGED <<ring, queue, switches, up, history, jobs>>

(***************************************************************************)
(* PushChunk returned an error: back off, or give this target up after the *)
(* last attempt and go on with the next.  The peer may have stored the     *)
(* chunk all the same, when only its answer was lost.                      *)
(***************************************************************************)
FaultyPushFailed(w) ==  \* giving one target up ends the whole job
    /\ pc[w] = "push"
    /\ Current(w) \notin up \/ cancelled \/ Lossy
    /\ IF attempt[w] < MaxRetries
       THEN /\ attempt' = [attempt EXCEPT ![w] = @ + 1]
            /\ pc' = [pc EXCEPT ![w] = "backoff"]
            /\ UNCHANGED <<job, todo, gaveUp>>
       ELSE /\ gaveUp' = gaveUp \cup {<<job[w], Current(w)>>}
            /\ Continue(w, {})
    /\ UNCHANGED <<ring, queue, switches, stored, up, owed, abandoned, jobs>>

FaultyEndlessPushFailed(w) ==  \* the attempt is not counted
    /\ pc[w] = "push"
    /\ Current(w) \notin up \/ cancelled \/ Lossy
    /\ pc' = [pc EXCEPT ![w] = "backoff"]
    /\ UNCHANGED <<ring, queue, switches, job, todo, attempt, stored, up,
                   history, jobs>>

PushFailed(w) ==
    /\ pc[w] = "push"
    /\ LET n == Current(w)
       IN  /\ \/ /\ n \notin up \/ cancelled \/ Lossy
                 /\ UNCHANGED stored
              \/ /\ n \in up /\ (cancelled \/ Lossy)
                 /\ stored' = [stored EXCEPT ![n] = @ \cup {job[w]}]
           /\ \/ /\ attempt[w] < MaxRetries
                 /\ attempt' = [attempt EXCEPT ![w] = @ + 1]
                 /\ pc' = [pc EXCEPT ![w] = "backoff"]
                 /\ UNCHANGED <<job, todo, gaveUp>>
              \/ /\ attempt[w] = MaxRetries
                 /\ gaveUp' = gaveUp \cup {<<job[w], n>>}
                 /\ Continue(w, todo[w] \ {n})
    /\ UNCHANGED <<ring, queue, switches, up, owed, abandoned, jobs>>

BackoffOver(w) ==
    /\ pc[w] = "backoff"
    /\ pc' = [pc EXCEPT ![w] = "push"]
    /\ UNCHANGED <<ring, queue, switches, job, todo, attempt, stored, up,
                   history, jobs>>

(***************************************************************************)
(* ctx.Done() during the backoff: this target is dropped, and replicate    *)
(* goes on with the next one.                                              *)
(***************************************************************************)
BackoffCancelled(w) ==
    /\ pc[w] = "backoff"
    /\ cancelled
    /\ abandoned' = abandoned \cup {<<job[w], Current(w)>>}
    /\ Continue(w, todo[w] \ {Current(w)})
    /\ UNCHANGED <<ring, queue, switches, stored, up, owed, gaveUp, jobs>>

FaultyWorkerExit(w) ==  \* leaves as soon as the queue is closed
    /\ pc[w] = "idle"
    /\ closed
    /\ pc' = [pc EXCEPT ![w] = "exited"]
    /\ UNCHANGED <<ring, queue, switches, job, todo, attempt, stored, up,
                   history, jobs>>

(***************************************************************************)
(* range over a closed channel ends only when it is empty.                 *)
(***************************************************************************)
WorkerExit(w) ==
    /\ pc[w] = "idle"
    /\ closed /\ queue = <<>>
    /\ pc' = [pc EXCEPT ![w] = "exited"]
    /\ UNCHANGED <<ring, queue, switches, job, todo, attempt, stored, up,
                   history, jobs>>

----------------------------------------------------------------------------
(***************************************************************************)
(* Shutdown.  main cancels the workers' context and then calls Stop; the   *)
(* tests call Stop with the context still live.  Both orders are possible. *)
(***************************************************************************)
Cancel ==
    /\ ~cancelled /\ ~closed
    /\ cancelled' = TRUE
    /\ UNCHANGED <<ring, queue, closed, work, stored, up, history, jobs>>

Stop ==
    /\ ~closed
    /\ closed' = TRUE
    /\ UNCHANGED <<ring, queue, cancelled, work, stored, up, history, jobs>>

Stopped == closed /\ \A w \in Worker : pc[w] = "exited"

(***************************************************************************)
(* Environment: the ring changes under the workers, peers fail and return. *)
(***************************************************************************)
RingChange(n) ==
    /\ n # self
    /\ ring' = IF n \in ring THEN ring \ {n} ELSE ring \cup {n}
    /\ UNCHANGED <<queue, switches, work, stored, up, history, jobs>>

Flip(n) ==
    /\ n \in Flaky
    /\ up' = IF n \in up THEN up \ {n} ELSE up \cup {n}
    /\ UNCHANGED <<ring, queue, switches, work, stored, history, jobs>>

WorkerStep(w) == \/ Take(w)
                 \/ PushOk(w)
                 \/ PushFailed(w)
                 \/ BackoffOver(w)
                 \/ BackoffCancelled(w)
                 \/ WorkerExit(w)

Next == \/ Cancel
        \/ Stop
        \/ \E c \in Chunk : Submit(c)
        \/ \E w \in Worker : WorkerStep(w)
        \/ \E n \in Node : RingChange(n) \/ Flip(n)

(***************************************************************************)
(* A runnable worker is scheduled, a push returns (15 s timeout) and a     *)
(* backoff timer fires.                                                    *)
(***************************************************************************)
Fairness == \A w \in Worker : WF_vars(WorkerStep(w))

Spec == Init /\ [][Next]_vars

FairSpec == Spec /\ Fairness

----------------------------------------------------------------------------
Delivered == {p \in Chunk \X Node : p[1] \in stored[p[2]]}

InHand == {p \in Chunk \X Node :
               \E w \in Worker : job[w] = p[1] /\ p[2] \in todo[w]}

(***************************************************************************)
(* No replica target is forgotten: from the moment a job is taken, each of *)
(* its targets holds the chunk, or was given up with all attempts made, or *)
(* was dropped at a cancelled backoff, or is still ahead of the worker,    *)
(* whatever the ring did since and however the earlier targets fared.      *)
(***************************************************************************)
NoTargetForgotten == owed \subseteq Delivered \cup gaveUp \cup abandoned \cup InHand

(***************************************************************************)
(* What makes it inductive: a worker between jobs has nothing to do, and a *)
(* busy one has a job and a target.                                        *)
(***************************************************************************)
WorkersCoherent ==
    \A w \in Worker : IF pc[w] \in {"push", "backoff"}
                      THEN todo[w] # {} /\ job[w] \in Chunk
                      ELSE todo[w] = {} /\ job[w] = NoChunk

Drained == queue = <<>> /\ owed \subseteq Delivered \cup gaveUp

(***************************************************************************)
(* Stop with a live context drains: once it returns nothing is queued and  *)
(* every target of every job holds the chunk or was tried MaxRetries + 1   *)
(* times.                                                                  *)
(***************************************************************************)
DrainedUnlessCancelled == Stopped /\ ~cancelled => Drained

(***************************************************************************)
(* Workers never wedge on a peer that is down or a queue that is closed:   *)
(* again and again all queued work is done with.                           *)
(***************************************************************************)
WorkGetsDone == []<>(queue = <<>> /\ InHand = {})
=============================================================================
