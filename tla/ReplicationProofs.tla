------------------------- MODULE ReplicationProofs --------------------------
(***************************************************************************)
(* Safety of the replication engine, for any ring, number of workers,      *)
(* queue size and number of retries.                                       *)
(***************************************************************************)
EXTENDS Replication, PreferenceProofs, TLAPS

(***************************************************************************)
(* A non-empty set of nodes has one that comes first in a chunk's walk.    *)
(***************************************************************************)
LEMMA NearestIsMember ==
    ASSUME NEW c \in Chunk, NEW S \in SUBSET Node, S # {}
    PROVE  Nearest(c, S) \in S
<1>1. \A n \in S : Rank[c][n] \in Nat
  BY ReplicationAssumption
<1>2. \E n \in S : Before(Rank[c], S, n) = {}
  BY <1>1, SomeoneIsFirst
<1> QED
  BY <1>2 DEF Nearest

(***************************************************************************)
(* The step of a worker that is done with target n, by its effects.        *)
(***************************************************************************)
LEMMA ContinueTyped ==
    ASSUME TypeOK, NEW w \in Worker, NEW rest \in SUBSET Node, Continue(w, rest)
    PROVE  /\ pc' \in [Worker -> {"idle", "push", "backoff", "exited"}]
           /\ job' \in [Worker -> Chunk \cup {NoChunk}]
           /\ todo' \in [Worker -> SUBSET Node]
           /\ attempt' \in [Worker -> 0 .. MaxRetries]
<1>1. 0 \in 0 .. MaxRetries
  BY ReplicationAssumption
<1> QED
  BY <1>1 DEF TypeOK, Continue

LEMMA CurrentTyped ==
    ASSUME TypeOK, WorkersCoherent, NEW w \in Worker, pc[w] \in {"push", "backoff"}
    PROVE  /\ job[w] \in Chunk /\ todo[w] \in SUBSET Node /\ Current(w) \in todo[w]
           /\ Current(w) \in Node
<1>1. job[w] \in Chunk /\ todo[w] \in SUBSET Node /\ todo[w] # {}
  BY DEF TypeOK, WorkersCoherent
<1> QED
  BY <1>1, NearestIsMember DEF Current

Inv == TypeOK /\ WorkersCoherent

LEMMA TargetsTyped == ASSUME TypeOK, NEW c PROVE Targets(c) \in SUBSET Node
  BY DEF TypeOK, Targets, FirstN

LEMMA InvPreserved == Inv /\ [Next]_vars => Inv'
<1> SUFFICES ASSUME TypeOK, WorkersCoherent, [Next]_vars PROVE TypeOK' /\ WorkersCoherent'
  BY DEF Inv
<1> USE DEF switches, work, history
<1>1. CASE Cancel \/ Stop
  BY <1>1 DEF TypeOK, WorkersCoherent, Cancel, Stop
<1>2. ASSUME NEW c \in Chunk, Submit(c) PROVE TypeOK' /\ WorkersCoherent'
  <2>1. jobs' \in 0 .. MaxJobs
    BY <1>2, ReplicationAssumption DEF TypeOK, Submit
  <2>2. queue' \in Seq(Chunk) /\ Len(queue') <= QueueSize
    BY <1>2, ReplicationAssumption DEF TypeOK, Submit, Enqueue
  <2> QED
    BY <1>2, <2>1, <2>2 DEF TypeOK, WorkersCoherent, Submit
<1>3. ASSUME NEW w \in Worker, Take(w) PROVE TypeOK' /\ WorkersCoherent'
  <2> DEFINE c == Head(queue)
             rest == Targets(c) \ {self}
  <2>1. /\ c \in Chunk /\ queue' \in Seq(Chunk) /\ Len(queue') <= QueueSize
    BY <1>3, ReplicationAssumption DEF TypeOK, Take
  <2>2. rest \in SUBSET Node /\ 0 \in 0 .. MaxRetries
    BY TargetsTyped, ReplicationAssumption
  <2>3. /\ todo' = [todo EXCEPT ![w] = rest]
        /\ attempt' = [attempt EXCEPT ![w] = 0]
        /\ pc' = [pc EXCEPT ![w] = IF rest = {} THEN "idle" ELSE "push"]
        /\ job' = [job EXCEPT ![w] = IF rest = {} THEN NoChunk ELSE c]
        /\ owed' = owed \cup ({c} \X rest)
        /\ UNCHANGED <<ring, closed, cancelled, stored, up, gaveUp, abandoned, jobs>>
    BY <1>3 DEF Take
  <2> HIDE DEF c, rest
  <2>4. TypeOK'
    BY <2>1, <2>2, <2>3 DEF TypeOK
  <2>5. WorkersCoherent'
    BY <2>1, <2>2, <2>3 DEF TypeOK, WorkersCoherent
  <2> QED
    BY <2>4, <2>5
<1>4. ASSUME NEW w \in Worker, pc[w] \in {"push", "backoff"},
             Continue(w, todo[w] \ {Current(w)}),
             UNCHANGED <<ring, queue, closed, cancelled, up, owed, jobs>>,
             stored' \in [Node -> SUBSET Chunk],
             gaveUp' \subseteq Chunk \X Node, abandoned' \subseteq Chunk \X Node
      PROVE  TypeOK' /\ WorkersCoherent'
  <2>1. todo[w] \ {Current(w)} \in SUBSET Node /\ job[w] \in Chunk
    BY <1>4, CurrentTyped
  <2>2. TypeOK'
    BY <1>4, <2>1, ContinueTyped DEF TypeOK
  <2>3. WorkersCoherent'
    BY <1>4, <2>1 DEF TypeOK, WorkersCoherent, Continue
  <2> QED
    BY <2>2, <2>3
<1>5. ASSUME NEW w \in Worker, PushOk(w) PROVE TypeOK' /\ WorkersCoherent'
  <2>1. pc[w] \in {"push", "backoff"}
    BY <1>5 DEF PushOk
  <2>2. job[w] \in Chunk /\ Current(w) \in Node
    BY <2>1, CurrentTyped
  <2>3. stored' \in [Node -> SUBSET Chunk]
    BY <1>5, <2>2 DEF TypeOK, PushOk
  <2> QED
    BY <1>4, <1>5, <2>1, <2>3 DEF TypeOK, PushOk
<1>6. ASSUME NEW w \in Worker, PushFailed(w) PROVE TypeOK' /\ WorkersCoherent'
  <2>1. pc[w] \in {"push", "backoff"}
    BY <1>6 DEF PushFailed
  <2>2. job[w] \in Chunk /\ Current(w) \in Node
    BY <2>1, CurrentTyped
  <2>3. stored' \in [Node -> SUBSET Chunk]
    <3>1. \/ stored' = stored
          \/ stored' = [stored EXCEPT ![Current(w)] = @ \cup {job[w]}]
      BY <1>6 DEF PushFailed
    <3> QED
      BY <2>2, <3>1 DEF TypeOK
  <2>4. CASE attempt[w] < MaxRetries
    <3>1. /\ attempt' = [attempt EXCEPT ![w] = @ + 1]
          /\ pc' = [pc EXCEPT ![w] = "backoff"]
          /\ UNCHANGED <<job, todo, ring, queue, closed, cancelled, up, history, jobs>>
      BY <1>6, <2>4, ReplicationAssumption DEF TypeOK, PushFailed
    <3>2. attempt' \in [Worker -> 0 .. MaxRetries]
      BY <2>4, <3>1, ReplicationAssumption DEF TypeOK
    <3>3. TypeOK'
      BY <2>3, <3>1, <3>2 DEF TypeOK
    <3>4. WorkersCoherent'
      BY <2>1, <3>1 DEF TypeOK, WorkersCoherent
    <3> QED
      BY <3>3, <3>4
  <2>5. CASE ~(attempt[w] < MaxRetries)
    <3>1. /\ gaveUp' = gaveUp \cup {<<job[w], Current(w)>>}
          /\ Continue(w, todo[w] \ {Current(w)})
          /\ UNCHANGED <<ring, queue, closed, cancelled, up, owed, abandoned, jobs>>
      BY <1>6, <2>5 DEF PushFailed
    <3>2. gaveUp' \subseteq Chunk \X Node /\ abandoned' \subseteq Chunk \X Node
      BY <2>2, <3>1 DEF TypeOK
    <3> QED
      BY <1>4, <2>1, <2>3, <3>1, <3>2
  <2> QED
    BY <2>4, <2>5
<1>7. ASSUME NEW w \in Worker, BackoffCancelled(w) PROVE TypeOK' /\ WorkersCoherent'
  <2>1. pc[w] \in {"push", "backoff"}
    BY <1>7 DEF BackoffCancelled
  <2>2. abandoned' \subseteq Chunk \X Node
    BY <1>7, <2>1, CurrentTyped DEF TypeOK, BackoffCancelled
  <2> QED
    BY <1>4, <1>7, <2>1, <2>2 DEF TypeOK, BackoffCancelled
<1>8. ASSUME NEW w \in Worker, BackoffOver(w) \/ WorkerExit(w)
      PROVE  TypeOK' /\ WorkersCoherent'
  BY <1>8 DEF TypeOK, WorkersCoherent, BackoffOver, WorkerExit
<1>9. ASSUME NEW n \in Node, RingChange(n) \/ Flip(n) PROVE TypeOK' /\ WorkersCoherent'
  BY <1>9, ReplicationAssumption DEF TypeOK, WorkersCoherent, RingChange, Flip
<1>10. CASE UNCHANGED vars
  BY <1>10 DEF TypeOK, WorkersCoherent, vars
<1> QED
  BY <1>1, <1>2, <1>3, <1>5, <1>6, <1>7, <1>8, <1>9, <1>10 DEF Next, WorkerStep

LEMMA InvInitially == Init => Inv
<1> SUFFICES ASSUME Init PROVE TypeOK /\ WorkersCoherent
  BY DEF Inv
<1>1. 0 \in 0 .. MaxRetries /\ 0 \in 0 .. MaxJobs /\ 0 <= QueueSize
  BY ReplicationAssumption
<1>2. queue \in Seq(Chunk) /\ Len(queue) <= QueueSize
  BY <1>1 DEF Init
<1>3. TypeOK
  BY <1>1, <1>2 DEF Init, TypeOK
<1> QED
  BY <1>3 DEF Init, WorkersCoherent

LEMMA InvAlways == Spec => []Inv
  BY InvInitially, InvPreserved, PTL DEF Spec

(***************************************************************************)
(* The engine's queue, workers and stores stay well formed: the channel    *)
(* never exceeds its capacity and no attempt goes past the last retry.     *)
(***************************************************************************)
THEOREM TypeCorrect == Spec => []TypeOK
  BY InvAlways, PTL DEF Inv

(***************************************************************************)
(* A worker that is pushing or backing off always has a chunk and a target *)
(* left, and one that is not has neither (replicate, pushWithRetry).       *)
(***************************************************************************)
THEOREM CoherentAlways == Spec => []WorkersCoherent
  BY InvAlways, PTL DEF Inv

----------------------------------------------------------------------------
(***************************************************************************)
(* Chunks only ever arrive at a node: no push takes one away.              *)
(***************************************************************************)
LEMMA StoresGrow ==
    ASSUME TypeOK, WorkersCoherent, [Next]_vars, NEW n \in Node
    PROVE  stored[n] \subseteq stored'[n]
<1>1. ASSUME NEW m, NEW c, stored' = [stored EXCEPT ![m] = @ \cup {c}]
      PROVE  stored[n] \subseteq stored'[n]
  BY <1>1 DEF TypeOK
<1>2. \/ stored' = stored
      \/ \E w \in Worker : stored' = [stored EXCEPT ![Current(w)] = @ \cup {job[w]}]
  BY DEF Next, vars, WorkerStep, Cancel, Stop, Submit, Take, PushOk, PushFailed, BackoffOver,
         BackoffCancelled, WorkerExit, RingChange, Flip
<1> QED
  BY <1>1, <1>2

(***************************************************************************)
(* A worker that moves on from its current target still has all the other  *)
(* ones in hand.                                                           *)
(***************************************************************************)
LEMMA ContinueKeepsOthers ==
    ASSUME TypeOK, NEW w \in Worker, Continue(w, todo[w] \ {Current(w)}), NEW p \in InHand
    PROVE  p \in InHand' \/ p = <<job[w], Current(w)>>
<1>1. PICK v \in Worker : job[v] = p[1] /\ p[2] \in todo[v]
  BY DEF InHand
<1>2. p \in Chunk \X Node /\ p = <<p[1], p[2]>>
  BY DEF InHand
<1>3. CASE v # w
  <2>1. job'[v] = job[v] /\ todo'[v] = todo[v]
    BY <1>3 DEF TypeOK, Continue
  <2> QED
    BY <1>1, <1>2, <2>1 DEF InHand
<1>4. CASE v = w /\ p[2] = Current(w)
  BY <1>1, <1>2, <1>4
<1>5. CASE v = w /\ p[2] # Current(w)
  <2>1. p[2] \in todo[w] \ {Current(w)}
    BY <1>1, <1>5
  <2>2. job'[w] = job[w] /\ p[2] \in todo'[w]
    BY <2>1 DEF TypeOK, Continue
  <2> QED
    BY <1>1, <1>2, <1>5, <2>2 DEF InHand
<1> QED
  BY <1>3, <1>4, <1>5

(***************************************************************************)
(* A pair in hand is, after any step, in hand, held, given up or dropped.  *)
(***************************************************************************)
LEMMA InHandEnds ==
    ASSUME TypeOK, WorkersCoherent, [Next]_vars, NEW p \in InHand
    PROVE  p \in Delivered' \cup gaveUp' \cup abandoned' \cup InHand'
<1> USE DEF switches, work, history
<1>0. p \in Chunk \X Node
  BY DEF InHand
<1>1. CASE UNCHANGED <<job, todo>>
  BY <1>1 DEF InHand
<1>2. ASSUME NEW w \in Worker, Take(w) PROVE p \in InHand'
  <2>1. PICK v \in Worker : job[v] = p[1] /\ p[2] \in todo[v]
    BY DEF InHand
  <2>2. v # w
    BY <1>2, <2>1 DEF Take, WorkersCoherent
  <2>3. job'[v] = job[v] /\ todo'[v] = todo[v]
    BY <1>2, <2>2 DEF TypeOK, Take
  <2> QED
    BY <1>0, <2>1, <2>3 DEF InHand
<1>3. ASSUME NEW w \in Worker, PushOk(w) PROVE p \in Delivered' \cup InHand'
  <2>1. CASE p = <<job[w], Current(w)>>
    <3>1. stored' = [stored EXCEPT ![Current(w)] = @ \cup {job[w]}]
      BY <1>3 DEF PushOk
    <3>2. p[1] = job[w] /\ p[2] = Current(w) /\ p[2] \in Node
      BY <1>0, <2>1
    <3>3. p[1] \in stored'[p[2]]
      BY <3>1, <3>2 DEF TypeOK
    <3> QED
      BY <1>0, <3>3 DEF Delivered
  <2>2. CASE p # <<job[w], Current(w)>>
    BY <1>3, <2>2, ContinueKeepsOthers DEF PushOk
  <2> QED
    BY <2>1, <2>2
<1>4. ASSUME NEW w \in Worker, PushFailed(w)
      PROVE  p \in gaveUp' \cup InHand'
  <2>1. CASE UNCHANGED <<job, todo>>
    BY <1>1, <2>1 DEF InHand
  <2>2. CASE /\ gaveUp' = gaveUp \cup {<<job[w], Current(w)>>}
             /\ Continue(w, todo[w] \ {Current(w)})
    BY <2>2, ContinueKeepsOthers
  <2> QED
    BY <1>4, <2>1, <2>2 DEF PushFailed
<1>5. ASSUME NEW w \in Worker, BackoffCancelled(w)
      PROVE  p \in abandoned' \cup InHand'
  BY <1>5, ContinueKeepsOthers DEF BackoffCancelled
<1>6. \/ UNCHANGED <<job, todo>>
      \/ \E w \in Worker : Take(w) \/ PushOk(w) \/ PushFailed(w) \/ BackoffCancelled(w)
  BY DEF Next, vars, WorkerStep, Cancel, Stop, Submit, BackoffOver, WorkerExit, RingChange,
         Flip
<1> QED
  BY <1>1, <1>2, <1>3, <1>4, <1>5, <1>6

(***************************************************************************)
(* The targets of a job just taken are in hand.                            *)
(***************************************************************************)
LEMMA OwedGrows ==
    ASSUME TypeOK, WorkersCoherent, [Next]_vars, NEW p \in owed', p \notin owed
    PROVE  p \in InHand'
<1>1. PICK w \in Worker : Take(w)
  BY DEF Next, vars, WorkerStep, history, Cancel, Stop, Submit, PushOk, PushFailed, BackoffOver,
         BackoffCancelled, WorkerExit, RingChange, Flip
<1> DEFINE c == Head(queue)
           rest == Targets(c) \ {self}
<1>2. p \in {c} \X rest
  BY <1>1 DEF Take
<1>3. c \in Chunk
  BY <1>1 DEF TypeOK, Take
<1>4. rest \in SUBSET Node
  BY TargetsTyped
<1>5. /\ todo' = [todo EXCEPT ![w] = rest]
      /\ job' = [job EXCEPT ![w] = IF rest = {} THEN NoChunk ELSE c]
  BY <1>1 DEF Take
<1> HIDE DEF c, rest
<1>6. p[1] = c /\ p[2] \in rest /\ p \in Chunk \X Node
  BY <1>2, <1>3, <1>4
<1>7. todo'[w] = rest /\ job'[w] = c
  BY <1>5, <1>6 DEF TypeOK
<1> QED
  BY <1>6, <1>7 DEF InHand

LEMMA ForgottenPreserved ==
    Inv /\ NoTargetForgotten /\ [Next]_vars => NoTargetForgotten'
<1> SUFFICES ASSUME TypeOK, WorkersCoherent, NoTargetForgotten, [Next]_vars, NEW p \in owed'
             PROVE  p \in Delivered' \cup gaveUp' \cup abandoned' \cup InHand'
  BY DEF Inv, NoTargetForgotten
<1>1. CASE p \notin owed
  BY <1>1, OwedGrows
<1>2. CASE p \in InHand
  BY <1>2, InHandEnds
<1>3. CASE p \in Delivered
  <2>1. p \in Chunk \X Node /\ p[2] \in Node /\ p[1] \in stored[p[2]]
    BY <1>3 DEF Delivered
  <2>2. p[1] \in stored'[p[2]]
    BY <2>1, StoresGrow
  <2> QED
    BY <2>1, <2>2 DEF Delivered
<1>4. CASE p \in gaveUp \cup abandoned
  <2>1. gaveUp \subseteq gaveUp' /\ abandoned \subseteq abandoned'
    BY DEF Next, vars, WorkerStep, history, Cancel, Stop, Submit, Take, PushOk, PushFailed,
           BackoffOver, BackoffCancelled, WorkerExit, RingChange, Flip
  <2> QED
    BY <1>4, <2>1
<1> QED
  BY <1>1, <1>2, <1>3, <1>4 DEF NoTargetForgotten

(***************************************************************************)
(* replicate and pushWithRetry see every target of every job taken through *)
(* to one of the four ends, for any number of workers and retries and      *)
(* whatever happens to the ring and the peers meanwhile.                   *)
(***************************************************************************)
THEOREM NothingForgotten == Spec => []NoTargetForgotten
<1>1. Init => NoTargetForgotten
  BY DEF Init, NoTargetForgotten
<1> QED
  BY <1>1, InvAlways, ForgottenPreserved, PTL DEF Spec

----------------------------------------------------------------------------
(***************************************************************************)
(* Targets are dropped only once the context is cancelled, and a worker    *)
(* leaves only a closed, empty queue, to which nothing is added again.     *)
(***************************************************************************)
DrainInv == /\ abandoned # {} => cancelled
            /\ (\E w \in Worker : pc[w] = "exited") => closed /\ queue = <<>>

LEMMA DrainPreserved == Inv /\ DrainInv /\ [Next]_vars => DrainInv'
<1> SUFFICES ASSUME TypeOK, WorkersCoherent, DrainInv, [Next]_vars PROVE DrainInv'
  BY DEF Inv
<1> USE DEF switches, work, history
<1>1. abandoned' # {} => cancelled'
  BY DEF TypeOK, DrainInv, Next, vars, WorkerStep, Cancel, Stop, Submit, Take, PushOk,
         PushFailed, BackoffOver, BackoffCancelled, WorkerExit, RingChange, Flip
<1>2. ASSUME NEW v \in Worker, pc'[v] = "exited" PROVE closed' /\ queue' = <<>>
  <2>1. CASE pc[v] = "exited"
    BY <2>1 DEF DrainInv, Next, vars, WorkerStep, Cancel, Stop, Submit, Enqueue, Take, PushOk,
       PushFailed, BackoffOver, BackoffCancelled, WorkerExit, RingChange, Flip
  <2>2. CASE pc[v] # "exited"
    <3>1. ASSUME NEW w \in Worker, NEW x \in {"idle", "push", "backoff"},
                 pc' = [pc EXCEPT ![w] = x]
          PROVE  FALSE
      BY <1>2, <2>2, <3>1 DEF TypeOK
    <3>2. pc' # pc
      BY <1>2, <2>2
    <3>3. \E w \in Worker : WorkerExit(w)
      BY <3>1, <3>2 DEF Next, vars, WorkerStep, Cancel, Stop, Submit, Take, PushOk, PushFailed,
         Continue, BackoffOver, BackoffCancelled, RingChange, Flip
    <3> QED
      BY <3>3 DEF WorkerExit
  <2> QED
    BY <2>1, <2>2
<1> QED
  BY <1>1, <1>2 DEF DrainInv

(***************************************************************************)
(* Stop drains the engine when the context is live: every accepted job has *)
(* been taken, and each of its targets holds it or got all its attempts.   *)
(***************************************************************************)
THEOREM StopDrains == Spec => []DrainedUnlessCancelled
<1>1. Init => DrainInv
  BY DEF Init, DrainInv
<1>2. Spec => []DrainInv
  BY <1>1, InvAlways, DrainPreserved, PTL DEF Spec
<1>3. Inv /\ DrainInv /\ NoTargetForgotten => DrainedUnlessCancelled
  <2> SUFFICES ASSUME TypeOK, WorkersCoherent, DrainInv, NoTargetForgotten,
                      Stopped, ~cancelled
               PROVE  Drained
    BY DEF Inv, DrainedUnlessCancelled
  <2>1. InHand = {}
    BY DEF InHand, Stopped, WorkersCoherent
  <2>2. abandoned = {} /\ queue = <<>>
    BY ReplicationAssumption DEF DrainInv, Stopped
  <2> QED
    BY <2>1, <2>2 DEF Drained, NoTargetForgotten
<1> QED
  BY <1>2, <1>3, InvAlways, NothingForgotten, PTL
=============================================================================
