-------------------------- MODULE NodeProcessProofs -------------------------
(***************************************************************************)
(* Repair and the end of the process at one node, for any ring, any        *)
(* uploads, any number of deaths and re-admissions and any pool of         *)
(* workers.  First repair while the node runs (RecSpec), then the same     *)
(* node through its shutdown (NodeSpec).                                   *)
(***************************************************************************)
EXTENDS NodeProcess, ReplicationProofs, TLAPS

(***************************************************************************)
(* A repair that waits for the queue has a chunk in its hands.             *)
(***************************************************************************)
RepairsCoherent == \A d \in Node : rpc[d] = "send" => cur[d] \in Chunk

(***************************************************************************)
(* A handler at work is at one of its blob's chunks, and one that has      *)
(* answered is past the last.                                              *)
(***************************************************************************)
UploadsCoherent ==
    \A h \in Handler : /\ hpc[h] = "idle" => hpos[h] = 1
                       /\ InProgress(h) => hpos[h] \in 1 .. Len(Blob[h])
                       /\ hpc[h] = "acked" => hpos[h] = Len(Blob[h]) + 1

(***************************************************************************)
(* This node never leaves its own ring; what it owes it has, and it owes   *)
(* it to nodes that have been on the ring ever since.                      *)
(***************************************************************************)
OwedCoherent == /\ self \in ring
                /\ \A p \in repairOwed : p[1] \in stored[self] /\ p[2] \in ring

RecInv == RecTypeOK /\ WorkersCoherent /\ RepairsCoherent /\ UploadsCoherent /\ OwedCoherent

(***************************************************************************)
(* Steps of the engine, and of the node around it: those of RecNext, what  *)
(* main does to the engine, and a handler running into the closed queue.   *)
(***************************************************************************)
EngineStep == Cancel \/ Stop \/ (\E w \in Worker : WorkerStep(w)) \/ (\E n \in Node : Flip(n))

HandlerGivesUp(h) ==
    /\ hpc' = [hpc EXCEPT ![h] = "failed"]
    /\ UNCHANGED <<vars, hpos, repairs, repairOwed, unread, counts>>

AroundStep ==
    \/ \E d \in Node : HandleNodeDead(d) \/ HandleNodeAlive(d) \/ RepairStep(d)
    \/ \E h \in Handler : UploadBegin(h) \/ UploadStep(h) \/ HandlerGivesUp(h)
    \/ \E c \in Chunk : HandlePutChunk(c)

RecStep == AroundStep \/ (EngineStep /\ Aside)

LEMMA EngineSteps == EngineStep => Next
  BY DEF EngineStep, Next

LEMMA RecSteps == RecNext => RecStep
  BY DEF RecNext, RecStep, AroundStep, EngineStep

(***************************************************************************)
(* The send on the queue, seen from the engine's invariants.               *)
(***************************************************************************)
LEMMA EnqueueTyped ==
    ASSUME TypeOK, NEW c \in Chunk, Enqueue(c)
    PROVE  /\ queue' \in Seq(Chunk) /\ Len(queue') <= QueueSize
           /\ \A i \in DOMAIN queue : i \in DOMAIN queue' /\ queue'[i] = queue[i]
           /\ Len(queue') \in DOMAIN queue' /\ queue'[Len(queue')] = c
  BY ReplicationAssumption DEF TypeOK, Enqueue

LEMMA BlobTyped ==
    ASSUME NEW h \in Handler, NEW i \in 1 .. Len(Blob[h])
    PROVE  Blob[h][i] \in Chunk
  BY RecoveryAssumption

(***************************************************************************)
(* A chunk kept locally costs no node one.                                 *)
(***************************************************************************)
LEMMA LocalPutGrows ==
    ASSUME TypeOK, NEW c, stored' = stored \/ stored' = [stored EXCEPT ![self] = @ \cup {c}],
           NEW n \in Node
    PROVE  stored[n] \subseteq stored'[n]
<1>1. CASE stored' = stored
  BY <1>1
<1>2. CASE stored' = [stored EXCEPT ![self] = @ \cup {c}]
  BY <1>2 DEF TypeOK
<1> QED
  BY <1>1, <1>2

LEMMA LocalPut ==
    ASSUME TypeOK, NEW c \in Chunk,
           stored' = stored \/ stored' = [stored EXCEPT ![self] = @ \cup {c}]
    PROVE  stored' \in [Node -> SUBSET Chunk] /\ stored[self] \subseteq stored'[self]
<1>1. stored[self] \subseteq stored'[self]
  BY LocalPutGrows, ReplicationAssumption
<1>2. CASE stored' = stored
  BY <1>1, <1>2 DEF TypeOK
<1>3. CASE stored' = [stored EXCEPT ![self] = @ \cup {c}]
  BY <1>1, <1>3, ReplicationAssumption DEF TypeOK
<1> QED
  BY <1>2, <1>3

LEMMA RecInvPreserved == RecInv /\ (RecStep \/ UNCHANGED recVars) => RecInv'
<1> SUFFICES ASSUME RecTypeOK, WorkersCoherent, RepairsCoherent, UploadsCoherent, OwedCoherent,
                    RecStep \/ UNCHANGED recVars
             PROVE  RecInv'
  BY DEF RecInv
<1> USE DEF vars, engine, repairs, uploads, counts, switches, work, history, InProgress
<1>0. TypeOK
  BY DEF RecTypeOK
<1>1. ASSUME NEW d \in Node, HandleNodeDead(d) PROVE RecInv'
  <2>1. deaths' \in 0 .. MaxDeaths
    BY <1>1, RecoveryAssumption DEF HandleNodeDead, RecTypeOK
  <2>2. OwedAfter(d) \subseteq Chunk \X (Node \ {self})
    BY DEF OwedAfter
  <2>3. TypeOK'
    BY <1>0, <1>1 DEF HandleNodeDead, TypeOK
  <2>4. RecTypeOK'
    BY <1>1, <2>1, <2>2, <2>3 DEF HandleNodeDead, RecTypeOK
  <2>5. WorkersCoherent' /\ UploadsCoherent'
    BY <1>1 DEF HandleNodeDead, WorkersCoherent, UploadsCoherent
  <2>6. RepairsCoherent'
    BY <1>1 DEF HandleNodeDead, RepairsCoherent, RecTypeOK
  <2>7. \A p \in OwedAfter(d) : p[1] \in stored[self] /\ p[2] \in ring \ {d}
    BY DEF OwedAfter, FirstN
  <2>8. OwedCoherent'
    BY <1>1, <2>7 DEF HandleNodeDead, OwedCoherent
  <2> QED
    BY <2>4, <2>5, <2>6, <2>8 DEF RecInv
<1>2. ASSUME NEW n \in Node, HandleNodeAlive(n) PROVE RecInv'
  <2>1. revivals' \in 0 .. MaxRevivals
    BY <1>2, RecoveryAssumption DEF HandleNodeAlive, RecTypeOK
  <2>2. TypeOK'
    BY <1>0, <1>2 DEF HandleNodeAlive, TypeOK
  <2>3. RecTypeOK'
    BY <1>2, <2>1, <2>2 DEF HandleNodeAlive, RecTypeOK
  <2>4. WorkersCoherent' /\ UploadsCoherent' /\ RepairsCoherent' /\ OwedCoherent'
    BY <1>2 DEF HandleNodeAlive, WorkersCoherent, UploadsCoherent, RepairsCoherent,
       OwedCoherent
  <2> QED
    BY <2>3, <2>4 DEF RecInv
<1>3. ASSUME NEW d \in Node, RepairStep(d) PROVE RecInv'
  <2>1. CASE RepairEnqueue(d)
    <3>1. cur[d] \in Chunk
      BY <2>1 DEF RepairEnqueue, RepairsCoherent
    <3>2. queue' \in Seq(Chunk) /\ Len(queue') <= QueueSize
      BY <1>0, <2>1, <3>1, EnqueueTyped DEF RepairEnqueue
    <3>3. TypeOK'
      BY <1>0, <2>1, <3>2 DEF RepairEnqueue, TypeOK
    <3>4. RecTypeOK'
      BY <2>1, <3>3 DEF RepairEnqueue, RecTypeOK
    <3> QED
      BY <2>1, <3>4 DEF RepairEnqueue, RecInv, RecTypeOK, WorkersCoherent, UploadsCoherent,
         RepairsCoherent, OwedCoherent
  <2>2. CASE RepairList(d) \/ RepairDone(d) \/ \E c \in Chunk : RepairVisit(d, c)
    <3>1. UNCHANGED <<vars, uploads, repairOwed, counts>>
      BY <2>2 DEF RepairList, RepairDone, RepairVisit
    <3>2. TypeOK' /\ WorkersCoherent' /\ UploadsCoherent' /\ OwedCoherent'
      BY <1>0, <3>1 DEF TypeOK, WorkersCoherent, UploadsCoherent, OwedCoherent
    <3>3. stored[self] \subseteq Chunk
      BY <1>0, ReplicationAssumption DEF TypeOK
    <3>4. /\ rpc' \in [Node -> {"none", "list", "walk", "send"}]
          /\ ids' \in [Node -> SUBSET Chunk]
          /\ cur' \in [Node -> Chunk \cup {NoChunk}]
          /\ unread' \subseteq Chunk
          /\ RepairsCoherent'
      <4>1. CASE RepairList(d)
        BY <3>3, <4>1 DEF RepairList, RecTypeOK, RepairsCoherent
      <4>2. CASE RepairDone(d)
        BY <4>2 DEF RepairDone, RecTypeOK, RepairsCoherent
      <4>3. ASSUME NEW c \in Chunk, RepairVisit(d, c)
            PROVE  /\ rpc' \in [Node -> {"none", "list", "walk", "send"}]
                   /\ ids' \in [Node -> SUBSET Chunk]
                   /\ cur' \in [Node -> Chunk \cup {NoChunk}]
                   /\ unread' \subseteq Chunk
                   /\ RepairsCoherent'
        BY <4>3 DEF RepairVisit, RecTypeOK, RepairsCoherent
      <4> QED
        BY <2>2, <4>1, <4>2, <4>3
    <3> QED
      BY <3>1, <3>2, <3>4 DEF RecInv, RecTypeOK
  <2> QED
    BY <1>3, <2>1, <2>2 DEF RepairStep
<1>4. ASSUME NEW h \in Handler, UploadBegin(h) \/ HandlerGivesUp(h) PROVE RecInv'
  <2>1. TypeOK' /\ WorkersCoherent' /\ RepairsCoherent' /\ OwedCoherent'
    BY <1>0, <1>4 DEF UploadBegin, HandlerGivesUp, TypeOK, WorkersCoherent, RepairsCoherent,
       OwedCoherent
  <2>2. RecTypeOK'
    BY <1>4, <2>1 DEF UploadBegin, HandlerGivesUp, RecTypeOK
  <2>3. Len(Blob[h]) \in Nat /\ (Blob[h] = <<>> <=> Len(Blob[h]) = 0)
    BY RecoveryAssumption
  <2>4. Blob[h] = <<>> => 1 = Len(Blob[h]) + 1
    BY <2>3
  <2>5. Blob[h] # <<>> => 1 \in 1 .. Len(Blob[h])
    BY <2>3
  <2>6. UploadsCoherent'
    BY <1>4, <2>4, <2>5 DEF UploadBegin, HandlerGivesUp, RecTypeOK, UploadsCoherent
  <2> QED
    BY <2>1, <2>2, <2>6 DEF RecInv
<1>5. ASSUME NEW h \in Handler, UploadPut(h) PROVE RecInv'
  <2>1. Blob[h][hpos[h]] \in Chunk
    BY <1>5, BlobTyped DEF UploadPut, UploadsCoherent
  <2>2. stored' \in [Node -> SUBSET Chunk] /\ stored[self] \subseteq stored'[self]
    <3>1. \/ stored' = stored
          \/ stored' = [stored EXCEPT ![self] = @ \cup {Blob[h][hpos[h]]}]
      BY <1>5 DEF UploadPut
    <3> QED
      BY <1>0, <2>1, <3>1, LocalPut, ReplicationAssumption
  <2>3. TypeOK'
    BY <1>0, <1>5, <2>2 DEF UploadPut, TypeOK
  <2>4. RecTypeOK'
    BY <1>5, <2>3 DEF UploadPut, RecTypeOK
  <2>5. WorkersCoherent' /\ RepairsCoherent'
    BY <1>5 DEF UploadPut, WorkersCoherent, RepairsCoherent
  <2>6. OwedCoherent'
    BY <1>5, <2>2 DEF UploadPut, OwedCoherent
  <2>7. UploadsCoherent'
    BY <1>5 DEF UploadPut, UploadsCoherent, RecTypeOK
  <2> QED
    BY <2>4, <2>5, <2>6, <2>7 DEF RecInv
<1>6. ASSUME NEW h \in Handler, UploadEnqueue(h) PROVE RecInv'
  <2>1. hpos[h] \in 1 .. Len(Blob[h]) /\ Len(Blob[h]) \in Nat
    BY <1>6, RecoveryAssumption DEF UploadEnqueue, UploadsCoherent
  <2>2. queue' \in Seq(Chunk) /\ Len(queue') <= QueueSize
    BY <1>0, <1>6, <2>1, BlobTyped, EnqueueTyped DEF UploadEnqueue
  <2>3. TypeOK'
    BY <1>0, <1>6, <2>2 DEF UploadEnqueue, TypeOK
  <2>4. RecTypeOK'
    BY <1>6, <2>3 DEF UploadEnqueue, RecTypeOK
  <2>5. WorkersCoherent' /\ RepairsCoherent' /\ OwedCoherent'
    BY <1>6 DEF UploadEnqueue, WorkersCoherent, RepairsCoherent, OwedCoherent
  <2>6. hpos[h] # Len(Blob[h]) => hpos[h] + 1 \in 1 .. Len(Blob[h])
    BY <2>1
  <2>7. UploadsCoherent'
    BY <1>6, <2>1, <2>6 DEF UploadEnqueue, UploadsCoherent, RecTypeOK
  <2> QED
    BY <2>4, <2>5, <2>7 DEF RecInv
<1>7. ASSUME NEW c \in Chunk, HandlePutChunk(c) PROVE RecInv'
  <2>1. stored' \in [Node -> SUBSET Chunk] /\ stored[self] \subseteq stored'[self]
    BY <1>0, <1>7, LocalPut, ReplicationAssumption DEF HandlePutChunk
  <2>2. TypeOK'
    BY <1>0, <1>7, <2>1 DEF HandlePutChunk, TypeOK
  <2>3. RecTypeOK'
    BY <1>7, <2>2 DEF HandlePutChunk, RecTypeOK
  <2> QED
    BY <1>7, <2>1, <2>3 DEF HandlePutChunk, RecInv, WorkersCoherent, RepairsCoherent,
       UploadsCoherent, OwedCoherent
<1>8. CASE EngineStep /\ Aside
  <2>1. [Next]_vars
    BY <1>8, EngineSteps
  <2>2. TypeOK' /\ WorkersCoherent'
    BY <1>0, <2>1, InvPreserved DEF Inv
  <2>3. stored[self] \subseteq stored'[self]
    BY <1>0, <2>1, StoresGrow, ReplicationAssumption
  <2>4. ring' = ring
    BY <1>8 DEF EngineStep, Cancel, Stop, WorkerStep, Take, PushOk, PushFailed, BackoffOver,
       BackoffCancelled, WorkerExit, Flip
  <2> QED
    BY <1>8, <2>2, <2>3, <2>4 DEF Aside, RecInv, RecTypeOK, RepairsCoherent, UploadsCoherent,
       OwedCoherent
<1>9. CASE UNCHANGED recVars
  BY <1>9 DEF recVars, RecInv, RecTypeOK, TypeOK, WorkersCoherent, RepairsCoherent,
     UploadsCoherent, OwedCoherent
<1> QED
  BY <1>1, <1>2, <1>3, <1>4, <1>5, <1>6, <1>7, <1>8, <1>9 DEF RecStep, AroundStep, UploadStep

LEMMA RecInvInit == RecInit => RecInv
<1> SUFFICES ASSUME RecInit PROVE RecInv
  OBVIOUS
<1>1. TypeOK /\ WorkersCoherent
  BY InvInitially DEF RecInit, Inv
<1>2. 0 \in 0 .. MaxDeaths /\ 0 \in 0 .. MaxRevivals
  BY RecoveryAssumption
<1>3. RecTypeOK
  BY <1>1, <1>2 DEF RecInit, RecTypeOK
<1> QED
  BY <1>1, <1>3, ReplicationAssumption DEF RecInit, Init, RecInv, RepairsCoherent,
     UploadsCoherent, InProgress, OwedCoherent

(***************************************************************************)
(* The node's parts stay well formed, and repair owes chunks to other      *)
(* nodes only, whatever the order of deaths, re-admissions, repairs,       *)
(* uploads and pushes (recovery.Manager, handleUploadBlob, Engine).        *)
(***************************************************************************)
THEOREM RecoveryTypeCorrect == RecSpec => []RecTypeOK
<1>1. RecInv /\ [RecNext]_recVars => RecInv'
  BY RecInvPreserved, RecSteps
<1>2. RecInv => RecTypeOK
  BY DEF RecInv
<1> QED
  BY <1>1, <1>2, RecInvInit, PTL DEF RecSpec
----------------------------------------------------------------------------
LEMMA TailDiffers ==
    ASSUME NEW s \in Seq(Chunk), s # <<>>
    PROVE  Head(s) \in Chunk /\ s # Tail(s)
<1>1. Len(s) \in Nat /\ Len(Tail(s)) = Len(s) - 1 /\ Head(s) \in Chunk
  OBVIOUS
<1>2. \A n \in Nat : n - 1 # n
  OBVIOUS
<1> QED
  BY <1>1, <1>2, Zenon

(***************************************************************************)
(* Nothing but a worker's Take shortens the queue, and it takes the head.  *)
(***************************************************************************)
LEMMA TakenOrQueued ==
    ASSUME TypeOK, NEW w \in Worker, Take(w), NEW c \in Queued
    PROVE  c = Head(queue) \/ c \in Queued'
<1>1. PICK i \in DOMAIN queue : c = queue[i]
  BY DEF Queued
<1>2. queue \in Seq(Chunk) /\ queue # <<>> /\ queue' = Tail(queue)
  BY DEF TypeOK, Take
<1>3. CASE i = 1
  BY <1>1, <1>2, <1>3
<1>4. CASE i # 1
  <2>1. i - 1 \in DOMAIN queue' /\ queue'[i - 1] = queue[i]
    BY <1>2, <1>4
  <2> QED
    BY <1>1, <2>1 DEF Queued
<1> QED
  BY <1>3, <1>4

(***************************************************************************)
(* A job that is taken is in hand for each of its targets but this node.   *)
(***************************************************************************)
LEMMA TakenIsInHand ==
    ASSUME TypeOK, NEW w \in Worker, Take(w), NEW n \in Targets(Head(queue)) \ {self}
    PROVE  <<Head(queue), n>> \in InHand'
<1> DEFINE c == Head(queue)
           rest == Targets(c) \ {self}
<1>1. c \in Chunk /\ rest \in SUBSET Node
  BY TargetsTyped DEF TypeOK, Take
<1>2. /\ todo' = [todo EXCEPT ![w] = rest]
      /\ job' = [job EXCEPT ![w] = IF rest = {} THEN NoChunk ELSE c]
  BY DEF Take
<1>3. n \in rest
  OBVIOUS
<1> HIDE DEF c, rest
<1>4. todo'[w] = rest /\ job'[w] = c
  BY <1>2, <1>3 DEF TypeOK
<1>5. <<c, n>> \in InHand'
  BY <1>1, <1>3, <1>4 DEF InHand
<1> QED
  BY <1>5 DEF c

LEMMA EnqueueKeepsQueued ==
    ASSUME TypeOK, NEW c \in Chunk, Enqueue(c)
    PROVE  Queued \cup {c} \subseteq Queued'
  BY EnqueueTyped DEF Queued

(***************************************************************************)
(* Seen to stays seen to, as long as the ring does not move.  Each way of  *)
(* being seen to ends in another one: a visit in the queue, the queue in a *)
(* worker's hands, those in one of the three ends.                         *)
(***************************************************************************)
LEMMA EngineKeepsSeenTo ==
    ASSUME RecInv, EngineStep, Aside, NEW p \in Chunk \X (Node \ {self}),
           {self, p[2]} \subseteq Targets(p[1]), SeenTo(p)
    PROVE  SeenTo(p)'
<1>0. TypeOK /\ WorkersCoherent /\ [Next]_vars
  BY EngineSteps DEF RecInv, RecTypeOK
<1>1. CASE p \in Delivered
  <2>1. p[2] \in Node /\ p[1] \in stored[p[2]]
    BY <1>1 DEF Delivered
  <2>2. p[1] \in stored'[p[2]]
    BY <1>0, <2>1, StoresGrow
  <2> QED
    BY <2>1, <2>2 DEF SeenTo, Delivered
<1>2. CASE p \in gaveUp \cup abandoned
  <2>1. gaveUp \subseteq gaveUp' /\ abandoned \subseteq abandoned'
    BY DEF EngineStep, WorkerStep, history, Cancel, Stop, Take, PushOk, PushFailed,
       BackoffOver, BackoffCancelled, WorkerExit, Flip
  <2> QED
    BY <1>2, <2>1 DEF SeenTo
<1>3. CASE p \in InHand
  BY <1>0, <1>3, InHandEnds DEF SeenTo
<1>4. CASE p[1] \in Queued
  <2>1. ASSUME NEW w \in Worker, Take(w) PROVE SeenTo(p)'
    <3>1. CASE p[1] = Head(queue)
      <4>1. p[2] \in Targets(Head(queue)) \ {self} /\ p = <<p[1], p[2]>>
        BY <3>1
      <4>2. <<Head(queue), p[2]>> \in InHand'
        BY <1>0, <2>1, <4>1, TakenIsInHand
      <4> QED
        BY <3>1, <4>1, <4>2 DEF SeenTo
    <3>2. CASE p[1] # Head(queue)
      BY <1>0, <1>4, <2>1, <3>2, TakenOrQueued DEF SeenTo
    <3> QED
      BY <3>1, <3>2
  <2>2. CASE queue' = queue
    BY <1>4, <2>2 DEF SeenTo, Queued
  <2> QED
    BY <2>1, <2>2 DEF EngineStep, WorkerStep, Cancel, Stop, PushOk, PushFailed, BackoffOver,
       BackoffCancelled, WorkerExit, Flip
<1>5. CASE p[1] \in unread \/ \E d \in Node : Visiting(d, p[1])
  BY <1>5 DEF SeenTo, Visiting, Aside, repairs
<1> QED
  BY <1>1, <1>2, <1>3, <1>4, <1>5 DEF SeenTo

(***************************************************************************)
(* The steps around the engine leave what is past the queue alone.         *)
(***************************************************************************)
LEMMA RepairKeepsSeenTo ==
    ASSUME RecInv, NEW d \in Node, RepairStep(d), NEW p \in Chunk \X (Node \ {self}),
           p[1] \in stored[self], self \in Targets(p[1]), SeenTo(p)
    PROVE  SeenTo(p)'
<1> USE DEF vars, engine, repairs, uploads, counts, switches, work, history
<1>0. RecTypeOK /\ TypeOK /\ RepairsCoherent
  BY DEF RecInv, RecTypeOK
<1>1. /\ UNCHANGED <<stored, gaveUp, abandoned, job, todo>>
      /\ unread \subseteq unread'
  BY DEF RepairStep, RepairList, RepairVisit, RepairEnqueue, RepairDone
<1>2. Queued \subseteq Queued' /\ (rpc[d] = "send" => cur[d] \in Queued')
  <2>1. CASE RepairEnqueue(d)
    <3>1. cur[d] \in Chunk /\ Enqueue(cur[d])
      BY <1>0, <2>1 DEF RepairEnqueue, RepairsCoherent
    <3> QED
      BY <1>0, <3>1, EnqueueKeepsQueued
  <2>2. CASE RepairList(d) \/ RepairDone(d) \/ \E c \in Chunk : RepairVisit(d, c)
    BY <2>2 DEF RepairList, RepairDone, RepairVisit, Queued
  <2> QED
    BY <2>1, <2>2 DEF RepairStep
<1>3. CASE p \in Delivered \cup gaveUp \cup abandoned \cup InHand
  BY <1>1, <1>3 DEF SeenTo, Delivered, InHand
<1>4. CASE p[1] \in Queued \cup unread
  BY <1>1, <1>2, <1>4 DEF SeenTo
<1>5. ASSUME NEW e \in Node, e # d, Visiting(e, p[1]) PROVE SeenTo(p)'
  <2>1. rpc'[e] = rpc[e] /\ ids'[e] = ids[e] /\ cur'[e] = cur[e]
    BY <1>0, <1>5 DEF RecTypeOK, RepairStep, RepairList, RepairVisit, RepairEnqueue, RepairDone
  <2> QED
    BY <1>5, <2>1 DEF SeenTo, Visiting
<1>6. CASE Visiting(d, p[1])
  <2>1. CASE RepairList(d)
    BY <1>0, <2>1 DEF RepairList, RecTypeOK, SeenTo, Visiting
  <2>2. ASSUME NEW c \in Chunk, RepairVisit(d, c) PROVE SeenTo(p)'
    <3>1. rpc[d] = "walk" /\ p[1] \in ids[d]
      BY <1>6, <2>2 DEF RepairVisit, Visiting
    <3>2. rpc'[d] \in {"walk", "send"}
      BY <1>0, <2>2, <3>1 DEF RepairVisit, RecTypeOK
    <3>3. CASE c # p[1]
      <4>1. p[1] \in ids'[d]
        BY <1>0, <2>2, <3>1, <3>3 DEF RepairVisit, RecTypeOK
      <4> QED
        BY <3>2, <4>1 DEF SeenTo, Visiting
    <3>4. CASE c = p[1]
      BY <1>0, <2>2, <3>4 DEF RepairVisit, RecTypeOK, SeenTo, Visiting
    <3> QED
      BY <3>3, <3>4
  <2>3. CASE RepairEnqueue(d)
    <3>1. rpc[d] = "send" /\ rpc'[d] = "walk" /\ ids' = ids
      BY <1>0, <2>3 DEF RepairEnqueue, RecTypeOK
    <3> QED
      BY <1>2, <1>6, <3>1 DEF SeenTo, Visiting
  <2>4. CASE RepairDone(d)
    BY <1>6, <2>4 DEF RepairDone, Visiting
  <2> QED
    BY <2>1, <2>2, <2>3, <2>4 DEF RepairStep
<1> QED
  BY <1>3, <1>4, <1>5, <1>6 DEF SeenTo

LEMMA UploadKeepsSeenTo ==
    ASSUME RecInv, NEW h \in Handler, UploadBegin(h) \/ UploadStep(h) \/ HandlerGivesUp(h),
           NEW p \in Chunk \X (Node \ {self}), SeenTo(p)
    PROVE  SeenTo(p)'
<1> USE DEF vars, engine, repairs, uploads, counts, switches, work, history
<1>0. TypeOK /\ UploadsCoherent
  BY DEF RecInv, RecTypeOK
<1>1. UNCHANGED <<gaveUp, abandoned, job, todo, unread, rpc, ids, cur>>
  BY DEF UploadBegin, UploadStep, UploadPut, UploadEnqueue, HandlerGivesUp
<1>2. Queued \subseteq Queued'
  <2>1. CASE UploadEnqueue(h)
    <3>1. Blob[h][hpos[h]] \in Chunk /\ Enqueue(Blob[h][hpos[h]])
      BY <1>0, <2>1, BlobTyped DEF UploadEnqueue, UploadsCoherent, InProgress
    <3> QED
      BY <1>0, <3>1, EnqueueKeepsQueued
  <2>2. CASE UploadBegin(h) \/ UploadPut(h) \/ HandlerGivesUp(h)
    BY <2>2 DEF UploadBegin, UploadPut, HandlerGivesUp, Queued
  <2> QED
    BY <2>1, <2>2 DEF UploadStep
<1>3. Delivered \subseteq Delivered'
  <2>1. \/ stored' = stored
        \/ stored' = [stored EXCEPT ![self] = @ \cup {Blob[h][hpos[h]]}]
    BY DEF UploadBegin, UploadStep, UploadPut, UploadEnqueue, HandlerGivesUp
  <2>2. \A n \in Node : stored[n] \subseteq stored'[n]
    BY <1>0, <2>1, LocalPutGrows
  <2> QED
    BY <2>2 DEF Delivered
<1> QED
  BY <1>1, <1>2, <1>3 DEF SeenTo, Visiting, InHand

LEMMA HolePreserved ==
    RecInv /\ RepairHasNoHole /\ (RecStep \/ UNCHANGED recVars) => RepairHasNoHole'
<1> SUFFICES ASSUME RecInv, RepairHasNoHole, RecStep \/ UNCHANGED recVars,
                    NEW p \in repairOwed', {self, p[2]} \subseteq Targets(p[1])'
             PROVE  SeenTo(p)'
  BY DEF RepairHasNoHole
<1> USE DEF vars, engine, repairs, uploads, counts, switches, work, history
<1>0. RecTypeOK /\ TypeOK /\ OwedCoherent
  BY DEF RecInv, RecTypeOK
<1>1. ASSUME NEW d \in Node, HandleNodeDead(d) PROVE SeenTo(p)'
  BY <1>0, <1>1 DEF HandleNodeDead, RecTypeOK, SeenTo, Visiting
<1>2. ASSUME NEW n \in Node, HandleNodeAlive(n) PROVE SeenTo(p)'
  <2>1. p \in repairOwed /\ p[2] \in ring /\ self \in ring /\ n \notin ring
    BY <1>0, <1>2 DEF HandleNodeAlive, OwedCoherent
  <2>2. IsFiniteSet(ring) /\ Factor \in Nat
    BY <1>0, FS_Subset, ReplicationAssumption DEF TypeOK
  <2>3. Targets(p[1])' \subseteq Targets(p[1]) \cup {n}
    BY <1>2, <2>2, JoinAddsOnlyItself DEF HandleNodeAlive, Targets
  <2>4. SeenTo(p)
    BY <2>1, <2>3 DEF RepairHasNoHole
  <2> QED
    BY <1>2, <2>4 DEF HandleNodeAlive, SeenTo, Delivered, InHand, Queued, Visiting
<1>3. ASSUME UNCHANGED <<ring, repairOwed>>
      PROVE  /\ p \in Chunk \X (Node \ {self}) /\ p[1] \in stored[self]
             /\ {self, p[2]} \subseteq Targets(p[1]) /\ SeenTo(p)
  <2>1. p \in repairOwed /\ {self, p[2]} \subseteq Targets(p[1])
    BY <1>3 DEF Targets
  <2> QED
    BY <1>0, <2>1 DEF RecTypeOK, OwedCoherent, RepairHasNoHole
<1>4. ASSUME NEW d \in Node, RepairStep(d) PROVE SeenTo(p)'
  <2>1. UNCHANGED <<ring, repairOwed>>
    BY <1>4 DEF RepairStep, RepairList, RepairVisit, RepairEnqueue, RepairDone
  <2> QED
    BY <1>3, <1>4, <2>1, RepairKeepsSeenTo
<1>5. ASSUME NEW h \in Handler, UploadBegin(h) \/ UploadStep(h) \/ HandlerGivesUp(h)
      PROVE  SeenTo(p)'
  <2>1. UNCHANGED <<ring, repairOwed>>
    BY <1>5 DEF UploadBegin, UploadStep, UploadPut, UploadEnqueue, HandlerGivesUp
  <2> QED
    BY <1>3, <1>5, <2>1, UploadKeepsSeenTo
<1>6. ASSUME NEW c \in Chunk, HandlePutChunk(c) PROVE SeenTo(p)'
  <2>1. UNCHANGED <<ring, repairOwed>>
    BY <1>6 DEF HandlePutChunk
  <2>2. \A n \in Node : stored[n] \subseteq stored'[n]
    <3>1. stored' = [stored EXCEPT ![self] = @ \cup {c}]
      BY <1>6 DEF HandlePutChunk
    <3> QED
      BY <1>0, <3>1, LocalPutGrows
  <2> QED
    BY <1>3, <1>6, <2>1, <2>2 DEF HandlePutChunk, SeenTo, Delivered, InHand, Queued, Visiting
<1>7. CASE EngineStep /\ Aside
  <2>1. UNCHANGED <<ring, repairOwed>>
    BY <1>7 DEF Aside, EngineStep, Cancel, Stop, WorkerStep, Take, PushOk, PushFailed,
       BackoffOver, BackoffCancelled, WorkerExit, Flip
  <2> QED
    BY <1>3, <1>7, <2>1, EngineKeepsSeenTo
<1>8. CASE UNCHANGED recVars
  BY <1>3, <1>8 DEF recVars, SeenTo, Delivered, InHand, Queued, Visiting
<1> QED
  BY <1>1, <1>2, <1>4, <1>5, <1>6, <1>7, <1>8 DEF RecStep, AroundStep

(***************************************************************************)
(* No hole in repair, for any number of nodes, deaths, re-admissions and   *)
(* concurrent repairs: the walk, the queue and the workers hand every      *)
(* owed chunk on to one another although each reads a ring of its own time *)
(* (HandleNodeDead, repairLocalChunks, replicate).                         *)
(***************************************************************************)
THEOREM RepairIsComplete == RecSpec => []RepairHasNoHole
<1>1. RecInit => RepairHasNoHole
  BY DEF RecInit, RepairHasNoHole
<1>2. RecInv /\ RepairHasNoHole /\ [RecNext]_recVars => RecInv' /\ RepairHasNoHole'
  BY RecInvPreserved, HolePreserved, RecSteps
<1> QED
  BY <1>1, <1>2, RecInvInit, PTL DEF RecSpec
----------------------------------------------------------------------------
(***************************************************************************)
(* The same node through its shutdown.  Each step of NodeNext is one of    *)
(* main's, or one of the steps above that leaves main's state alone.       *)
(***************************************************************************)
OtherStep ==
    /\ UNCHANGED <<phase, timedOut>>
    /\ \/ \E d \in Node : HandleNodeDead(d) \/ HandleNodeAlive(d) \/ RepairStep(d)
       \/ \E h \in Handler : UploadStep(h) \/ (phase = "serving" /\ UploadBegin(h))
       \/ \E h \in Handler : HandlerGivesUp(h)
       \/ \E c \in Chunk : HandlePutChunk(c)
       \/ ((\E w \in Worker : WorkerStep(w)) \/ (\E n \in Node : Flip(n))) /\ Aside

LEMMA NodeStepKinds ==
    [NodeNext]_nodeVars => \/ Sigterm \/ Shutdown \/ Exit \/ CancelContext \/ StopEngine
                           \/ \E d \in Node : RepairPanics(d)
                           \/ OtherStep
                           \/ UNCHANGED nodeVars
<1>1. ASSUME NEW h \in Handler, UploadPanics(h) PROVE OtherStep
  <2>1. HandlerGivesUp(h) /\ UNCHANGED <<phase, timedOut>>
    BY <1>1 DEF UploadPanics, HandlerGivesUp
  <2> QED
    BY <2>1 DEF OtherStep
<1>2. ASSUME NEW w \in Worker, Work(w), Elsewhere PROVE OtherStep
  BY <1>2 DEF Work, Elsewhere, OtherStep
<1>3. CASE /\ \/ \E d \in Node : HandleNodeDead(d) \/ HandleNodeAlive(d) \/ RepairStep(d)
              \/ \E h \in Handler : UploadStep(h) \/ (phase = "serving" /\ UploadBegin(h))
              \/ \E c \in Chunk : HandlePutChunk(c)
              \/ \E n \in Node : Flip(n) /\ Aside
           /\ Elsewhere
  BY <1>3 DEF Elsewhere, OtherStep
<1> QED
  BY <1>1, <1>2, <1>3 DEF NodeNext, MainStep

LEMMA NodeSteps == [NodeNext]_nodeVars => RecStep \/ UNCHANGED recVars
<1>1. OtherStep => RecStep
  BY DEF OtherStep, RecStep, AroundStep, EngineStep
<1>2. CancelContext \/ StopEngine => RecStep
  BY DEF CancelContext, StopEngine, RecStep, EngineStep, Beside, Aside
<1>3. Sigterm \/ Shutdown \/ Exit \/ (\E d \in Node : RepairPanics(d)) \/ UNCHANGED nodeVars
        => UNCHANGED recVars
  BY DEF Sigterm, Shutdown, Exit, RepairPanics, nodeVars
<1> QED
  BY <1>1, <1>2, <1>3, NodeStepKinds

LEMMA OthersKeepSwitches == OtherStep => UNCHANGED <<closed, cancelled>>
  BY DEF OtherStep, HandleNodeDead, HandleNodeAlive, RepairStep, RepairList, RepairVisit,
     RepairEnqueue, RepairDone, UploadStep, UploadPut, UploadEnqueue, HandlerGivesUp,
     UploadBegin, HandlePutChunk, WorkerStep, Take, PushOk, PushFailed, BackoffOver,
     BackoffCancelled, WorkerExit, Flip, vars, engine, switches

LEMMA SkippedTyped ==
    ASSUME [NodeNext]_nodeVars, skipped \subseteq Chunk
    PROVE  skipped \subseteq skipped' /\ skipped' \subseteq Chunk
  BY DEF NodeNext, MainStep, Sigterm, Shutdown, Exit, CancelContext, StopEngine, Beside,
     UploadPanics, RepairPanics, Work, nodeVars

NodeInv == RecInv /\ NodeTypeOK

LEMMA NodeInvPreserved == NodeInv /\ [NodeNext]_nodeVars => NodeInv'
<1> SUFFICES ASSUME RecInv, NodeTypeOK, [NodeNext]_nodeVars PROVE NodeInv'
  BY DEF NodeInv
<1>1. RecInv' /\ RecTypeOK'
  BY NodeSteps, RecInvPreserved DEF RecInv
<1>2. skipped' \subseteq Chunk
  BY SkippedTyped DEF NodeTypeOK
<1>3. CASE Sigterm \/ Shutdown \/ Exit \/ \E d \in Node : RepairPanics(d)
  <2>1. UNCHANGED <<closed, cancelled>>
    BY <1>3 DEF Sigterm, Shutdown, Exit, RepairPanics, recVars, vars
  <2> QED
    BY <1>1, <1>2, <1>3, <2>1 DEF NodeInv, NodeTypeOK, Over, Sigterm, Shutdown, Exit,
       RepairPanics
<1>4. CASE CancelContext \/ StopEngine
  BY <1>1, <1>2, <1>4 DEF NodeInv, NodeTypeOK, Over, CancelContext, StopEngine, Cancel, Stop,
     Beside
<1>5. CASE OtherStep
  BY <1>1, <1>2, <1>5, OthersKeepSwitches DEF NodeInv, NodeTypeOK, OtherStep
<1>6. CASE UNCHANGED nodeVars
  BY <1>1, <1>2, <1>6 DEF NodeInv, NodeTypeOK, nodeVars, recVars, vars
<1> QED
  BY <1>3, <1>4, <1>5, <1>6, NodeStepKinds

LEMMA NodeInvAlways == NodeSpec => []NodeInv
<1>1. NodeInit => NodeInv
  <2> SUFFICES ASSUME NodeInit PROVE NodeInv
    OBVIOUS
  <2>1. RecInv /\ RecTypeOK
    BY RecInvInit DEF NodeInit, RecInv
  <2> QED
    BY <2>1 DEF NodeInit, NodeInv, NodeTypeOK, RecInit, Init, Over
<1> QED
  BY <1>1, NodeInvPreserved, PTL DEF NodeSpec

(***************************************************************************)
(* main's state and the engine's two switches agree at every moment: the   *)
(* queue is closed by main alone, once, and after the context (main).      *)
(***************************************************************************)
THEOREM NodeTypeCorrect == NodeSpec => []NodeTypeOK
  BY NodeInvAlways, PTL DEF NodeInv

----------------------------------------------------------------------------
(***************************************************************************)
(* Past Shutdown, a request still in progress is one Shutdown gave up on:  *)
(* the listener is closed, and requests only end.                          *)
(***************************************************************************)
TimeoutInv ==
    phase \notin {"serving", "shutdown"} /\ (\E h \in Handler : InProgress(h)) => timedOut

LEMMA TimeoutPreserved == NodeInv /\ TimeoutInv /\ [NodeNext]_nodeVars => TimeoutInv'
<1> SUFFICES ASSUME NodeTypeOK, RecTypeOK, TimeoutInv, [NodeNext]_nodeVars,
                    phase' \notin {"serving", "shutdown"},
                    NEW h \in Handler, InProgress(h)'
             PROVE  timedOut'
  BY DEF NodeInv, NodeTypeOK, TimeoutInv
<1>1. CASE Sigterm
  BY <1>1 DEF Sigterm
<1>2. CASE Shutdown
  BY <1>2 DEF Shutdown, InProgress, recVars
<1>3. CASE CancelContext \/ StopEngine \/ Exit \/ \E d \in Node : RepairPanics(d)
  <2>1. hpc' = hpc /\ timedOut' = timedOut
    BY <1>3 DEF CancelContext, StopEngine, Beside, Exit, RepairPanics, recVars, uploads
  <2>2. phase \notin {"serving", "shutdown"}
    <3>1. CASE CancelContext \/ StopEngine \/ Exit
      BY <3>1 DEF CancelContext, StopEngine, Exit
    <3>2. CASE \E d \in Node : RepairPanics(d)
      BY <3>2 DEF RepairPanics, NodeTypeOK, Over
    <3> QED
      BY <1>3, <3>1, <3>2
  <2> QED
    BY <2>1, <2>2 DEF TimeoutInv, InProgress
<1>4. CASE OtherStep
  <2>1. UNCHANGED <<phase, timedOut>>
    BY <1>4 DEF OtherStep
  <2>2. InProgress(h)
    <3>1. ASSUME NEW g \in Handler, UploadStep(g) \/ HandlerGivesUp(g) PROVE InProgress(h)
      <4>1. CASE g = h
        BY <3>1, <4>1 DEF UploadStep, UploadPut, UploadEnqueue, HandlerGivesUp, InProgress,
           RecTypeOK
      <4>2. CASE g # h
        BY <3>1, <4>2 DEF UploadStep, UploadPut, UploadEnqueue, HandlerGivesUp, InProgress,
           RecTypeOK
      <4> QED
        BY <4>1, <4>2
    <3>2. CASE hpc' = hpc
      BY <3>2 DEF InProgress
    <3>3. phase # "serving"
      BY <2>1
    <3> QED
      BY <1>4, <3>1, <3>2, <3>3 DEF OtherStep, HandleNodeDead, HandleNodeAlive, RepairStep,
         RepairList, RepairVisit, RepairEnqueue, RepairDone, HandlePutChunk, Aside, uploads
  <2> QED
    BY <2>1, <2>2 DEF TimeoutInv
<1>5. CASE UNCHANGED nodeVars
  BY <1>5 DEF nodeVars, recVars, TimeoutInv, InProgress
<1> QED
  BY <1>1, <1>2, <1>3, <1>4, <1>5, NodeStepKinds

(***************************************************************************)
(* No upload meets the closed queue unless Shutdown's 10 seconds ran out,  *)
(* for any number of requests and at any pace (main, server.Shutdown,      *)
(* Engine.Stop).                                                           *)
(***************************************************************************)
THEOREM UploadsCutOffOnlyByTimeout == NodeSpec => []CutOffOnlyByTimeout
<1>1. NodeInit => TimeoutInv
  BY DEF NodeInit, TimeoutInv
<1>2. NodeInv /\ TimeoutInv => CutOffOnlyByTimeout
  BY DEF NodeInv, NodeTypeOK, Over, TimeoutInv, CutOffOnlyByTimeout
<1> QED
  BY <1>1, <1>2, NodeInvAlways, TimeoutPreserved, PTL DEF NodeSpec
----------------------------------------------------------------------------
(***************************************************************************)
(* The engine's own invariants hold around it as well: the ring and the    *)
(* queue change under it, and chunks arrive that no worker pushed.         *)
(***************************************************************************)
LEMMA AroundKeepsEngine ==
    ASSUME RecInv, AroundStep \/ UNCHANGED recVars
    PROVE  /\ UNCHANGED <<pc, job, todo, owed, gaveUp, abandoned, closed, cancelled>>
           /\ \A n \in Node : stored[n] \subseteq stored'[n]
           /\ closed => queue' = queue
<1> USE DEF vars, engine, switches, work, history
<1>1. UNCHANGED <<pc, job, todo, owed, gaveUp, abandoned, closed, cancelled>>
  BY DEF recVars, AroundStep, HandleNodeDead, HandleNodeAlive, RepairStep, RepairList,
     RepairVisit, RepairEnqueue, RepairDone, UploadStep, UploadPut, UploadEnqueue,
     HandlerGivesUp, UploadBegin, HandlePutChunk
<1>2. closed => queue' = queue
  BY DEF recVars, AroundStep, HandleNodeDead, HandleNodeAlive, RepairStep, RepairList,
     RepairVisit, RepairEnqueue, RepairDone, UploadStep, UploadPut, UploadEnqueue,
     HandlerGivesUp, UploadBegin, HandlePutChunk, Enqueue
<1>3. \E c : stored' = stored \/ stored' = [stored EXCEPT ![self] = @ \cup {c}]
  BY DEF recVars, AroundStep, HandleNodeDead, HandleNodeAlive, RepairStep, RepairList,
     RepairVisit, RepairEnqueue, RepairDone, UploadStep, UploadPut, UploadEnqueue,
     HandlerGivesUp, UploadBegin, HandlePutChunk
<1>4. TypeOK
  BY DEF RecInv, RecTypeOK
<1> QED
  BY <1>1, <1>2, <1>3, <1>4, LocalPutGrows

LEMMA EngineInvPreserved ==
    RecInv /\ NoTargetForgotten /\ DrainInv /\ (RecStep \/ UNCHANGED recVars)
      => NoTargetForgotten' /\ DrainInv'
<1> SUFFICES ASSUME RecInv, NoTargetForgotten, DrainInv, RecStep \/ UNCHANGED recVars
             PROVE  NoTargetForgotten' /\ DrainInv'
  OBVIOUS
<1>1. CASE EngineStep
  <2>1. Inv /\ [Next]_vars
    BY <1>1, EngineSteps DEF RecInv, RecTypeOK, Inv
  <2> QED
    BY <2>1, ForgottenPreserved, DrainPreserved
<1>2. CASE AroundStep \/ UNCHANGED recVars
  <2>1. DrainInv'
    BY <1>2, AroundKeepsEngine DEF DrainInv
  <2>2. Delivered \subseteq Delivered' /\ InHand' = InHand
    BY <1>2, AroundKeepsEngine DEF Delivered, InHand
  <2>3. NoTargetForgotten'
    BY <1>2, <2>2, AroundKeepsEngine DEF NoTargetForgotten
  <2> QED
    BY <2>1, <2>3
<1> QED
  BY <1>1, <1>2 DEF RecStep

(***************************************************************************)
(* Every chunk that a handler is past is kept here, still queued, noted as *)
(* skipped, or was taken by a worker for at least one other node.          *)
(***************************************************************************)
Accounted(c) == \/ c \in stored[self] \cup skipped \cup Queued
                \/ \E n \in Node : <<c, n>> \in owed

UploadsAccounted ==
    \A h \in Handler : \A i \in 1 .. Len(Blob[h]) : i < hpos[h] => Accounted(Blob[h][i])

(***************************************************************************)
(* A chunk a worker takes is not lost from sight: the ring is never empty, *)
(* so the chunk has an owner, another node (owed) or this one.             *)
(***************************************************************************)
LEMMA TakenIsAccounted ==
    ASSUME NodeInv, NEW w \in Worker, Work(w), Take(w), NEW c, c = Head(queue)
    PROVE  Accounted(c)'
<1> DEFINE rest == Targets(c) \ {self}
<1>1. TypeOK /\ self \in ring
  BY DEF NodeInv, RecInv, RecTypeOK, OwedCoherent
<1>2. queue \in Seq(Chunk) /\ queue # <<>> /\ queue' = Tail(queue)
  BY <1>1 DEF TypeOK, Take
<1>3. c \in Chunk /\ queue # queue'
  BY <1>2, TailDiffers
<1>4. owed' = owed \cup ({c} \X rest) /\ stored' = stored
  BY DEF Take
<1>5. rest \subseteq Node
  BY <1>1, TargetsTyped
<1>6. CASE rest # {}
  <2>1. PICK n \in rest : TRUE
    BY <1>6
  <2>2. <<c, n>> \in owed' /\ n \in Node
    BY <1>4, <1>5, <2>1
  <2> QED
    BY <2>2 DEF Accounted
<1>7. CASE rest = {}
  <2>1. \A x \in ring : Rank[c][x] \in Nat
    BY <1>1, <1>3, ReplicationAssumption DEF TypeOK
  <2>2. Targets(c) # {}
    BY <1>1, <2>1, OwnersExist, ReplicationAssumption DEF Targets
  <2>3. self \in Targets(c)
    BY <1>7, <2>2
  <2>4. c \in stored[self] \/ c \in skipped'
    BY <1>3, <2>3 DEF Work
  <2> QED
    BY <1>4, <2>4 DEF Accounted
<1> QED
  BY <1>6, <1>7

LEMMA QueueSteps ==
    ASSUME NodeInv, [NodeNext]_nodeVars
    PROVE  \/ queue' = queue
           \/ \E c \in Chunk : Enqueue(c)
           \/ \E w \in Worker : Work(w) /\ Take(w)
<1> USE DEF vars, engine
<1>0. UploadsCoherent /\ RepairsCoherent
  BY DEF NodeInv, RecInv
<1>1. CASE \E w \in Worker : Work(w)
  BY <1>1 DEF Work, WorkerStep, PushOk, PushFailed, BackoffOver, BackoffCancelled, WorkerExit
<1>2. ASSUME NEW h \in Handler, UploadStep(h) PROVE queue' = queue \/ \E c \in Chunk : Enqueue(c)
  <2>1. CASE UploadPut(h)
    BY <2>1 DEF UploadPut
  <2>2. CASE UploadEnqueue(h)
    <3>1. Blob[h][hpos[h]] \in Chunk /\ Enqueue(Blob[h][hpos[h]])
      BY <1>0, <2>2, BlobTyped DEF UploadEnqueue, UploadsCoherent, InProgress
    <3> QED
      BY <3>1
  <2> QED
    BY <1>2, <2>1, <2>2 DEF UploadStep
<1>3. ASSUME NEW d \in Node, RepairStep(d) PROVE queue' = queue \/ \E c \in Chunk : Enqueue(c)
  BY <1>0, <1>3 DEF RepairStep, RepairList, RepairVisit, RepairEnqueue, RepairDone,
     RepairsCoherent
<1>4. CASE \/ Sigterm \/ MainStep \/ UNCHANGED nodeVars
           \/ \E h \in Handler : UploadPanics(h) \/ UploadBegin(h)
           \/ \E d \in Node : RepairPanics(d) \/ HandleNodeDead(d) \/ HandleNodeAlive(d)
           \/ \E c \in Chunk : HandlePutChunk(c)
           \/ \E n \in Node : Flip(n)
  BY <1>4 DEF Sigterm, MainStep, Shutdown, CancelContext, Cancel, StopEngine, Stop, Exit,
     nodeVars, recVars, UploadPanics, UploadBegin, RepairPanics, HandleNodeDead,
     HandleNodeAlive, HandlePutChunk, Flip
<1> QED
  BY <1>1, <1>2, <1>3, <1>4 DEF NodeNext

LEMMA AccountedStays ==
    ASSUME NodeInv, [NodeNext]_nodeVars, NEW c, Accounted(c)
    PROVE  Accounted(c)'
<1>1. TypeOK /\ WorkersCoherent /\ RecInv
  BY DEF NodeInv, RecInv, RecTypeOK
<1>2. RecStep \/ UNCHANGED recVars
  BY NodeSteps
<1>3. stored[self] \subseteq stored'[self] /\ owed \subseteq owed' /\ skipped \subseteq skipped'
  <2>1. CASE EngineStep
    <3>1. stored[self] \subseteq stored'[self]
      BY <1>1, <2>1, EngineSteps, StoresGrow, ReplicationAssumption
    <3>2. owed \subseteq owed'
      BY <2>1 DEF EngineStep, WorkerStep, history, Cancel, Stop, Take, PushOk, PushFailed,
         BackoffOver, BackoffCancelled, WorkerExit, Flip
    <3> QED
      BY <3>1, <3>2, SkippedTyped DEF NodeInv, NodeTypeOK
  <2>2. CASE AroundStep \/ UNCHANGED recVars
    BY <1>1, <2>2, AroundKeepsEngine, SkippedTyped, ReplicationAssumption
       DEF NodeInv, NodeTypeOK
  <2> QED
    BY <1>2, <2>1, <2>2 DEF RecStep
<1>4. ASSUME c \in Queued PROVE Accounted(c)'
  <2>1. ASSUME NEW w \in Worker, Work(w), Take(w) PROVE Accounted(c)'
    <3>1. CASE c = Head(queue)
      BY <2>1, <3>1, TakenIsAccounted
    <3>2. CASE c # Head(queue)
      BY <1>1, <1>4, <2>1, <3>2, TakenOrQueued DEF Accounted
    <3> QED
      BY <3>1, <3>2
  <2>2. ASSUME NEW d \in Chunk, Enqueue(d) PROVE Accounted(c)'
    <3>1. Queued \subseteq Queued'
      BY <1>1, <2>2, EnqueueKeepsQueued
    <3> QED
      BY <1>4, <3>1 DEF Accounted
  <2>3. CASE queue' = queue
    BY <1>4, <2>3 DEF Accounted, Queued
  <2> QED
    BY <2>1, <2>2, <2>3, QueueSteps
<1> QED
  BY <1>3, <1>4 DEF Accounted

LEMMA AccountedPreserved ==
    NodeInv /\ UploadsAccounted /\ [NodeNext]_nodeVars => UploadsAccounted'
<1> SUFFICES ASSUME NodeInv, UploadsAccounted, [NodeNext]_nodeVars,
                    NEW h \in Handler, NEW i \in 1 .. Len(Blob[h]), i < hpos'[h]
             PROVE  Accounted(Blob[h][i])'
  BY DEF UploadsAccounted
<1>0. TypeOK /\ RecTypeOK /\ UploadsCoherent
  BY DEF NodeInv, RecInv, RecTypeOK
<1>1. CASE i < hpos[h]
  BY <1>1, AccountedStays DEF UploadsAccounted
<1>2. CASE ~(i < hpos[h])
  <2>1. hpos' # hpos
    BY <1>2
  <2>2. PICK g \in Handler : UploadEnqueue(g)
    BY <2>1 DEF NodeNext, nodeVars, recVars, Sigterm, MainStep, Shutdown, CancelContext,
       StopEngine, Exit, Beside, uploads, UploadPanics, RepairPanics, Work, Aside,
       HandleNodeDead, HandleNodeAlive, RepairStep, RepairList, RepairVisit, RepairEnqueue,
       RepairDone, UploadStep, UploadPut, UploadBegin, HandlePutChunk
  <2>3. hpos' = [hpos EXCEPT ![g] = hpos[g] + 1]
    BY <2>2 DEF UploadEnqueue
  <2>4. g = h /\ hpos'[h] = hpos[h] + 1 /\ hpos[h] \in Nat /\ i \in Nat
    BY <1>0, <1>2, <2>3 DEF RecTypeOK
  <2>5. i = hpos[h]
    BY <1>2, <2>4
  <2>6. Blob[h][i] \in Chunk /\ Enqueue(Blob[h][i])
    BY <2>2, <2>4, <2>5, BlobTyped DEF UploadEnqueue
  <2>7. Blob[h][i] \in Queued'
    BY <1>0, <2>6, EnqueueKeepsQueued
  <2> QED
    BY <2>7 DEF Accounted
<1> QED
  BY <1>1, <1>2

(***************************************************************************)
(* main returns only when all workers have.                                *)
(***************************************************************************)
ExitedInv == phase = "exited" => Stopped

LEMMA ExitedPreserved == NodeInv /\ ExitedInv /\ [NodeNext]_nodeVars => ExitedInv'
<1> SUFFICES ASSUME NodeInv, ExitedInv, [NodeNext]_nodeVars, phase' = "exited"
             PROVE  Stopped'
  BY DEF ExitedInv
<1>1. CASE UNCHANGED nodeVars
  BY <1>1 DEF nodeVars, recVars, vars, ExitedInv, Stopped
<1>2. CASE Exit
  BY <1>2 DEF Exit, recVars, vars, Stopped
<1>3. CASE NodeNext /\ ~Exit
  BY <1>3 DEF NodeNext, Over, Sigterm, MainStep, Shutdown, CancelContext, StopEngine,
     UploadPanics, RepairPanics, Elsewhere
<1> QED
  BY <1>1, <1>2, <1>3

(***************************************************************************)
(* A regular exit leaves no acknowledged chunk unaccounted for: whatever   *)
(* the order in which handlers, repairs, workers and main get to run, the  *)
(* chunk is here, or taken for another owner and seen through, or was      *)
(* skipped by a worker (main, handleUploadBlob, worker, replicate).        *)
(***************************************************************************)
THEOREM ExitLeavesNothingBehind == NodeSpec => []ExitAccounts
<1>1. NodeInit => UploadsAccounted /\ ExitedInv /\ NoTargetForgotten /\ DrainInv
  <2> SUFFICES ASSUME NodeInit
               PROVE  UploadsAccounted /\ ExitedInv /\ NoTargetForgotten /\ DrainInv
    OBVIOUS
  <2>1. \A h \in Handler : hpos[h] = 1
    BY DEF NodeInit, RecInit
  <2>2. \A h \in Handler : \A i \in 1 .. Len(Blob[h]) : ~(i < hpos[h])
    BY <2>1, RecoveryAssumption
  <2>3. UploadsAccounted
    BY <2>2 DEF UploadsAccounted
  <2> QED
    BY <2>3 DEF NodeInit, RecInit, Init, ExitedInv, NoTargetForgotten, DrainInv
<1>2. NodeInv /\ NoTargetForgotten /\ DrainInv /\ [NodeNext]_nodeVars
        => NoTargetForgotten' /\ DrainInv'
  BY NodeSteps, EngineInvPreserved DEF NodeInv
<1>3. ASSUME NodeInv, UploadsAccounted, ExitedInv, NoTargetForgotten, DrainInv
      PROVE  ExitAccounts
  <2> SUFFICES ASSUME phase = "exited"
               PROVE  /\ owed \subseteq Delivered \cup gaveUp \cup abandoned
                      /\ \A c \in AckedChunks \ (stored[self] \cup skipped) :
                             \E n \in Node : <<c, n>> \in owed
    BY DEF ExitAccounts
  <2>1. Stopped /\ WorkersCoherent /\ UploadsCoherent
    BY <1>3 DEF ExitedInv, NodeInv, RecInv
  <2>2. InHand = {}
    BY <2>1 DEF InHand, Stopped, WorkersCoherent
  <2>3. queue = <<>>
    BY <1>3, <2>1, ReplicationAssumption DEF DrainInv, Stopped
  <2>4. Queued = {}
    BY <2>3 DEF Queued
  <2>5. ASSUME NEW c \in AckedChunks PROVE Accounted(c)
    <3>0. PICK h \in Handler : hpc[h] = "acked" /\ \E i \in DOMAIN Blob[h] : c = Blob[h][i]
      BY <2>5 DEF AckedChunks
    <3>1. PICK i \in DOMAIN Blob[h] : c = Blob[h][i]
      BY <3>0
    <3>2. Blob[h] \in Seq(Chunk) /\ hpos[h] = Len(Blob[h]) + 1
      BY <2>1, <3>0, RecoveryAssumption DEF UploadsCoherent
    <3>3. i \in 1 .. Len(Blob[h]) /\ Len(Blob[h]) \in Nat
      BY <3>1, <3>2
    <3>4. i < hpos[h]
      BY <3>2, <3>3
    <3> QED
      BY <1>3, <3>1, <3>3, <3>4 DEF UploadsAccounted
  <2> QED
    BY <1>3, <2>2, <2>4, <2>5 DEF NoTargetForgotten, Accounted
<1> QED
  BY <1>1, <1>2, <1>3, NodeInvAlways, AccountedPreserved, ExitedPreserved, PTL DEF NodeSpec
=============================================================================
