-------------------------------- MODULE NodeProcess --------------------------------
(***************************************************************************)
(* The node program from SIGTERM to its end (cmd/node/main.go), with       *)
(* upload handlers, repairs and workers still at work.  main lets the HTTP *)
(* server finish its requests for 10 seconds, stops the failure detector,  *)
(* cancels the workers' context, closes the queue and waits for the        *)
(* workers; then the process exits with whatever still runs.               *)
(*                                                                         *)
(* Nothing stops a repair: its context is context.Background(), and a      *)
(* round of the failure detector in flight may still declare a death.  A   *)
(* send on the closed queue panics.  net/http recovers the panic of a      *)
(* handler; that of a repair goroutine ends the process.                   *)
(***************************************************************************)
EXTENDS Recovery

VARIABLES phase,     \* where main is
          timedOut,  \* history: Shutdown gave up on requests after 10 seconds
          skipped    \* history: chunks a worker left to this node, which has no copy

nodeVars == <<recVars, phase, timedOut, skipped>>

Over == {"exited", "panicked"}

(***************************************************************************)
(* The parts are well formed; the queue is closed by main only, after the  *)
(* context was cancelled.                                                  *)
(***************************************************************************)
NodeTypeOK ==
    /\ RecTypeOK
    /\ phase \in {"serving", "shutdown", "stop", "close", "wait"} \cup Over
    /\ cancelled <=> phase \in {"close", "wait"} \cup Over
    /\ closed <=> phase \in {"wait"} \cup Over
    /\ timedOut \in BOOLEAN
    /\ skipped \subseteq Chunk

NodeInit == RecInit /\ phase = "serving" /\ timedOut = FALSE /\ skipped = {}

InProgress(h) == hpc[h] \in {"chunk", "send"}

----------------------------------------------------------------------------
(***************************************************************************)
(* main.  Shutdown closes the listener, so no upload begins after it.      *)
(***************************************************************************)
FaultyShutdown ==  \* does not wait for requests in progress
    /\ phase = "shutdown"
    /\ phase' = "stop"
    /\ UNCHANGED <<recVars, timedOut, skipped>>

Sigterm ==
    /\ phase = "serving"
    /\ phase' = "shutdown"
    /\ UNCHANGED <<recVars, timedOut, skipped>>

Shutdown ==
    /\ phase = "shutdown"
    /\ timedOut' = \E h \in Handler : InProgress(h)
    /\ phase' = "stop"
    /\ UNCHANGED <<recVars, skipped>>

Beside == UNCHANGED <<repairs, uploads, repairOwed, unread, counts, timedOut, skipped>>

(***************************************************************************)
(* membership.Stop waits for nobody, so deaths may still be declared.      *)
(***************************************************************************)
CancelContext ==
    /\ phase = "stop"
    /\ Cancel
    /\ phase' = "close"
    /\ Beside

FaultyStopEngine ==  \* waits for the workers without closing the queue
    /\ phase = "close"
    /\ phase' = "wait"
    /\ UNCHANGED <<recVars, timedOut, skipped>>

StopEngine ==
    /\ phase = "close"
    /\ Stop
    /\ phase' = "wait"
    /\ Beside

Exit ==
    /\ phase = "wait"
    /\ Stopped
    /\ phase' = "exited"
    /\ UNCHANGED <<recVars, timedOut, skipped>>

MainStep == Shutdown \/ CancelContext \/ StopEngine \/ Exit

----------------------------------------------------------------------------
(***************************************************************************)
(* Enqueue on the closed queue, also by a sender that was waiting for room *)
(* when the queue was closed.                                              *)
(***************************************************************************)
UploadPanics(h) ==
    /\ closed /\ hpc[h] = "send"
    /\ hpc' = [hpc EXCEPT ![h] = "failed"]
    /\ UNCHANGED <<vars, hpos, repairs, repairOwed, unread, counts, phase, timedOut, skipped>>

RepairPanics(d) ==
    /\ closed /\ rpc[d] = "send"
    /\ phase' = "panicked"
    /\ UNCHANGED <<recVars, timedOut, skipped>>

(***************************************************************************)
(* A worker step, noting a job whose owners include this node when it has  *)
(* no copy: replicate skips it.                                            *)
(***************************************************************************)
Work(w) ==
    /\ WorkerStep(w) /\ Aside
    /\ skipped' = skipped \cup {c \in Chunk \ stored[self] :
                                   /\ queue # queue' /\ c = Head(queue)
                                   /\ self \in Targets(c)}

Elsewhere == UNCHANGED <<phase, timedOut>>

NodeNext ==
    /\ phase \notin Over
    /\ \/ Sigterm
       \/ MainStep
       \/ \E h \in Handler : UploadPanics(h)
       \/ \E d \in Node : RepairPanics(d)
       \/ \E w \in Worker : Work(w) /\ Elsewhere
       \/ /\ \/ \E d \in Node : HandleNodeDead(d) \/ HandleNodeAlive(d) \/ RepairStep(d)
             \/ \E h \in Handler : UploadStep(h) \/ (phase = "serving" /\ UploadBegin(h))
             \/ \E c \in Chunk : HandlePutChunk(c)
             \/ \E n \in Node : Flip(n) /\ Aside
          /\ UNCHANGED skipped /\ Elsewhere

NodeSpec == NodeInit /\ [][NodeNext]_nodeVars

(***************************************************************************)
(* main and the workers go on.  Handlers, repairs and peers need not: the  *)
(* end of the process must not depend on them.                             *)
(***************************************************************************)
FairNodeSpec ==
    /\ NodeSpec
    /\ WF_nodeVars(phase \notin Over /\ MainStep)
    /\ \A w \in Worker : WF_nodeVars(phase \notin Over /\ Work(w) /\ Elsewhere)

----------------------------------------------------------------------------
(***************************************************************************)
(* No upload runs into the closed queue unless Shutdown's 10 seconds had   *)
(* passed: the order of main's last calls protects requests in progress.   *)
(***************************************************************************)
CutOffOnlyByTimeout == closed /\ (\E h \in Handler : InProgress(h)) => timedOut

AckedChunks == UNION {{Blob[h][i] : i \in DOMAIN Blob[h]} : h \in {g \in Handler : hpc[g] = "acked"}}

(***************************************************************************)
(* A regular exit leaves no acknowledged chunk behind: this node has it,   *)
(* or a worker took it and each of its targets has it, was given all       *)
(* attempts, or was dropped because main had cancelled the context; or     *)
(* this node was skipped as an owner without a copy.                       *)
(***************************************************************************)
ExitAccounts ==
    phase = "exited" =>
        /\ owed \subseteq Delivered \cup gaveUp \cup abandoned
        /\ \A c \in AckedChunks \ (stored[self] \cup skipped) : \E n \in Node : <<c, n>> \in owed

(***************************************************************************)
(* What replication.go says of the engine and of its Stop: the upload path *)
(* returns "as soon as the chunk is durable on the local/primary node",    *)
(* and Stop "waits for in-flight jobs to drain".  Then every acknowledged  *)
(* chunk is stored somewhere after a regular exit.  Asked only of exits    *)
(* for which all requests had been answered in time.                       *)
(***************************************************************************)
AckedIsDurable ==
    phase = "exited" /\ ~timedOut => \A c \in AckedChunks : \E n \in Node : c \in stored[n]

(***************************************************************************)
(* After SIGTERM the process ends, although handlers and repairs may hang  *)
(* or wait for room in the queue and peers may be down.                    *)
(***************************************************************************)
ShutdownEnds == phase # "serving" ~> phase \in Over
=============================================================================
