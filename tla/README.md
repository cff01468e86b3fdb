# TLA+ models of p2p-container-distribution

A verification development for the node program: TLA+ modules translated from
the Go source, TLC configurations that check them on small instances, and
TLAPS proofs of the main safety properties for every value of the constants.
`PROJECT.json` maps each definition to the source lines it stands for and lists
the runs, the hazards and the theorems.

## The system

A node accepts blobs over HTTP, splits them into content-addressed chunks, and
spreads each chunk over the `Factor` nodes that a consistent hash ring names as
its owners. Every node keeps its own ring and its own view of who is alive; there
is no agreement between nodes. When a peer is declared dead, each node takes it
off its ring and re-pushes the chunks it owns to their current owners.

| Component | State | Operations | Hard part | What makes it correct |
|---|---|---|---|---|
| `internal/hashring` | sorted slice of positions, map position -> node, node set; one RWMutex | `AddNode`, `RemoveNode`, `Get`, `GetN` | three copies of one fact; wrap-around; few nodes | the copies agree; `GetN` is the walk order; one join or leave moves nobody else |
| `internal/cluster` | peer table (state, last heartbeat), stop channel, callbacks | `AddPeer`, `Start`, `Stop`, `heartbeatRound`, `pingPeer`, `MarkAliveManually` | asks outside the lock, judges later; callbacks in unordered goroutines | verdicts are backed by silence; dead only becomes alive; changes are noticed |
| `cmd/node` | wiring, shutdown order | registration, callbacks, resolver, signal handling | callbacks against the detector; `cancel` before `Stop`; repairs that nothing stops | the ring follows the table; every ring node has an address; requests are let finish; the process ends |
| `internal/replication` | bounded queue, workers, context | `Enqueue`, `worker`, `replicate`, `pushWithRetry`, `Stop` | stale targets, retries, lost answers, full queue, cancellation | no target is forgotten; `Stop` drains; workers never wedge |
| `internal/recovery` | running repairs | `HandleNodeDead`, `HandleNodeAlive`, `repairLocalChunks` | walk, queue and workers read a ring that keeps changing | no hole between them; repair ends |
| `internal/api` | manifest index | upload, download, chunk put/get | uploads compete with repair; fallback chain of reads | acknowledged chunks reach their owners; a download returns the blob or an error |
| `storage.LocalFS` | files `path`, `path.tmp` | `Put`, `Get`, `Has`, `Delete`, `List` | one temporary name for all `Put`s; crashes | readers see a whole chunk or none |
| `storage.S3` | remote bucket | only `Get` is called | I/O | the last source of a read |
| `storage.Memory`, `Copy` | map / none | same interface | no caller | not modelled |
| `pkg/chunk` | none | `Split`, `ID`, `Verify`, `Reassemble` | bodies that break off, partial output | order and integrity of chunks |
| the nodes together | one ring, store, queue per node | uploads, pushes, repairs, deaths, returns, crashes | nobody agrees with anybody on the ring | acknowledged chunks survive and reach all live owners |

Interactions: membership calls the recovery handlers (goroutines); recovery
changes the ring and enqueues into the engine; the upload handler reads the ring,
writes the local store and enqueues into the same engine; workers read the ring
and the membership table and push over HTTP into the `handlePutChunk` of other
nodes, which writes their local store; the download handler reads the index, the
local store, the ring and the table, and asks `handleGetChunk` of other nodes.

## Modules

```
Preference <- Replication <- Recovery <- NodeProcess         (EXTENDS)
    ^-- Download, Cluster
HashRing --INSTANCE--> Placement                  (ring implements the promise)
    +-- EXTENDS Preference                        (the reference for GetN)
Membership <- SelfHealing
LocalFS

PreferenceProofs <- ReplicationProofs <- NodeProcessProofs   (also Recovery's)
    ^-- DownloadProofs, ClusterProofs, HashRingProofs
SelfHealingProofs (also Membership's), LocalFSProofs
```

Each `...Proofs` module EXTENDS the module it is named after.

**Preference** - `FirstN(rank, S, n)`: the `n` nodes of `S` first met on the walk
from a key. A node's place in that walk depends on the key only, not on who
is on the ring; `HashRing` is checked against this definition and proved to compute
it, and replication and recovery use it in place of the ring.

**Placement** - the abstract ring: full owner lists without repeats; a node that
leaves is skipped, a node that joins is slotted in, and everybody else keeps the
order (minimal disruption).

**HashRing** - `sortedHashes`, `hashToNode`, `nodes` as in the code. `vhash` is the
SHA-1 position of each virtual point, any collision-free placement. `AddNode` and
`RemoveNode` are one step each (the write lock); the sort of the one and the filter
of the other are both `Arrange`, which puts an entry where the number of entries
ahead of it says. `GetN` is the search, the clockwise walk and the loop over it:
`Collect` is a recursive function of the number of steps, `Visit` the body of the
loop with its two early exits. `TypeOK` includes that every position of the slice
is a key of the map, so that the loop never meets the empty string.

**Membership** - `state` and `since` are the table (`since` counts ticks of silence
up to `DeadAfter`); `ping` splits `pingPeer` at the point where the lock is not
held; `onDead`, `onAlive` count callback goroutines that have not run. `Tick` and
`Flip` are the environment. `Stop` does not stop the loop at once: `select` may
still take the ticker. `LoopExit` comes after the round (`RoundOver`): `TypeOK`
includes that no ping outlives the loop. `MarkAliveManually` has no caller in the
repository (its comment speaks of tests and of an HTTP gossip endpoint, and neither
calls it); as an exported operation it is an action all the same.

**SelfHealing** - Membership plus the `ring`, wired as in `main`: `Join` registers
a peer in the table and on the ring before `Start`; the two callbacks remove and
re-add. The history variable `astray` holds the peers whose latest callback was
started while an earlier one was outstanding, and those a manual mark took from
dead to alive, which fires no callback.

**Replication** - one node's engine. A worker's targets are read from the ring when
it takes the job and kept in `todo`; the current target is the nearest one left,
so pushes go in the code's order. A push succeeds, fails, or fails with the chunk
stored all the same (`Lossy`, or a cancelled request). `Take` receives the job and
reads the ring in one step: the code frees the queue's slot a moment before it reads
the ring, which only lets a sender go on a little earlier. `owed`, `gaveUp` and
`abandoned` are history. `Enqueue` on a closed queue has no step here: the sender
panics, which is modelled in NodeProcess. `AddrFor` never fails here; `RingResolvable`, proved in
SelfHealingProofs, is the reason.

**Recovery** - Replication plus repair goroutines (one per dead node:
list, visit, enqueue, done), upload handlers (put if an owner, enqueue, ack) and
chunks pushed by peers. `repairOwed` records what a death leaves to do: the
node's own chunks that it owns on the new ring, at each other owner. The test
`len(targets) == 0` of the upload handler is never true, since this node is
always on its ring.

**NodeProcess** - Recovery plus the end of `main`: `Sigterm`, `Shutdown` (with or
without requests left when its 10 seconds are over), `CancelContext`,
`StopEngine`, `Exit`. A send on the closed queue is `UploadPanics` (net/http
recovers it, the request fails) or `RepairPanics` (the process is gone). Repairs
and late deaths go on through all of it.

**Download** - one node's read path. `index` is the entry of one blob ID, which is
uploaded again and again; a map access lasts from a `Begin` to an `End` step, and
once two accesses have overlapped (`raced`) a read or write has any outcome, and
the runtime may end the process. A download takes the manifest along and goes
through `FetchLocal`, `AskPeer`, `PeerAnswers`, `FetchCold` and `WriteChunk` for
each chunk. `Body` and `Ending` are what the server reads of an upload: `Split`
takes both EOF and ErrUnexpectedEOF for its end. Ring, table, connections and
copies change under it, copies may vanish too (`Environment`); a `Restart` keeps
files only and starts with every peer on the ring and alive, as `main` does.

**Cluster** - all nodes and one chunk. Each node has its own ring, its own queue and
worker and its own repairs; the steps of Replication, Recovery and SelfHealing
are taken whole (a push with its retries, the visit of the chunk by a walk, a
death with its ring change). Crashes lose everything but the disk. `excuse` is
history: the events after which nothing in the code makes a missing copy good
(`Excused`), and a crash that took a chunk with it which the node had in its memory
only (`wiped`). `faults` counts crashes, false alarms and outages that outlast the
retries; a worker never has itself among its targets (`TypeOK`).

**LocalFS** - the files of one chunk as directory entries and inodes. `Put` is
open-and-truncate, `Blocks` writes at the writer's own offset, and a rename of
whatever the temporary name stands for by then. `WriteFails` and `Crash` cut a
`Put` short.

The `MC*` modules only define constants and symmetry sets for TLC. Operators
called `Faulty...` stand next to the operator they vary; each is a plausible bug
in that code that one of the properties catches.

## Runs

| Run | Instance | Shows |
|---|---|---|
| `ring` | 3 nodes x 2 points, all 720 placements on 6 positions, `Factor` 2 | `CopiesAgree`, `WalkGoesClockwise`, `GetNIsPreference`, `ImplementsPlacement` |
| `healing` | 2 peers, thresholds 1 and 2, one outstanding callback per kind, manual marks of one peer | `ClassifiedBySilence`, `DeadOnlyToAlive`, `DownIsNoticed`, `UpIsNoticed`; `RingResolvable`, `RingTracksUnlessAstray`, `LoneCallback`, `HealsUnlessAstray` |
| `readmission` | 1 peer | `UpIsReadmitted` fails |
| `replication` | 3 nodes, 2 chunks, 2 workers, queue of 1, 1 retry, 2 jobs | `NoTargetForgotten`, `WorkersCoherent`, `DrainedUnlessCancelled`, `WorkGetsDone` |
| `recovery` | 3 nodes, 2 chunks, 1 worker, queue of 1, 1 upload, 2 deaths, 1 revival, disk faults | `RepairHasNoHole`, `RepairRestores` |
| `node` | 3 nodes, 2 chunks, 1 worker, queue of 1, 1 upload, 1 death, 1 revival | `CutOffOnlyByTimeout`, `ExitAccounts`, `ShutdownEnds` |
| `durable` | the same, no death, all peers up | `AckedIsDurable` fails |
| `download` | 3 nodes, 2 copies, 3 uploads of one blob, 2 changes of the environment | `OutputOfOneUpload`, `SteadySourceServes`, `AckedIsFound`, `DownloadsEnd` |
| `cluster` | 3 nodes, 2 copies, 2 faults | `LossTakesFaults`, `NoCopyOverlooked`, `RepairConverges` |
| `converge` | the same, 1 fault | `FullSetConverges` fails |
| `localfs` | 3 concurrent `Put`s, 2 blocks, 5 inodes | `IntactUnlessOverlapped`, `IntactAtRest` |
| `overwrite` | 2 `Put`s | `OverwriteIsNoOp` fails |

Each module also has its type invariant in its run. Deadlock is checked except
where the system really stops: a detector that was stopped (`healing`,
`readmission`), a cluster at rest (`cluster`, `converge`) and a process that has
ended (`node`, `durable`).

### Where code and comments differ

- `readmission`: a peer dies, `OnNodeDead` is started; it returns, `OnNodeAlive`
  is started and runs first; then the removal runs. The peer is alive in the
  table and off the ring until it next dies. The comments on `OnNodeAlive` and
  `HandleNodeAlive` promise re-admission. `healing` shows that this race and a
  manual mark of a dead peer are the only ways the ring and the table part.
- `durable`: a node that is no owner of a chunk answers the client with the chunk in
  the memory of its queue only. On SIGTERM `main` cancels the context before `Stop`;
  the drain that `Stop` promises then drops every target at its first backoff, and the
  process exits with the acknowledged chunk on no node, although every peer is up and
  no request timed out. The comment on `Engine` says that the upload path returns "as
  soon as the chunk is durable on the local/primary node", the repository's README that
  the chunk has landed on the node that accepted it, and the comment on `Stop` that
  in-flight jobs drain. What does hold: with a live context `Stop` drains
  (`DrainedUnlessCancelled`, proved), and while the accepting node keeps running it takes
  as many faults as there are copies to lose a chunk (`LossTakesFaults`, proved).
- `converge`: an upload at a node that is no owner is pushed to the first owner,
  which crashes; the second owner declares the death, and its repair finds no
  chunk yet; then the push arrives there. The node that took the dead one's place
  never gets the chunk, although the accepting node stays up: the job's targets
  were read before the death, and no repair comes any more. The comment in
  `handleUploadBlob` promises that the full replica set converges.
- `overwrite`: overlapping `Put`s of a stored chunk can publish a truncated file for
  a while. `localfs` shows that the damage is undone by the `Put` that caused it
  unless that one fails or crashes.

Passing runs bring out more of this kind, as the exceptions their properties need:

- `OutputOfOneUpload`: an upload whose client goes away is stored and indexed as a
  complete, shorter blob (`Split` takes ErrUnexpectedEOF for the end).
- `AckedIsFound`: an acknowledged blob is unknown after a restart, and after a race
  on the unlocked index anything may be.
- `DownloadsEnd`: a request to a peer that hangs has no timeout.
- `LossTakesFaults`: a crash of an accepting node that is no owner loses a chunk that is
  still in its memory, the case `durable` shows for a shutdown. One that keeps running
  still loses a chunk when it gives up on every owner, or becomes the only owner on its
  ring and skips itself; the bound is tight (with 2 copies, 2 faults are enough).
- `NoCopyOverlooked` and `RepairConverges` need five exceptions: an owner skipped as
  "self" because it became one after the upload's test (the comment on `NewEngine`
  excludes this), an outage between 6 s and 9 s, a push that came after the repair, a
  node that crashed in the middle of a job when a node with the chunk held it for dead
  already, a node that was re-admitted. Each was dropped in turn, and TLC then found a
  behaviour that needs it. The fourth came out of the proof, and a larger `Factor`
  shows it even between owners: n2 declares n1 dead by a false alarm; n1 accepts an
  upload, pushes it to n2 and crashes before it has reached n3; n2 has that death
  behind it and never pushes to n3.
- `ExitAccounts`: what the cancelled context drops, and the chunk skipped as "self".

### Bounds and why they are enough

- Ring: two points per node make interleaved and adjacent points of one node; with
  3 nodes and `Factor` 2 the ring is empty, smaller than, equal to and larger than
  `Factor`; keys fall on points, between them and past the last one.
- Membership: with `SuspectAfter` 1 and `DeadAfter` 2 a silent peer passes through
  both verdicts. A peer goes down or comes back only while it is being asked,
  which loses nothing: an answer depends only on the peer at that moment.
  `MaxCallbacks` 1 per kind is what a race takes (one of each). A verdict that
  would start one more callback waits until the earlier one has run; the proofs
  hold for any thresholds and any `MaxCallbacks`. One peer may be marked by hand.
- Replication: a queue of 1 is full after one job; 1 retry gives a first attempt,
  a backoff and a last attempt; `MaxJobs` 2 lets two workers hold the same or
  different chunks while the ring changes without bound.
- Recovery: the rank of `c1` puts a dead node between this node and the third one,
  so its death makes a new owner; `c2` is an upload this node does not own until a
  death. 2 deaths and 1 revival let the ring change again in the middle of a
  repair. One repair goroutine per dead node at a time. `MaxRetries` is 0 here
  because Replication covers the retry loop.
- NodeProcess: one chunk that this node owns comes from a peer and is to be repaired
  after the death of the other owner, one that it does not own is uploaded; with a
  queue of 1 and one worker either can be waiting for room when the queue closes.
- Download: a blob with a full chunk twice, one that breaks off after a chunk and a
  half, and one whose body cannot be read; this node owns one chunk and not the
  other. Two changes of the environment (`MaxFaults`) at one peer and this node
  (`Frail`) are enough for a copy to move while the walk passes it by or for the
  node to restart in the middle of an upload. `BeginWrite` and `BeginLookup` repeat
  without bound.
- Cluster: 3 nodes and 2 copies have an owner, a second one and a node that takes
  over; any node accepts the upload. Two faults let a crash meet a false alarm, an
  outage or a second crash. One worker per node. Which chunk it is does not matter:
  chunks meet only in the queue, which is Recovery's subject.
- LocalFS: 2 blocks distinguish an empty, a partial and a full file; 3 writers let
  two overlap while a third starts from the published file; with 5 inodes a fresh
  one is always available.

### Fairness

Membership: the ticker fires, an HTTP request ends (2 s client timeout), started
goroutines run, the clock advances (weak fairness). `LoopExit` is strongly fair
because `select` picks at random among ready cases. Nothing is assumed of peers:
`Flip` is unfair, and the liveness properties speak of peers that stay down or up.
Replication: weak fairness of each worker (a push ends after 15 s, timers fire).
Recovery: strong fairness of repairs and upload handlers, because Go serves
blocked senders of a channel in FIFO order, so room that appears again and again
reaches each of them. NodeProcess: weak fairness of `main` and the workers only, so
that the end of the process is shown not to depend on handlers, repairs or peers.
Download: weak fairness of the handler, which a hung peer disables; nothing of the
environment. Cluster: weak fairness of each running node's steps (worker, repairs,
and a detector that finds crashed peers dead and running ones alive); nothing of
crashes, restarts, false alarms and uploads.

## Proofs

All theorems are checked by TLAPS for arbitrary constants under the named
assumptions of the modules (`HashRingAssumption`, `MembershipAssumption`,
`SelfAssumption`, `ReplicationAssumption`, `RecoveryAssumption`,
`DownloadAssumption`, `ClusterAssumption`, `LocalFSAssumption`); TLC evaluates those
on the instances. Every safety invariant, every action property and the refinement
of the passing runs are proved.

- **PreferenceProofs** - `LeaveKeepsOwners`, `JoinAddsOnlyItself`,
  `OwnersAreInitial`: minimal disruption for any finite ring, from monotonicity of
  `Before` and cardinalities of finite sets. `OwnersAreFull`: an owner set has `n`
  members or is the whole ring, because every place of a finite order is taken once
  (`EveryPlaceTaken`: an injection between finite sets of one size is onto). `SomeoneIsFirst` and `OwnersExist` (a
  non-empty ring has a first node, and an owner) are what the `CHOOSE` of the next
  target or source needs.
- **HashRingProofs** - `CopiesAlwaysAgree`: the inductive invariant `RingInv` reads
  `CopiesAgree` node by node and adds that no two points share a position; without
  that, a join could take over another node's entry in the map. `ArrangeLists`,
  again from `EveryPlaceTaken`, shows that the sort and the filter lose and double
  nothing. `WalkIsClockwise`: by `SearchSplits` the positions up to the index found
  are those before the key, so the walk is first the rest of the slice, at distance
  `h - key`, and then its beginning, at distance `h - key + RingSize`.
  `GetNIsAlwaysPreference`: `LoopInv` is the invariant of `GetN`'s loop (the result is
  ascending, nobody left out comes before anybody in it, and while there is room it
  has everybody met so far), kept by `VisitKeepsLoopInv`. The induction over the steps
  of the loop takes its property as a set of numbers (`InductiveSet`), and
  `CollectRuns` shows that the recursive function exists. Together with `RingWalk`
  (the walk meets the nodes in the order of their nearest points) this gives
  `OwnerList`: the right nodes, in order, as many as there should be.
  `RingImplementsPlacement`: the ranks depend on the points alone, so the lists before
  and after a step are owner lists of one order (`RingLists`); taking the node
  concerned out of the longer one leaves the beginning of the other
  (`OthersKeepPlaces`, from `LeaveKeepsOwners` and `OwnersAreInitial`), which is what
  both `Join` and `Leave` of the abstract ring ask for.
- **SelfHealingProofs** - of the detector alone: `TypeCorrect`;
  `SilenceJustifiesState` (`ClassifiedBySilence` is inductive with `TypeOK`);
  `DeadStaysOrRevives`: a dead peer has `since = DeadAfter`, so a failed ping can
  only keep it dead. `HealImplementsMembership` carries these over to the wired node:
  each of its steps is a step of the detector. Of the wired node: the inductive
  invariant `HealInv`: types, silence, pings and callbacks only for known peers,
  `RingResolvable`, `LoneCallback` and `RingTracksUnlessAstray`. The last is not
  inductive alone: when a callback runs one must know that it is the only one
  outstanding and agrees with the table (`LoneCallback`), and that no verdict can
  change the state in the same direction twice. A manual mark of a dead peer puts
  the peer into `astray` and so needs no more than the types. The proof works peer by
  peer (`PeerInv`) and shows that a step touches one peer.
- **ReplicationProofs** - `Inv` (types and `WorkersCoherent`: the two need each
  other, because the current target is a `CHOOSE` from a set that must not be
  empty); `NothingForgotten` follows from: stores only grow, a pair leaves a
  worker's hands only as delivered, given up or abandoned, and a new pair starts
  in a worker's hands; `StopDrains` adds `DrainInv` (an exited worker means a
  closed, empty queue; an abandoned pair means a cancelled context).
- **NodeProcessProofs** - `RecInv` for Recovery: its types, `WorkersCoherent`, and what
  a running repair and a running upload may be doing. `RepairIsComplete`
  (`RepairHasNoHole`): a chunk
  owed to an owner is held there, given up on, in a worker's hands for that owner, in
  the queue, or still ahead of a walk. The ring changes between these stages: a
  death starts a walk over everything that is owed on the new ring, and on a
  re-admission `JoinAddsOnlyItself` shows that a pair of owners afterwards was one
  before, so nothing comes into the promise again unseen. `UploadsCutOffOnlyByTimeout` rests on
  `TimeoutInv`: past `Shutdown` without a timeout no upload is left, and none can
  start. `ExitLeavesNothingBehind` (`ExitAccounts`) combines `NoTargetForgotten`,
  `DrainInv`, that an exit has every worker out (`ExitedInv`), and `Accounted`: every
  acknowledged chunk is held here, skipped, still queued, or was taken by a worker.
- **DownloadProofs** - `OutputIsOfOneUpload` from `ReadInv`: the bytes written are
  exactly the first `pos - 1` chunks of the version the manifest was made from,
  whatever index, ring and peers do meanwhile. `CeilingDivision`, `SplitShape` and
  `ChunkContinues` are the arithmetic of `Split`: the pieces cover the body, none is
  empty, and each continues where the one before it ended. `AcknowledgedIsFound`
  from `AckInv`: the entry is written before the acknowledgement and only replaced.
  `SteadySourceIsFound` from `SteadyInv`: a source that stays good is still in
  the part of the walk that is left, whatever leaves and joins the ring.
- **ClusterProofs** - `FewFaultsLoseNothing` (`LossTakesFaults`): short of a crash with
  the only copy in memory, fewer faults than copies never lose an acknowledged chunk.
  The property says nothing of the way there; the inductive `FaultInv` counts: nodes
  that are down or off some ring have cost a fault each; a chunk on no disk was accepted
  by a node that is no owner in the full cluster (`LeaveKeepsOwners`); and from the
  moment its job has left the queue, each of the `Factor` owners in the full cluster
  that the worker will not reach has cost one. When the job is taken the second follows
  from the first, because such an owner is on the ring, and then a target, or off it.
  `NothingOverlooked` (`NoCopyOverlooked`) and from it `RestIsConverged`, the safety
  part of `RepairConverges`: in a cluster at rest and without an excuse every live
  owner has the chunk, or no running node has. The inductive invariant `ConvergeInv`
  adds that a worker in mid-job has seen to every owner that is not among its targets
  any more (`JobsComplete`) and that whoever has the chunk is an owner in its own view
  (`HoldersOwn`), without which its repair would pass the chunk by. The latter needs
  counting: a push that is not late comes with a job that has all the target's owners
  and the target, and a job has no more than `Factor` (`OwnersAreFull`), so the target
  is one of its owners; deaths keep it one (`LeaveKeepsOwners`).
- **LocalFSProofs** - `SoloPutsAreAtomic` from `SoloInv`: while no two `Put`s have
  overlapped there is one at work at most, the temporary name is the file it has
  open, filled up to its offset, and never the published file, so the rename
  publishes a whole one. `OverlapsHeal` from `RestInv`: a block that a named file
  lacks is still ahead of a `Put` that has the file open.

Only model-checked: liveness (`DownIsNoticed`, `UpIsNoticed`, `HealsUnlessAstray`,
`WorkGetsDone`, `RepairRestores`, `ShutdownEnds`, `DownloadsEnd`, `RepairConverges`),
because TLAPS here has no reasoning about fairness. For `RepairConverges` what is left
to TLC is that the cluster comes to rest.

## Not modelled

`storage.Memory` (tests only) and `storage.Copy` (no caller). Of S3 only `Get` is
called, and only what it returns matters (the chunk or an error); `Put`, `Has`,
`Delete` and `List` have no caller, and request signing, XML and endpoints are
formatting around I/O. (`S3.List` reads one page of results, so `Copy` from a large
bucket would not copy all of it; neither runs in this program.) Flags, logging,
`healthz` and the status endpoint, `log.Fatalf` at startup, the benchmarks and the
deployment files. Collisions of SHA-256, and of the 64-bit SHA-1 positions of
virtual points, are excluded (`ID`, `ChoosePoints`). A push to this node during a
walk of `List` may or may not be seen by it; Recovery takes the listing as one step.

## Plan

1. Done: ring, membership, self-healing, replication, recovery, local store, the read
   path, the cluster, the shutdown of the process, and the proofs above.
2. Left: a refinement that relates `Cluster` to the one-node modules whose steps it
   takes whole; more than one chunk and worker per node in `Cluster`; collisions of
   virtual points.
