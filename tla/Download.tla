------------------------------ MODULE Download ------------------------------
(***************************************************************************)
(* The read path of one node (internal/api with pkg/chunk): a download     *)
(* looks its blob up in the in-memory manifest index and then fetches,     *)
(* verifies and writes chunk after chunk, each from the local store, else  *)
(* from the owners the ring names, else from the cold tier.                *)
(*                                                                         *)
(* One blob ID is uploaded again and again with different contents.  The   *)
(* index is a plain map that upload handlers write and download handlers   *)
(* read without a lock, so an access lasts from its Begin to its End step  *)
(* and overlapping ones (raced) have no defined outcome.  What the sources *)
(* hold, whether they answer and what this node believes of them changes   *)
(* at any time; how copies get torn is module LocalFS.                     *)
(***************************************************************************)
EXTENDS Naturals, SequencesExt, Preference

CONSTANTS Node,       \* physical nodes
          self,       \* the node that serves the download
          Version,    \* the uploads of the blob
          Byte,       \* the values of a byte
          Sent,       \* version -> the bytes its client means to upload
          Body,       \* version -> the bytes the server reads of them
          Ending,     \* version -> the error that ends the reading
          ChunkSize,  \* bytes per chunk (4 MiB in the code)
          RankOf(_),  \* chunk ID -> node -> place in the walk from the chunk
          Factor,     \* copies of a chunk (3 in the code)
          None,       \* no version
          Frail,      \* BOUND: the nodes whose files and connections change
          MaxFaults   \* BOUND: changes of the environment

(***************************************************************************)
(* pkg/chunk: Split cuts a body into pieces of ChunkSize, the last one     *)
(* shorter if need be; SHA-256 is collision free.  EOF ends a body, and so *)
(* does ErrUnexpectedEOF, which ReadFull returns for a short last piece    *)
(* and net/http for a client that went away in the middle of its body.     *)
(***************************************************************************)
ID(data) == [sha256 |-> data]

FaultyVerify(id, data) ==  \* what a peer or the disk returns is believed
    TRUE

Verify(id, data) == ID(data) = id

Split(bytes) ==
    LET Cut(i) == IF i < Len(bytes) THEN i ELSE Len(bytes)
    IN  [i \in 1 .. (Len(bytes) + ChunkSize - 1) \div ChunkSize |->
            SubSeq(bytes, (i - 1) * ChunkSize + 1, Cut(i * ChunkSize))]

ChunkIDs == [v \in Version |-> [i \in DOMAIN Split(Body[v]) |-> ID(Split(Body[v])[i])]]

Accepted == {v \in Version : Ending[v] \in {"EOF", "ErrUnexpectedEOF"}}

Chunk == UNION {{ChunkIDs[v][i] : i \in DOMAIN ChunkIDs[v]} : v \in Version}

Peer == Node \ {self}

ASSUME DownloadAssumption ==
    /\ self \in Node
    /\ IsFiniteSet(Node) /\ "cold tier" \notin Node
    /\ None \notin Version
    /\ Sent \in [Version -> Seq(Byte)] /\ Body \in [Version -> Seq(Byte)]
    /\ ChunkSize \in Nat \ {0}
    /\ \A v \in Version : /\ Ending[v] \in {"EOF", "ErrUnexpectedEOF", "other error"}
                          /\ IsPrefix(Body[v], Sent[v])
                          /\ Ending[v] = "EOF" => Body[v] = Sent[v]
    /\ \A c \in Chunk : RankOf(c) \in [Node -> Nat]
    /\ \A c \in Chunk, m, n \in Node : RankOf(c)[m] = RankOf(c)[n] => m = n
    /\ Factor \in Nat \ {0}
    /\ Frail \subseteq Node
    /\ MaxFaults \in Nat

VARIABLES index,    \* manifests[blobID]
          writing,  \* manifests that upload handlers are storing in the map
          pc,       \* where the download is
          version,  \* whose manifest it holds
          pos,      \* the chunk of the manifest it is at
          left,     \* owners it has not asked yet; the nearest is next
          got,      \* what the fetch returned
          out,      \* the bytes written to the client
          copies,   \* node -> chunk -> "none", "whole" or "torn"
          cold,     \* chunks the cold tier serves ({} without one)
          ring,     \* the nodes on the hash ring
          alive,    \* peers the membership table shows as alive
          net,      \* peer -> "up", "down", or "hung": connected, no answer
          raced,    \* history: accesses to the map overlapped since the start
          hadAck,   \* history: an upload was answered before the lookup
          acked,    \* history: an upload was answered since the start
          steady,   \* history: sources good at every moment of this fetch
          faults    \* BOUND: changes of the environment so far

map == <<index, writing, raced, acked>>
reader == <<pc, version, pos, left, got, out, hadAck>>
world == <<copies, cold, ring, alive, net, faults>>
vars == <<map, reader, world, steady>>

Fetching == {"fetch", "ask", "wait", "cold"}
Busy == Fetching \cup {"lookup", "write"}
Ended == {"done", "missing", "unfetched", "corrupt", "cut"}

(***************************************************************************)
(* The download only ever asks other nodes, and stays within its manifest. *)
(***************************************************************************)
TypeOK ==
    /\ index \in Version \cup {None}
    /\ writing \subseteq Version
    /\ pc \in Busy \cup Ended \cup {"idle"}
    /\ version \in Version \cup {None}
    /\ pos \in Nat /\ (pc \in Fetching => pos \in DOMAIN ChunkIDs[version])
    /\ left \subseteq Peer
    /\ copies \in [Node -> [Chunk -> {"none", "whole", "torn"}]]
    /\ cold \subseteq Chunk
    /\ ring \subseteq Node /\ self \in ring
    /\ alive \subseteq Peer
    /\ net \in [Peer -> {"up", "down", "hung"}]
    /\ raced \in BOOLEAN /\ hadAck \in BOOLEAN /\ acked \in BOOLEAN
    /\ faults \in 0 .. MaxFaults

Current == ChunkIDs[version][pos]

Owners(c) == FirstN(RankOf(c), ring, Factor)

Asked == CHOOSE n \in left : Before(RankOf(Current), left, n) = {}

(***************************************************************************)
(* The bytes of chunk c in a file in the given condition.                  *)
(***************************************************************************)
Bytes(c, condition) == IF condition = "whole" THEN c.sha256
                       ELSE SubSeq(c.sha256, 1, Len(c.sha256) - 1)

(***************************************************************************)
(* The sources that would serve chunk c if asked now.                      *)
(***************************************************************************)
Sources(c) == {n \in Node : /\ copies[n][c] = "whole"
                            /\ n # self => n \in Owners(c) \cap alive /\ net[n] = "up"}
              \cup (IF c \in cold THEN {"cold tier"} ELSE {})

Init ==
    /\ index = None /\ writing = {}
    /\ pc = "idle" /\ version = None /\ pos = 1
    /\ left = {} /\ got = <<>> /\ out = <<>>
    /\ copies \in {[n \in Node |-> [c \in Chunk |-> IF n \in H THEN "whole" ELSE "none"]] :
                    H \in SUBSET Node}
    /\ cold = {}
    /\ ring = Node /\ alive = Peer /\ net = [n \in Peer |-> "up"]
    /\ raced = FALSE /\ hadAck = FALSE /\ acked = FALSE
    /\ steady = {} /\ faults = 0

----------------------------------------------------------------------------
(***************************************************************************)
(* The end of handleUploadBlob: the manifest is stored, the client told.   *)
(***************************************************************************)
BeginWrite(v) ==
    /\ v \in Accepted \ writing
    /\ raced' = (raced \/ pc = "lookup" \/ writing # {})
    /\ writing' = writing \cup {v}
    /\ UNCHANGED <<index, acked, reader, world>>

FaultyEndWrite(v) ==  \* the client is told, the index is not
    /\ v \in writing
    /\ writing' = writing \ {v}
    /\ acked' = TRUE
    /\ UNCHANGED <<index, raced, reader, world>>

EndWrite(v) ==
    /\ v \in writing
    /\ index' \in IF raced THEN {index, v, None} ELSE {v}
    /\ writing' = writing \ {v}
    /\ acked' = TRUE
    /\ UNCHANGED <<raced, reader, world>>

----------------------------------------------------------------------------
(***************************************************************************)
(* handleDownloadBlob: look the blob up and take its manifest along.       *)
(***************************************************************************)
BeginLookup ==
    /\ pc \notin Busy
    /\ pc' = "lookup"
    /\ hadAck' = acked
    /\ version' = None /\ pos' = 1 /\ left' = {} /\ got' = <<>> /\ out' = <<>>
    /\ raced' = (raced \/ writing # {})
    /\ UNCHANGED <<index, writing, acked, world>>

EndLookup ==
    /\ pc = "lookup"
    /\ version' \in IF raced THEN {index, None} \cup writing ELSE {index}
    /\ pc' = IF version' = None THEN "missing"
             ELSE IF Body[version'] = <<>> THEN "done" ELSE "fetch"
    /\ UNCHANGED <<map, pos, left, got, out, hadAck, world>>

(***************************************************************************)
(* fetchChunk: the local copy as it is, else the owners on the ring now.   *)
(***************************************************************************)
FaultyFetchLocal ==  \* this node asks itself over the network too
    /\ pc = "fetch"
    /\ \/ /\ copies[self][Current] # "none"
          /\ got' = Bytes(Current, copies[self][Current])
          /\ pc' = "write"
          /\ UNCHANGED left
       \/ /\ copies[self][Current] = "none"
          /\ left' = Owners(Current)
          /\ pc' = "ask"
          /\ UNCHANGED got
    /\ UNCHANGED <<map, version, pos, out, hadAck, world>>

FetchLocal ==
    /\ pc = "fetch"
    /\ \/ /\ copies[self][Current] # "none"
          /\ got' = Bytes(Current, copies[self][Current])
          /\ pc' = "write"
          /\ UNCHANGED left
       \/ /\ copies[self][Current] = "none"
          /\ left' = Owners(Current) \ {self}
          /\ pc' = "ask"
          /\ UNCHANGED got
    /\ UNCHANGED <<map, version, pos, out, hadAck, world>>

(***************************************************************************)
(* Only peers that the table shows as alive are asked: neither suspect nor *)
(* dead ones (addrForNode).                                                *)
(***************************************************************************)
FaultyAskPeer ==  \* waits for a suspect peer to be alive again
    /\ pc = "ask"
    /\ \/ left # {} /\ Asked \in alive /\ pc' = "wait"
       \/ left = {} /\ pc' = "cold"
    /\ UNCHANGED <<map, version, pos, left, got, out, hadAck, world>>

AskPeer ==
    /\ pc = "ask"
    /\ \/ left # {} /\ Asked \in alive /\ pc' = "wait" /\ UNCHANGED left
       \/ left # {} /\ Asked \notin alive /\ left' = left \ {Asked} /\ UNCHANGED pc
       \/ left = {} /\ pc' = "cold" /\ UNCHANGED left
    /\ UNCHANGED <<map, version, pos, got, out, hadAck, world>>

(***************************************************************************)
(* http.Get has no timeout: nothing happens while the peer hangs.          *)
(***************************************************************************)
FaultyPeerAnswers ==  \* an error ends the walk over the owners
    /\ pc = "wait"
    /\ net[Asked] # "hung"
    /\ \/ /\ net[Asked] = "up" /\ copies[Asked][Current] # "none"
          /\ got' = Bytes(Current, copies[Asked][Current])
          /\ pc' = "write"
          /\ UNCHANGED left
       \/ /\ net[Asked] = "down" \/ copies[Asked][Current] = "none"
          /\ left' = {}
          /\ pc' = "ask"
          /\ UNCHANGED got
    /\ UNCHANGED <<map, version, pos, out, hadAck, world>>

PeerAnswers ==
    /\ pc = "wait"
    /\ net[Asked] # "hung"
    /\ \/ /\ net[Asked] = "up" /\ copies[Asked][Current] # "none"
          /\ got' = Bytes(Current, copies[Asked][Current])
          /\ pc' = "write"
          /\ UNCHANGED left
       \/ /\ net[Asked] = "down" \/ copies[Asked][Current] = "none"
          /\ left' = left \ {Asked}
          /\ pc' = "ask"
          /\ UNCHANGED got
    /\ UNCHANGED <<map, version, pos, out, hadAck, world>>

FetchCold ==
    /\ pc = "cold"
    /\ \/ Current \in cold /\ got' = Bytes(Current, "whole") /\ pc' = "write"
       \/ Current \notin cold /\ pc' = "unfetched" /\ UNCHANGED got
    /\ UNCHANGED <<map, version, pos, left, out, hadAck, world>>

(***************************************************************************)
(* The rest of Reassemble's loop: verify, write to the client, go on.      *)
(***************************************************************************)
WriteChunk ==
    /\ pc = "write"
    /\ \/ ~Verify(Current, got) /\ pc' = "corrupt" /\ UNCHANGED <<pos, out>>
       \/ Verify(Current, got) /\ pc' = "cut" /\ UNCHANGED <<pos, out>>  \* client gone
       \/ /\ Verify(Current, got)
          /\ out' = out \o got
          /\ pos' = pos + 1
          /\ pc' = IF pos = Len(ChunkIDs[version]) THEN "done" ELSE "fetch"
    /\ left' = {} /\ got' = <<>>
    /\ UNCHANGED <<map, version, hadAck, world>>

ReaderStep == \/ EndLookup \/ FetchLocal \/ AskPeer
              \/ PeerAnswers \/ FetchCold \/ WriteChunk

----------------------------------------------------------------------------
(***************************************************************************)
(* The environment.  A restart loses the index and every request; files    *)
(* stay, and ring and table start with every peer again.  The Go runtime   *)
(* may end the process when it sees a map race.                            *)
(***************************************************************************)
Restart ==
    /\ faults < MaxFaults \/ raced
    /\ faults' = IF raced THEN faults ELSE faults + 1
    /\ index' = None /\ writing' = {}
    /\ raced' = FALSE /\ acked' = FALSE
    /\ pc' = "idle" /\ version' = None /\ pos' = 1
    /\ left' = {} /\ got' = <<>> /\ out' = <<>> /\ hadAck' = FALSE
    /\ ring' = Node /\ alive' = Peer
    /\ UNCHANGED <<copies, cold, net>>

Change == /\ faults < MaxFaults
          /\ faults' = faults + 1
          /\ UNCHANGED <<map, reader>>

RingChange(n) ==
    /\ ring' = IF n \in ring THEN ring \ {n} ELSE ring \cup {n}
    /\ Change /\ UNCHANGED <<copies, cold, alive, net>>

TableChange(n) ==
    /\ alive' = IF n \in alive THEN alive \ {n} ELSE alive \cup {n}
    /\ Change /\ UNCHANGED <<copies, cold, ring, net>>

NetChange(n, s) ==
    /\ net[n] # s
    /\ net' = [net EXCEPT ![n] = s]
    /\ Change /\ UNCHANGED <<copies, cold, ring, alive>>

CopyChange(n, c, s) ==
    /\ copies[n][c] # s
    /\ copies' = [copies EXCEPT ![n][c] = s]
    /\ Change /\ UNCHANGED <<cold, ring, alive, net>>

ColdChange(c) ==
    /\ cold' = IF c \in cold THEN cold \ {c} ELSE cold \cup {c}
    /\ Change /\ UNCHANGED <<copies, ring, alive, net>>

Environment ==
    \/ Restart
    \/ \E n \in Frail \ {self} : \/ RingChange(n)
                                \/ TableChange(n)
                                \/ \E s \in {"up", "down", "hung"} : NetChange(n, s)
    \/ \E c \in Chunk : \/ ColdChange(c)
                        \/ \E n \in Frail, s \in {"none", "whole", "torn"} : CopyChange(n, c, s)

(***************************************************************************)
(* The history of a fetch: what could have served it all along.            *)
(***************************************************************************)
Watch == steady' = IF pc' = "fetch" /\ pc # "fetch" THEN Sources(Current)'
                   ELSE IF pc \in Fetching /\ pc' # "idle" THEN steady \cap Sources(Current)'
                   ELSE {}

Next == /\ \/ \E v \in Version : BeginWrite(v) \/ EndWrite(v)
           \/ BeginLookup
           \/ ReaderStep
           \/ Environment
        /\ Watch

Spec == Init /\ [][Next]_vars

(***************************************************************************)
(* A handler that can go on does; a peer that is up or down answers or     *)
(* fails, one that hangs need not.  S3 requests end after 30 s.            *)
(***************************************************************************)
FairSpec == Spec /\ WF_vars(ReaderStep /\ Watch)

----------------------------------------------------------------------------
(***************************************************************************)
(* What a client is sent is always the beginning of what one upload meant  *)
(* to store, and all of it when Reassemble reports success: never bytes of *)
(* a torn copy, never a mix of two uploads, although the blob may be       *)
(* uploaded anew, chunks moved and the node's view changed during the      *)
(* download.  The exception is an upload whose client went away: Split     *)
(* takes the part that arrived for the blob.                               *)
(***************************************************************************)
OutputOfOneUpload ==
    out # <<>> \/ pc = "done" =>
        \E v \in Accepted :
            /\ IsPrefix(out, Sent[v])
            /\ pc = "done" => \/ out = Sent[v]
                              \/ Ending[v] = "ErrUnexpectedEOF" /\ out = Body[v]

(***************************************************************************)
(* fetchChunk's "fallback chain is what keeps reads available": a fetch    *)
(* comes back empty-handed only if no source was good at every moment of   *)
(* it, however the ring, the table and the peers changed meanwhile.        *)
(***************************************************************************)
SteadySourceServes == pc = "unfetched" => steady = {}

(***************************************************************************)
(* "unknown blob id" is never the answer once an upload of the blob was    *)
(* acknowledged, unless the node was restarted since (the index is not     *)
(* stored) or accesses to the unlocked map overlapped.                     *)
(***************************************************************************)
AckedIsFound == pc = "missing" => ~hadAck \/ raced

(***************************************************************************)
(* A download ends, except while a peer it asked hangs: that request has   *)
(* no timeout, and declaring the peer dead does not end it.                *)
(***************************************************************************)
DownloadsEnd ==
    <>[](pc \in Busy) => <>[](pc = "wait" /\ net[Asked] = "hung")
=============================================================================
