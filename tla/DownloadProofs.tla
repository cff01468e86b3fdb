--------------------------- MODULE DownloadProofs ---------------------------
(***************************************************************************)
(* The read path of one node, for any uploads, chunk size, ring and number *)
(* of changes around it.                                                   *)
(***************************************************************************)
EXTENDS Download, PreferenceProofs, SequenceTheorems, TLAPS

(***************************************************************************)
(* Rounding up: the pieces cover all the bytes, and none of them is empty. *)
(***************************************************************************)
LEMMA CeilingDivision ==
    ASSUME NEW a \in Nat, NEW c \in Nat \ {0}
    PROVE  LET n == (a + c - 1) \div c
           IN  n \in Nat /\ a <= n * c /\ \A p \in Nat : p < n => p * c < a
<1> DEFINE n == (a + c - 1) \div c
<1>1. a + c - 1 \in Nat
  OBVIOUS
<1>2. n \in Nat /\ n * c <= a + c - 1 /\ a + c - 1 < n * c + c
  BY <1>1
<1> HIDE DEF n
<1>3. n * c \in Nat
  BY <1>2
<1>4. a <= n * c
  BY <1>2, <1>3
<1>5. ASSUME NEW p \in Nat, p < n PROVE p * c < a
  <2>1. (p + 1) * c <= n * c
    BY <1>2, <1>5
  <2>2. (p + 1) * c = p * c + c /\ p * c \in Nat
    OBVIOUS
  <2> QED
    BY <1>2, <1>3, <2>1, <2>2
<1> QED
  BY <1>2, <1>4, <1>5 DEF n
(***************************************************************************)
(* What Split makes of a body: how many chunks, and where each one ends.   *)
(***************************************************************************)
Pieces(v) == (Len(Body[v]) + ChunkSize - 1) \div ChunkSize

EndOf(v, i) == IF i * ChunkSize < Len(Body[v]) THEN i * ChunkSize ELSE Len(Body[v])

Sofar(v, i) == SubSeq(Body[v], 1, (i - 1) * ChunkSize)

LEMMA PiecesCover ==
    ASSUME NEW v \in Version
    PROVE  /\ Body[v] \in Seq(Byte) /\ Len(Body[v]) \in Nat /\ Pieces(v) \in Nat
           /\ Len(Body[v]) <= Pieces(v) * ChunkSize
           /\ \A p \in Nat : p < Pieces(v) => p * ChunkSize < Len(Body[v])
<1>0. Body \in [Version -> Seq(Byte)] /\ ChunkSize \in Nat \ {0}
  BY DownloadAssumption
<1>1. Body[v] \in Seq(Byte) /\ Len(Body[v]) \in Nat /\ ChunkSize \in Nat \ {0}
  BY <1>0
<1> QED
  BY <1>1, CeilingDivision DEF Pieces

LEMMA SplitShape ==
    ASSUME NEW v \in Version
    PROVE  /\ DOMAIN ChunkIDs[v] = 1 .. Pieces(v) /\ Len(ChunkIDs[v]) = Pieces(v)
           /\ \A i \in 1 .. Pieces(v) :
                  ChunkIDs[v][i] = ID(SubSeq(Body[v], (i - 1) * ChunkSize + 1, EndOf(v, i)))
<1>1. Split(Body[v]) = [i \in 1 .. Pieces(v) |->
                          SubSeq(Body[v], (i - 1) * ChunkSize + 1, EndOf(v, i))]
  BY DEF Split, Pieces, EndOf
<1>2. ChunkIDs[v] = [i \in 1 .. Pieces(v) |->
                       ID(SubSeq(Body[v], (i - 1) * ChunkSize + 1, EndOf(v, i)))]
  BY <1>1 DEF ChunkIDs
<1>3. Pieces(v) \in Nat
  BY PiecesCover
<1> QED
  BY <1>2, <1>3

(***************************************************************************)
(* A chunk whose hash is right continues the bytes written so far: by a    *)
(* full chunk, or to the end of the body after the last one.               *)
(***************************************************************************)
LEMMA ChunkContinues ==
    ASSUME NEW v \in Version, NEW p \in 1 .. Pieces(v), NEW data, Verify(ChunkIDs[v][p], data)
    PROVE  Sofar(v, p) \o data = IF p = Pieces(v) THEN Body[v] ELSE Sofar(v, p + 1)
<1> DEFINE B == Body[v]
           k == (p - 1) * ChunkSize
           n == EndOf(v, p)
<1>1. /\ B \in Seq(Byte) /\ Len(B) \in Nat /\ Pieces(v) \in Nat
      /\ Len(B) <= Pieces(v) * ChunkSize
      /\ \A q \in Nat : q < Pieces(v) => q * ChunkSize < Len(B)
  BY PiecesCover
<1>2. ChunkSize \in Nat \ {0}
  BY DownloadAssumption
<1>3. data = SubSeq(B, k + 1, n)
  <2>1. ID(data) = ID(SubSeq(B, k + 1, n))
    BY SplitShape DEF Verify
  <2> QED
    BY <2>1 DEF ID
<1>4. p \in Nat /\ p - 1 \in Nat /\ p - 1 < Pieces(v)
  BY <1>1
<1>5. k \in Nat /\ k < Len(B) /\ p * ChunkSize = k + ChunkSize
  <2>1. k < Len(B)
    BY <1>1, <1>4
  <2> QED
    BY <1>2, <1>4, <2>1
<1>6. n \in Nat /\ k <= n /\ n <= Len(B)
  BY <1>1, <1>2, <1>5 DEF EndOf
<1> HIDE DEF B, k, n
<1>7. SubSeq(B, 1, k) \o SubSeq(B, k + 1, n) = SubSeq(B, 1, n)
  <2>1. 1 \in 1 .. Len(B) + 1 /\ k \in 1 - 1 .. Len(B) /\ n \in k .. Len(B)
    BY <1>1, <1>5, <1>6
  <2> QED
    BY <1>1, <2>1, ConcatAdjacentSubSeq
<1>8. CASE p = Pieces(v)
  <2>1. n = Len(B)
    <3>1. p * ChunkSize \in Nat /\ Len(B) <= p * ChunkSize
      BY <1>1, <1>2, <1>4, <1>8
    <3>2. ~(p * ChunkSize < Len(B))
      BY <1>1, <3>1
    <3> QED
      BY <3>2 DEF EndOf, n, B
  <2>2. SubSeq(B, 1, n) = B
    BY <1>1, <2>1, SubSeqFull
  <2> QED
    BY <1>3, <1>7, <1>8, <2>2 DEF Sofar, B, k
<1>9. CASE p # Pieces(v)
  <2>1. p < Pieces(v)
    BY <1>1, <1>9
  <2>2. n = p * ChunkSize
    BY <1>1, <1>4, <2>1 DEF EndOf, n, B
  <2>3. (p + 1) - 1 = p
    BY <1>4
  <2> QED
    BY <1>3, <1>7, <1>9, <2>2, <2>3 DEF Sofar, B, k
<1> QED
  BY <1>8, <1>9

LEMMA CurrentIsChunk ==
    ASSUME NEW v \in Version, NEW i \in DOMAIN ChunkIDs[v]
    PROVE  ChunkIDs[v][i] \in Chunk
  BY DEF Chunk

----------------------------------------------------------------------------
(***************************************************************************)
(* The index only ever names uploads that Split accepted.  A download past *)
(* its lookup is at a chunk of such an upload and has written exactly the  *)
(* bytes before it; one that is done has written them all.                 *)
(***************************************************************************)
MapInv == index \in Accepted \cup {None} /\ writing \subseteq Accepted

Midway == Fetching \cup {"write", "unfetched", "corrupt", "cut"}

ReadInv ==
    /\ pc \in {"idle", "lookup", "missing"} => out = <<>>
    /\ pc = "lookup" => pos = 1
    /\ pc \in Midway => /\ version \in Accepted
                        /\ pos \in DOMAIN ChunkIDs[version]
                        /\ out = Sofar(version, pos)
    /\ pc = "done" => version \in Accepted /\ out = Body[version]

Inv == TypeOK /\ MapInv /\ ReadInv

LEMMA BoundTyped == MaxFaults \in Nat /\ ChunkSize \in Nat \ {0} /\ self \in Node
  BY DownloadAssumption

LEMMA AcceptedAreVersions == Accepted \subseteq Version /\ None \notin Accepted
  BY DownloadAssumption DEF Accepted

(***************************************************************************)
(* The owner that is asked next is one that is left.                       *)
(***************************************************************************)
LEMMA AskedIsLeft ==
    ASSUME Inv, pc \in Fetching, left # {}
    PROVE  Asked \in left
<1>1. version \in Version /\ pos \in DOMAIN ChunkIDs[version] /\ left \subseteq Node
  BY AcceptedAreVersions DEF Inv, TypeOK, ReadInv, Midway, Peer
<1>2. Current \in Chunk
  BY <1>1, CurrentIsChunk DEF Current
<1>3. \A n \in left : RankOf(Current)[n] \in Nat
  BY <1>1, <1>2, DownloadAssumption
<1>4. \E n \in left : Before(RankOf(Current), left, n) = {}
  BY <1>3, SomeoneIsFirst
<1> QED
  BY <1>4 DEF Asked

LEMMA FirstChunk ==
    ASSUME NEW v \in Version, Body[v] # <<>>
    PROVE  1 \in DOMAIN ChunkIDs[v] /\ Sofar(v, 1) = <<>>
<1>1. Body[v] \in Seq(Byte) /\ Len(Body[v]) \in Nat /\ Pieces(v) \in Nat
      /\ Len(Body[v]) <= Pieces(v) * ChunkSize /\ ChunkSize \in Nat
  BY PiecesCover, DownloadAssumption
<1>2. Len(Body[v]) # 0
  BY <1>1
<1>3. Pieces(v) # 0
  BY <1>1, <1>2
<1>4. 1 \in 1 .. Pieces(v)
  BY <1>1, <1>3
<1>5. (1 - 1) * ChunkSize = 0
  BY <1>1
<1>6. SubSeq(Body[v], 1, 0) = <<>>
  BY SubSeqEmpty
<1> QED
  BY <1>4, <1>5, <1>6, SplitShape DEF Sofar

LEMMA InvPreserved == Inv /\ [Next]_vars => Inv'
<1> SUFFICES ASSUME Inv, [Next]_vars PROVE Inv'
  OBVIOUS
<1> USE DEF map, reader, world
<1>0. TypeOK /\ MapInv /\ ReadInv
  BY DEF Inv
<1>1. ASSUME NEW v \in Version, BeginWrite(v) \/ EndWrite(v) PROVE Inv'
  <2>1. UNCHANGED <<reader, world>>
    BY <1>1 DEF BeginWrite, EndWrite
  <2>2. v \in Accepted
    BY <1>0, <1>1 DEF BeginWrite, EndWrite, MapInv
  <2>3. index' \in Accepted \cup {None} /\ writing' \subseteq Accepted
    BY <1>0, <1>1, <2>2 DEF BeginWrite, EndWrite, MapInv
  <2>4. raced' \in BOOLEAN /\ acked' \in BOOLEAN
    BY <1>0, <1>1 DEF BeginWrite, EndWrite, TypeOK
  <2>5. TypeOK'
    BY <1>0, <2>1, <2>3, <2>4, AcceptedAreVersions DEF TypeOK
  <2> QED
    BY <1>0, <2>1, <2>3, <2>5 DEF Inv, MapInv, ReadInv
<1>2. CASE BeginLookup
  <2>1. raced' \in BOOLEAN /\ hadAck' \in BOOLEAN
    BY <1>0, <1>2 DEF BeginLookup, TypeOK
  <2>2. TypeOK'
    BY <1>0, <1>2, <2>1 DEF BeginLookup, TypeOK, Busy, Fetching
  <2> QED
    BY <1>0, <1>2, <2>2 DEF BeginLookup, Inv, MapInv, ReadInv, Midway, Fetching
<1>3. CASE EndLookup
  <2>1. version' \in Accepted \cup {None} /\ out = <<>> /\ pos = 1
    BY <1>0, <1>3 DEF EndLookup, MapInv, ReadInv
  <2>2. UNCHANGED <<map, pos, left, got, out, hadAck, world>>
    BY <1>3 DEF EndLookup
  <2>3. CASE version' = None
    <3>1. pc' = "missing"
      BY <1>3, <2>3 DEF EndLookup
    <3>2. TypeOK'
      BY <1>0, <2>1, <2>2, <2>3, <3>1, AcceptedAreVersions DEF TypeOK, Ended, Busy, Fetching
    <3> QED
      BY <1>0, <2>1, <2>2, <3>1, <3>2 DEF Inv, MapInv, ReadInv, Midway, Fetching
  <2>4. CASE version' # None /\ Body[version'] = <<>>
    <3>1. pc' = "done"
      BY <1>3, <2>4 DEF EndLookup
    <3>2. TypeOK'
      BY <1>0, <2>1, <2>2, <2>4, <3>1, AcceptedAreVersions DEF TypeOK, Ended, Busy, Fetching
    <3> QED
      BY <1>0, <2>1, <2>2, <2>4, <3>1, <3>2 DEF Inv, MapInv, ReadInv, Midway, Fetching
  <2>5. CASE version' # None /\ Body[version'] # <<>>
    <3>1. pc' = "fetch"
      BY <1>3, <2>5 DEF EndLookup
    <3>2. 1 \in DOMAIN ChunkIDs[version'] /\ Sofar(version', 1) = <<>>
      BY <2>1, <2>5, AcceptedAreVersions, FirstChunk
    <3>3. TypeOK'
      BY <1>0, <2>1, <2>2, <2>5, <3>1, <3>2, AcceptedAreVersions
         DEF TypeOK, Ended, Busy, Fetching
    <3> QED
      BY <1>0, <2>1, <2>2, <2>5, <3>1, <3>2, <3>3 DEF Inv, MapInv, ReadInv, Midway, Fetching
  <2> QED
    BY <2>3, <2>4, <2>5
<1>4. CASE FetchLocal \/ AskPeer \/ PeerAnswers \/ FetchCold
  <2>1. /\ UNCHANGED <<map, version, pos, out, hadAck, world>>
        /\ pc \in Fetching /\ pc' \in Fetching \cup {"write", "unfetched"}
    BY <1>4 DEF FetchLocal, AskPeer, PeerAnswers, FetchCold, Fetching
  <2>2. left' \subseteq Peer
    BY <1>0, <1>4 DEF FetchLocal, AskPeer, PeerAnswers, FetchCold, TypeOK, Peer, Owners, FirstN
  <2>3. pos \in DOMAIN ChunkIDs[version]
    BY <1>0, <2>1 DEF TypeOK
  <2>4. TypeOK'
    BY <1>0, <2>1, <2>2, <2>3 DEF TypeOK, Ended, Busy
  <2> QED
    BY <1>0, <2>1, <2>4 DEF Inv, MapInv, ReadInv, Midway, Fetching
<1>5. CASE WriteChunk
  <2>1. /\ version \in Accepted /\ version \in Version /\ pos \in DOMAIN ChunkIDs[version]
        /\ out = Sofar(version, pos)
    BY <1>0, <1>5, AcceptedAreVersions DEF WriteChunk, ReadInv, Midway
  <2>2. UNCHANGED <<map, version, hadAck, world>> /\ left' = {}
    BY <1>5 DEF WriteChunk
  <2>3. CASE pc' \in {"corrupt", "cut"} /\ UNCHANGED <<pos, out>>
    <3>1. TypeOK'
      BY <1>0, <2>2, <2>3 DEF TypeOK, Ended, Busy, Fetching
    <3> QED
      BY <1>0, <2>1, <2>2, <2>3, <3>1 DEF Inv, MapInv, ReadInv, Midway, Fetching
  <2>4. CASE /\ Verify(Current, got) /\ out' = out \o got /\ pos' = pos + 1
             /\ pc' = IF pos = Len(ChunkIDs[version]) THEN "done" ELSE "fetch"
    <3>1. /\ DOMAIN ChunkIDs[version] = 1 .. Pieces(version) /\ pos \in 1 .. Pieces(version)
          /\ Len(ChunkIDs[version]) = Pieces(version) /\ Pieces(version) \in Nat
      BY <2>1, SplitShape, PiecesCover
    <3>2. out' = IF pos = Pieces(version) THEN Body[version] ELSE Sofar(version, pos + 1)
      BY <2>1, <2>4, <3>1, ChunkContinues DEF Current
    <3>3. pos + 1 \in Nat /\ (pos # Pieces(version) => pos + 1 \in 1 .. Pieces(version))
      BY <3>1
    <3>4. CASE pos = Pieces(version)
      <4>1. pc' = "done" /\ out' = Body[version]
        BY <2>4, <3>1, <3>2, <3>4
      <4>2. TypeOK'
        BY <1>0, <2>2, <2>4, <3>3, <4>1 DEF TypeOK, Ended, Busy, Fetching
      <4> QED
        BY <1>0, <2>1, <2>2, <4>1, <4>2 DEF Inv, MapInv, ReadInv, Midway, Fetching
    <3>5. CASE pos # Pieces(version)
      <4>1. pc' = "fetch" /\ out' = Sofar(version, pos')
        BY <2>4, <3>1, <3>2, <3>5
      <4>2. pos' \in Nat /\ pos' \in DOMAIN ChunkIDs[version]
        BY <2>4, <3>1, <3>3, <3>5
      <4>3. TypeOK'
        BY <1>0, <2>2, <4>1, <4>2 DEF TypeOK, Ended, Busy, Fetching
      <4> QED
        BY <1>0, <2>1, <2>2, <4>1, <4>2, <4>3 DEF Inv, MapInv, ReadInv, Midway, Fetching
    <3> QED
      BY <3>4, <3>5
  <2> QED
    BY <1>5, <2>3, <2>4 DEF WriteChunk
<1>6. CASE Restart
  <2>1. faults' \in 0 .. MaxFaults
    BY <1>0, <1>6, BoundTyped DEF Restart, TypeOK
  <2>2. TypeOK'
    BY <1>0, <1>6, <2>1 DEF Restart, TypeOK, Busy, Fetching
  <2> QED
    BY <1>6, <2>2 DEF Restart, Inv, MapInv, ReadInv, Midway, Fetching
<1>7. ASSUME Change, copies' \in [Node -> [Chunk -> {"none", "whole", "torn"}]],
             cold' \subseteq Chunk, ring' \subseteq Node, self \in ring', alive' \subseteq Peer,
             net' \in [Peer -> {"up", "down", "hung"}]
      PROVE  Inv'
  <2>1. faults' \in 0 .. MaxFaults
    BY <1>0, <1>7, BoundTyped DEF Change, TypeOK
  <2>2. TypeOK'
    BY <1>0, <1>7, <2>1 DEF Change, TypeOK
  <2> QED
    BY <1>0, <1>7, <2>2 DEF Change, Inv, MapInv, ReadInv
<1>8. ASSUME NEW n \in Frail \ {self}, RingChange(n) \/ TableChange(n) PROVE Inv'
  <2>1. n \in Peer /\ n \in Node
    BY DownloadAssumption DEF Peer
  <2> QED
    BY <1>0, <1>7, <1>8, <2>1 DEF RingChange, TableChange, TypeOK
<1>9. ASSUME NEW n \in Frail \ {self}, NEW s \in {"up", "down", "hung"}, NetChange(n, s)
      PROVE  Inv'
  <2>1. net' \in [Peer -> {"up", "down", "hung"}]
    BY <1>0, <1>9 DEF NetChange, TypeOK
  <2> QED
    BY <1>0, <1>7, <1>9, <2>1 DEF NetChange, TypeOK
<1>10. ASSUME NEW c \in Chunk, ColdChange(c) PROVE Inv'
  BY <1>0, <1>7, <1>10 DEF ColdChange, TypeOK
<1>11. ASSUME NEW c \in Chunk, NEW n \in Frail, NEW s \in {"none", "whole", "torn"},
             CopyChange(n, c, s)
       PROVE  Inv'
  <2>1. copies' \in [Node -> [Chunk -> {"none", "whole", "torn"}]]
    BY <1>0, <1>11 DEF CopyChange, TypeOK
  <2> QED
    BY <1>0, <1>7, <1>11, <2>1 DEF CopyChange, TypeOK
<1>12. CASE UNCHANGED vars
  BY <1>0, <1>12 DEF vars, Inv, TypeOK, MapInv, ReadInv
<1> QED
  BY <1>1, <1>2, <1>3, <1>4, <1>5, <1>6, <1>8, <1>9, <1>10, <1>11, <1>12
     DEF Next, ReaderStep, Environment

LEMMA InvAlways == Spec => []Inv
<1>1. Init => Inv
  <2> SUFFICES ASSUME Init PROVE Inv
    OBVIOUS
  <2>1. 0 \in 0 .. MaxFaults /\ self \in Node
    BY BoundTyped
  <2>2. copies \in [Node -> [Chunk -> {"none", "whole", "torn"}]]
    BY DEF Init
  <2>3. TypeOK
    BY <2>1, <2>2 DEF Init, TypeOK, Busy, Fetching
  <2> QED
    BY <2>3 DEF Init, Inv, MapInv, ReadInv, Midway, Fetching
<1> QED
  BY <1>1, InvPreserved, PTL DEF Spec

(***************************************************************************)
(* A download asks other nodes only and stays within the manifest it took  *)
(* along (handleDownloadBlob, fetchChunk, Reassemble).                     *)
(***************************************************************************)
THEOREM TypeCorrect == Spec => []TypeOK
  BY InvAlways, PTL DEF Inv

(***************************************************************************)
(* What a client is sent is a beginning of one upload, and all of it on    *)
(* success: never torn bytes, never two uploads mixed, for any chunk size  *)
(* and however often the blob is uploaded anew (Split, Verify, Reassemble, *)
(* handleDownloadBlob).                                                    *)
(***************************************************************************)
THEOREM OutputIsOfOneUpload == Spec => []OutputOfOneUpload
<1>1. ASSUME NEW v \in Version, NEW n \in Nat, n <= Len(Body[v])
      PROVE  IsPrefix(SubSeq(Body[v], 1, n), Sent[v])
  <2>1. Body \in [Version -> Seq(Byte)] /\ Sent \in [Version -> Seq(Byte)]
    BY DownloadAssumption
  <2>2. Body[v] \in Seq(Byte) /\ Sent[v] \in Seq(Byte)
    BY <2>1
  <2>3. IsPrefix(Body[v], Sent[v])
    BY DownloadAssumption
  <2>4. /\ Len(Body[v]) \in Nat /\ Len(Sent[v]) \in Nat /\ Len(Body[v]) <= Len(Sent[v])
        /\ Body[v] = SubSeq(Sent[v], 1, Len(Body[v]))
    BY <2>2, <2>3, SubSeqFull DEF IsPrefix
  <2>5. \A i \in 1 .. n : Body[v][i] = Sent[v][i]
    BY <1>1, <2>2, <2>4
  <2>6. SubSeq(Body[v], 1, n) = SubSeq(Sent[v], 1, n)
    BY <1>1, <2>2, <2>4, <2>5
  <2>7. /\ SubSeq(Body[v], 1, n) \in Seq(Byte)
        /\ Len(SubSeq(Body[v], 1, n)) = n
    BY <1>1, <2>2, <2>4
  <2>8. SubSeq(SubSeq(Body[v], 1, n), 1, n) = SubSeq(Body[v], 1, n)
    BY <2>7, SubSeqFull
  <2>9. n <= Len(Sent[v])
    BY <1>1, <2>4
  <2> QED
    BY <2>6, <2>7, <2>8, <2>9 DEF IsPrefix
<1>2. Inv => OutputOfOneUpload
  <2> SUFFICES ASSUME Inv, out # <<>> \/ pc = "done"
               PROVE  \E v \in Accepted :
                          /\ IsPrefix(out, Sent[v])
                          /\ pc = "done" => \/ out = Sent[v]
                                            \/ Ending[v] = "ErrUnexpectedEOF" /\ out = Body[v]
    BY DEF OutputOfOneUpload
  <2>1. CASE pc = "done"
    <3>1. version \in Accepted /\ version \in Version /\ out = Body[version]
      BY <2>1, AcceptedAreVersions DEF Inv, ReadInv
    <3>2. Body[version] \in Seq(Byte) /\ Len(Body[version]) \in Nat
      BY <3>1, PiecesCover
    <3>3. SubSeq(Body[version], 1, Len(Body[version])) = Body[version]
      BY <3>2, SubSeqFull
    <3>4. IsPrefix(out, Sent[version])
      <4>1. Len(Body[version]) <= Len(Body[version])
        BY <3>2
      <4>2. IsPrefix(SubSeq(Body[version], 1, Len(Body[version])), Sent[version])
        BY <1>1, <3>1, <3>2, <4>1
      <4> QED
        BY <3>1, <3>3, <4>2
    <3>5. Ending[version] = "ErrUnexpectedEOF" \/ out = Sent[version]
      BY <3>1, DownloadAssumption DEF Accepted
    <3> QED
      BY <3>1, <3>4, <3>5
  <2>2. CASE pc # "done"
    <3>1. pc \in Midway
      BY <2>2 DEF Inv, TypeOK, ReadInv, Midway, Fetching, Busy, Ended
    <3>2. /\ version \in Accepted /\ version \in Version /\ pos \in DOMAIN ChunkIDs[version]
          /\ out = Sofar(version, pos)
      BY <3>1, AcceptedAreVersions DEF Inv, ReadInv
    <3>3. /\ pos \in 1 .. Pieces(version) /\ Pieces(version) \in Nat /\ Len(Body[version]) \in Nat
          /\ \A p \in Nat : p < Pieces(version) => p * ChunkSize < Len(Body[version])
      BY <3>2, SplitShape, PiecesCover
    <3>4. pos - 1 \in Nat /\ pos - 1 < Pieces(version) /\ ChunkSize \in Nat
      BY <3>3, BoundTyped
    <3>5. (pos - 1) * ChunkSize \in Nat /\ (pos - 1) * ChunkSize <= Len(Body[version])
      BY <3>3, <3>4
    <3>6. IsPrefix(out, Sent[version])
      BY <1>1, <3>2, <3>5 DEF Sofar
    <3> QED
      BY <2>2, <3>2, <3>6
  <2> QED
    BY <2>1, <2>2
<1> QED
  BY <1>2, InvAlways, PTL

----------------------------------------------------------------------------
(***************************************************************************)
(* While no accesses to the map overlapped, an answered upload is in it.   *)
(***************************************************************************)
AckInv == /\ hadAck => acked
          /\ acked /\ ~raced => index # None
          /\ AckedIsFound

LEMMA AckPreserved == Inv /\ AckInv /\ [Next]_vars => AckInv'
<1> SUFFICES ASSUME Inv, AckInv, [Next]_vars PROVE AckInv'
  OBVIOUS
<1> USE DEF map, reader, world, AckInv, AckedIsFound
<1>0. TypeOK /\ MapInv
  BY DEF Inv
<1>1. ASSUME NEW v \in Version, BeginWrite(v) PROVE AckInv'
  BY <1>1 DEF BeginWrite
<1>2. ASSUME NEW v \in Version, EndWrite(v) PROVE AckInv'
  <2>1. v # None
    BY DownloadAssumption
  <2> QED
    BY <1>2, <2>1 DEF EndWrite
<1>3. CASE BeginLookup
  BY <1>3 DEF BeginLookup
<1>4. CASE EndLookup
  BY <1>4 DEF EndLookup
<1>5. CASE FetchLocal \/ AskPeer \/ PeerAnswers \/ FetchCold
  <2>1. pc' # "missing" /\ UNCHANGED <<map, hadAck>>
    BY <1>5 DEF FetchLocal, AskPeer, PeerAnswers, FetchCold
  <2> QED
    BY <2>1
<1>6. CASE WriteChunk
  BY <1>6 DEF WriteChunk
<1>7. CASE Restart
  BY <1>7 DEF Restart
<1>8. CASE UNCHANGED <<map, reader>>
  BY <1>8
<1> QED
  BY <1>1, <1>2, <1>3, <1>4, <1>5, <1>6, <1>7, <1>8
     DEF Next, ReaderStep, Environment, RingChange, TableChange, NetChange, CopyChange,
         ColdChange, Change, vars

(***************************************************************************)
(* An acknowledged blob is found, short of a restart or of overlapping     *)
(* accesses to the unlocked map (handleUploadBlob, handleDownloadBlob).    *)
(***************************************************************************)
THEOREM AcknowledgedIsFound == Spec => []AckedIsFound
<1>1. Init => AckInv
  BY DEF Init, AckInv, AckedIsFound
<1>2. AckInv => AckedIsFound
  BY DEF AckInv
<1> QED
  BY <1>1, <1>2, InvAlways, AckPreserved, PTL DEF Spec

----------------------------------------------------------------------------
(***************************************************************************)
(* The sources that have been good all through the fetch are good now, and *)
(* the fetch has yet to come to them: once it asks peers this node is not  *)
(* among them, every peer among them is still to be asked, and at the last *)
(* stop only the cold tier can be.                                         *)
(***************************************************************************)
SteadyInv ==
    /\ pc \in Fetching => steady \subseteq Sources(Current)
    /\ pc \in {"ask", "wait"} => steady \subseteq left \cup {"cold tier"}
    /\ pc = "cold" => steady \subseteq {"cold tier"}
    /\ SteadySourceServes

(***************************************************************************)
(* The sources change only with the world, and a step that keeps the place *)
(* in the fetch can only take some of the steady ones away.                *)
(***************************************************************************)
LEMMA SourcesAreNodes ==
    ASSUME NEW c, NEW n \in Sources(c), n # "cold tier"
    PROVE  /\ n \in Node /\ copies[n][c] = "whole"
           /\ n # self => n \in Owners(c) /\ n \in alive /\ net[n] = "up"
  BY DEF Sources

LEMMA WatchKeeps ==
    ASSUME Watch, pc \in Fetching, pc' # "idle", ~(pc' = "fetch" /\ pc # "fetch")
    PROVE  steady' = steady \cap Sources(Current)'
  BY DEF Watch

LEMMA SteadyPreserved == Inv /\ SteadyInv /\ [Next]_vars => SteadyInv'
<1> SUFFICES ASSUME Inv, SteadyInv, [Next]_vars PROVE SteadyInv'
  OBVIOUS
<1> USE DEF map, reader, world
<1>0. TypeOK /\ "cold tier" \notin Node
  BY DownloadAssumption DEF Inv
<1>1. ASSUME Watch, UNCHANGED reader PROVE SteadyInv'
  <2>1. CASE pc \in Fetching
    <3>1. steady' = steady \cap Sources(Current)'
      BY <1>1, <2>1, WatchKeeps DEF Fetching
    <3> QED
      BY <1>1, <2>1, <3>1 DEF SteadyInv, SteadySourceServes, Fetching
  <2>2. CASE pc \notin Fetching
    BY <1>1, <2>2 DEF Watch, SteadyInv, SteadySourceServes, Fetching
  <2> QED
    BY <2>1, <2>2
<1>2. ASSUME Watch, pc' \notin Fetching \cup {"unfetched"} PROVE SteadyInv'
  BY <1>2 DEF SteadyInv, SteadySourceServes, Fetching
<1>3. ASSUME Watch, pc' = "fetch", pc # "fetch" PROVE SteadyInv'
  BY <1>3 DEF Watch, SteadyInv, SteadySourceServes, Fetching
<1>4. CASE FetchLocal /\ Watch
  <2>1. CASE pc' = "write"
    BY <1>2, <1>4, <2>1 DEF Fetching
  <2>2. CASE pc' = "ask" /\ copies[self][Current] = "none" /\ left' = Owners(Current) \ {self}
    <3>1. steady' = steady \cap Sources(Current)' /\ steady \subseteq Sources(Current)
      BY <1>4, <2>2, WatchKeeps DEF FetchLocal, SteadyInv, Fetching
    <3>2. \A n \in steady : n = "cold tier" \/ n \in left'
      BY <2>2, <3>1, SourcesAreNodes
    <3> QED
      BY <2>2, <3>1, <3>2 DEF SteadyInv, SteadySourceServes, Fetching
  <2> QED
    BY <1>4, <2>1, <2>2 DEF FetchLocal
<1>5. ASSUME Watch, pc \in {"ask", "wait"}, pc' \in {"ask", "wait"},
             steady \subseteq left' \cup {"cold tier"}
      PROVE  SteadyInv'
  <2>1. steady' = steady \cap Sources(Current)'
    BY <1>5, WatchKeeps DEF Fetching
  <2> QED
    BY <1>5, <2>1 DEF SteadyInv, SteadySourceServes, Fetching
<1>6. CASE AskPeer /\ Watch
  <2>1. pc = "ask" /\ steady \subseteq Sources(Current) /\ steady \subseteq left \cup {"cold tier"}
    BY <1>6 DEF AskPeer, SteadyInv, Fetching
  <2>2. CASE left # {} /\ Asked \in alive /\ pc' = "wait" /\ left' = left
    BY <1>5, <1>6, <2>1, <2>2
  <2>3. CASE left # {} /\ Asked \notin alive /\ left' = left \ {Asked} /\ pc' = pc
    <3>1. Asked \in Peer
      BY <1>0, <2>1, <2>3, AskedIsLeft DEF TypeOK, Fetching
    <3>2. Asked \notin steady
      BY <1>0, <2>1, <2>3, <3>1, SourcesAreNodes DEF Peer
    <3> QED
      BY <1>5, <1>6, <2>1, <2>3, <3>2
  <2>4. CASE left = {} /\ pc' = "cold"
    <3>1. steady' = steady \cap Sources(Current)'
      BY <1>6, <2>1, <2>4, WatchKeeps DEF Fetching
    <3>2. steady \subseteq {"cold tier"}
      BY <2>1, <2>4 DEF SteadyInv
    <3> QED
      BY <2>4, <3>1, <3>2 DEF SteadyInv, SteadySourceServes, Fetching
  <2> QED
    BY <1>6, <2>2, <2>3, <2>4 DEF AskPeer
<1>7. CASE PeerAnswers /\ Watch
  <2>1. pc = "wait" /\ steady \subseteq Sources(Current) /\ steady \subseteq left \cup {"cold tier"}
    BY <1>7 DEF PeerAnswers, SteadyInv, Fetching
  <2>2. CASE pc' = "write"
    BY <1>2, <1>7, <2>2 DEF Fetching
  <2>3. CASE /\ net[Asked] = "down" \/ copies[Asked][Current] = "none"
             /\ left' = left \ {Asked} /\ pc' = "ask"
    <3>1. Asked \in left => Asked \notin steady
      <4> SUFFICES ASSUME Asked \in left PROVE Asked \notin steady
        OBVIOUS
      <4>1. Asked \in Peer
        BY <1>0 DEF TypeOK
      <4> QED
        BY <1>0, <2>1, <2>3, <4>1, SourcesAreNodes DEF Peer
    <3>2. steady \subseteq left' \cup {"cold tier"}
      BY <2>1, <2>3, <3>1
    <3> QED
      BY <1>5, <1>7, <2>1, <2>3, <3>2
  <2> QED
    BY <1>7, <2>2, <2>3 DEF PeerAnswers
<1>8. CASE FetchCold /\ Watch
  <2>1. CASE pc' = "write"
    BY <1>2, <1>8, <2>1 DEF Fetching
  <2>2. CASE pc' = "unfetched" /\ Current \notin cold
    <3>1. steady \subseteq Sources(Current) /\ steady \subseteq {"cold tier"}
      BY <1>8 DEF FetchCold, SteadyInv, Fetching
    <3>2. "cold tier" \notin Sources(Current)
      BY <1>0, <2>2 DEF Sources
    <3>3. steady = {}
      BY <3>1, <3>2
    <3>4. steady' = steady \cap Sources(Current)'
      BY <1>8, <2>2, WatchKeeps DEF FetchCold, Fetching
    <3> QED
      BY <2>2, <3>3, <3>4 DEF SteadyInv, SteadySourceServes, Fetching
  <2> QED
    BY <1>8, <2>1, <2>2 DEF FetchCold
<1>9. CASE (BeginLookup \/ EndLookup \/ WriteChunk \/ Restart) /\ Watch
  <2>1. /\ pc' \in {"lookup", "missing", "done", "fetch", "corrupt", "cut", "idle"}
        /\ pc' = "fetch" => pc # "fetch"
    BY <1>9 DEF BeginLookup, EndLookup, WriteChunk, Restart
  <2> QED
    BY <1>2, <1>3, <1>9, <2>1 DEF Fetching
<1>10. CASE UNCHANGED vars
  BY <1>10 DEF vars, SteadyInv, SteadySourceServes, Sources, Current, Owners
<1> QED
  BY <1>1, <1>4, <1>6, <1>7, <1>8, <1>9, <1>10
     DEF Next, BeginWrite, EndWrite, ReaderStep, Environment, RingChange, TableChange,
         NetChange, CopyChange, ColdChange, Change

(***************************************************************************)
(* A fetch fails only if nothing could have served it all along: with one  *)
(* source good throughout, no change of ring, table, peers or files makes  *)
(* the fallback chain miss it (fetchChunk, fetchFromPeer, addrForNode).    *)
(***************************************************************************)
THEOREM SteadySourceIsFound == Spec => []SteadySourceServes
<1>1. Init => SteadyInv
  BY DEF Init, SteadyInv, SteadySourceServes, Fetching
<1>2. SteadyInv => SteadySourceServes
  BY DEF SteadyInv
<1> QED
  BY <1>1, <1>2, InvAlways, SteadyPreserved, PTL DEF Spec
=============================================================================
