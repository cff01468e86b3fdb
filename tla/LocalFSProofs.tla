---------------------------- MODULE LocalFSProofs ---------------------------
(***************************************************************************)
(* What readers of the chunk store find, for any number of concurrent      *)
(* Puts, of crashes and failures, and for chunks of any size.              *)
(***************************************************************************)
EXTENDS LocalFS, TLAPS

(***************************************************************************)
(* A Put that is not writing holds no file open and will start at the      *)
(* beginning; one that is has a file.                                      *)
(***************************************************************************)
PutsCoherent ==
    \A w \in Writer : IF pc[w] = "write" THEN fd[w] \in Inode /\ next[w] \in Full
                      ELSE fd[w] = None /\ next[w] = 1

Inv == TypeOK /\ PutsCoherent

LEMMA InvPreserved == Inv /\ [Next]_vars => Inv'
<1> SUFFICES ASSUME TypeOK, PutsCoherent, [Next]_vars PROVE TypeOK' /\ PutsCoherent'
  BY DEF Inv
<1>0. 1 \in 1 .. Blocks + 1 /\ 1 \in Full
  BY LocalFSAssumption DEF Full
<1>1. ASSUME NEW w \in Writer, Open(w) PROVE TypeOK' /\ PutsCoherent'
  <2>1. TypeOK'
    BY <1>1 DEF Open, TypeOK
  <2> QED
    BY <1>0, <1>1, <2>1 DEF Open, TypeOK, PutsCoherent
<1>2. ASSUME NEW w \in Writer, Write(w) PROVE TypeOK' /\ PutsCoherent'
  <2>1. pc[w] = "write" /\ fd[w] \in Inode /\ next[w] \in Full
    BY <1>2 DEF Write, PutsCoherent
  <2>2. content' \in [Inode -> SUBSET Full]
    BY <1>2, <2>1 DEF Write, TypeOK
  <2>3. CASE next[w] = Blocks
    <3>1. /\ pc' = [pc EXCEPT ![w] = "rename"]
          /\ fd' = [fd EXCEPT ![w] = None]
          /\ next' = [next EXCEPT ![w] = 1]
          /\ UNCHANGED <<tmp, dest, overlapped, cutShort>>
      BY <1>2, <2>3 DEF Write
    <3> QED
      BY <1>0, <2>2, <3>1 DEF TypeOK, PutsCoherent
  <2>4. CASE next[w] # Blocks
    <3>1. /\ next' = [next EXCEPT ![w] = next[w] + 1]
          /\ UNCHANGED <<pc, fd, tmp, dest, overlapped, cutShort>>
      BY <1>2, <2>4 DEF Write
    <3>2. next[w] + 1 \in Full /\ next[w] + 1 \in 1 .. Blocks + 1
      BY <2>1, <2>4, LocalFSAssumption DEF Full
    <3> QED
      BY <2>1, <2>2, <3>1, <3>2 DEF TypeOK, PutsCoherent
  <2> QED
    BY <2>3, <2>4
<1>3. ASSUME NEW w \in Writer, WriteFails(w) \/ Rename(w) PROVE TypeOK' /\ PutsCoherent'
  BY <1>0, <1>3 DEF WriteFails, Rename, Return, TypeOK, PutsCoherent
<1>4. CASE Delete
  BY <1>4 DEF Delete, TypeOK, PutsCoherent
<1>5. CASE Crash
  BY <1>0, <1>5 DEF Crash, TypeOK, PutsCoherent
<1>6. CASE UNCHANGED vars
  BY <1>6 DEF vars, TypeOK, PutsCoherent
<1> QED
  BY <1>1, <1>2, <1>3, <1>4, <1>5, <1>6 DEF Next

LEMMA InvAlways == Spec => []Inv
<1>1. Init => Inv
  <2>1. 1 \in 1 .. Blocks + 1
    BY LocalFSAssumption
  <2> QED
    BY <2>1 DEF Init, Inv, TypeOK, PutsCoherent
<1> QED
  BY <1>1, InvPreserved, PTL DEF Spec

(***************************************************************************)
(* Directory entries and open files name inodes and no Put writes past the *)
(* end of the chunk, however many run at once (LocalFS.Put).               *)
(***************************************************************************)
THEOREM TypeCorrect == Spec => []TypeOK
  BY InvAlways, PTL DEF Inv

----------------------------------------------------------------------------
(***************************************************************************)
(* While no two Puts have overlapped there is at most one at work.  It     *)
(* fills path.tmp from the start, has filled it before it renames it, and  *)
(* never has path itself open; path names a full file.                     *)
(***************************************************************************)
SoloInv ==
    ~overlapped =>
        /\ \A v, w \in Writer : pc[v] # "idle" /\ pc[w] # "idle" => v = w
        /\ tmp # None => tmp # dest
        /\ dest # None => content[dest] = Full
        /\ \A w \in Writer :
               /\ pc[w] = "write" => fd[w] = tmp /\ 1 .. next[w] - 1 \subseteq content[tmp]
               /\ pc[w] = "rename" => tmp # None /\ content[tmp] = Full

LEMMA SoloPreserved == Inv /\ SoloInv /\ [Next]_vars => SoloInv'
<1> SUFFICES ASSUME TypeOK, PutsCoherent, SoloInv, [Next]_vars, ~overlapped' PROVE SoloInv'
  BY DEF Inv, SoloInv
<1>a. ~overlapped
  BY DEF Next, vars, Open, Write, WriteFails, Rename, Delete, Crash
<1>0. /\ \A v, w \in Writer : pc[v] # "idle" /\ pc[w] # "idle" => v = w
      /\ tmp # None => tmp # dest
      /\ dest # None => content[dest] = Full
      /\ \A w \in Writer :
             /\ pc[w] = "write" => fd[w] = tmp /\ 1 .. next[w] - 1 \subseteq content[tmp]
             /\ pc[w] = "rename" => tmp # None /\ content[tmp] = Full
  BY <1>a DEF SoloInv
<1>1. ASSUME NEW w \in Writer, Open(w) PROVE SoloInv'
  <2>1. PICK i \in Inode : /\ IF tmp # None THEN i = tmp ELSE i \notin InUse
                           /\ tmp' = i
                           /\ fd' = [fd EXCEPT ![w] = i]
                           /\ content' = [content EXCEPT ![i] = {}]
                           /\ overlapped' = (overlapped \/ \E v \in Writer : pc[v] # "idle")
    BY <1>1 DEF Open
  <2>2. \A v \in Writer : pc[v] = "idle"
    BY <2>1
  <2>3. i # None /\ i # dest
    BY <1>0, <2>1, LocalFSAssumption DEF InUse
  <2>4. dest' = dest /\ (dest # None => content'[dest] = Full)
    BY <1>0, <1>1, <2>1, <2>3 DEF Open, TypeOK
  <2>5. /\ pc' = [pc EXCEPT ![w] = "write"] /\ next' = next
        /\ next[w] = 1
    BY <1>1, <2>2 DEF Open, PutsCoherent
  <2>6. 1 .. next'[w] - 1 = {}
    BY <2>5
  <2> QED
    BY <2>1, <2>2, <2>3, <2>4, <2>5, <2>6 DEF SoloInv, TypeOK
<1>2. ASSUME NEW w \in Writer, Write(w) PROVE SoloInv'
  <2>1. /\ pc[w] = "write" /\ fd[w] = tmp /\ tmp \in Inode /\ next[w] \in Full
        /\ 1 .. next[w] - 1 \subseteq content[tmp] /\ tmp # dest /\ tmp # None
        /\ \A v \in Writer \ {w} : pc[v] = "idle"
    BY <1>0, <1>2, LocalFSAssumption DEF Write, PutsCoherent
  <2>2. /\ content' = [content EXCEPT ![tmp] = @ \cup {next[w]}]
        /\ UNCHANGED <<tmp, dest, overlapped>>
    BY <1>2, <2>1 DEF Write
  <2>3. /\ content'[tmp] = content[tmp] \cup {next[w]}
        /\ dest # None => content'[dest] = Full
    BY <1>0, <2>1, <2>2 DEF TypeOK
  <2>4. 1 .. next[w] \subseteq content'[tmp]
    <3>1. 1 .. next[w] = (1 .. next[w] - 1) \cup {next[w]}
      BY <2>1 DEF Full
    <3> QED
      BY <2>1, <2>3, <3>1
  <2>5. CASE next[w] = Blocks
    <3>1. pc' = [pc EXCEPT ![w] = "rename"]
      BY <1>2, <2>5 DEF Write
    <3>2. content'[tmp] = Full
      BY <2>1, <2>3, <2>4, <2>5 DEF Full, TypeOK
    <3> QED
      BY <1>0, <2>1, <2>2, <2>3, <3>1, <3>2 DEF SoloInv, TypeOK
  <2>6. CASE next[w] # Blocks
    <3>1. next' = [next EXCEPT ![w] = next[w] + 1] /\ pc' = pc /\ fd' = fd
      BY <1>2, <2>6 DEF Write
    <3>2. next'[w] - 1 = next[w]
      BY <2>1, <3>1 DEF TypeOK, Full
    <3> QED
      BY <1>0, <2>1, <2>2, <2>3, <2>4, <3>1, <3>2 DEF SoloInv, TypeOK
  <2> QED
    BY <2>5, <2>6
<1>3. ASSUME NEW w \in Writer, WriteFails(w) PROVE SoloInv'
  BY <1>0, <1>3 DEF WriteFails, Return, SoloInv, TypeOK
<1>4. ASSUME NEW w \in Writer, Rename(w) PROVE SoloInv'
  <2>1. /\ pc[w] = "rename" /\ tmp # None /\ content[tmp] = Full
        /\ \A v \in Writer \ {w} : pc[v] = "idle"
    BY <1>0, <1>4 DEF Rename
  <2>2. dest' = tmp /\ tmp' = None /\ content' = content /\ pc' = [pc EXCEPT ![w] = "idle"]
    BY <1>4, <2>1 DEF Rename, Return
  <2> QED
    BY <2>1, <2>2 DEF SoloInv, TypeOK
<1>5. CASE Delete
  BY <1>0, <1>5 DEF Delete, SoloInv
<1>6. CASE Crash
  BY <1>0, <1>6 DEF Crash, SoloInv
<1>7. CASE UNCHANGED vars
  BY <1>0, <1>7 DEF vars, SoloInv
<1> QED
  BY <1>1, <1>2, <1>3, <1>4, <1>5, <1>6, <1>7 DEF Next

(***************************************************************************)
(* Write-then-rename keeps its promise wherever Puts of a chunk do not     *)
(* overlap: path is absent or whole, through any number of failed writes,  *)
(* crashes and left-over temporary files (LocalFS.Put, Get, Has).          *)
(***************************************************************************)
THEOREM SoloPutsAreAtomic == Spec => []IntactUnlessOverlapped
<1>1. Init => SoloInv
  BY DEF Init, SoloInv
<1>2. SoloInv => IntactUnlessOverlapped
  BY DEF SoloInv, IntactUnlessOverlapped, Intact, Has
<1> QED
  BY <1>1, <1>2, InvAlways, SoloPreserved, PTL DEF Spec
----------------------------------------------------------------------------
(***************************************************************************)
(* With no Put cut short, whatever block a named file lacks is still ahead *)
(* of some Put that has the file open: a Put that truncates the file under *)
(* another starts again from its first block.                              *)
(***************************************************************************)
Pending(i, b) == \E w \in Writer : pc[w] = "write" /\ fd[w] = i /\ next[w] <= b

RestInv ==
    ~cutShort => \A i \in {tmp, dest} \ {None} : \A b \in Full \ content[i] : Pending(i, b)

LEMMA RestPreserved == Inv /\ RestInv /\ [Next]_vars => RestInv'
<1> SUFFICES ASSUME TypeOK, PutsCoherent, RestInv, [Next]_vars, ~cutShort' PROVE RestInv'
  BY DEF Inv, RestInv
<1>a. ~cutShort
  BY DEF Next, vars, Open, Write, WriteFails, Rename, Delete, Crash, TypeOK
<1>0. \A i \in {tmp, dest} \ {None} : \A b \in Full \ content[i] : Pending(i, b)
  BY <1>a DEF RestInv
<1>1. ASSUME NEW w \in Writer, Open(w) PROVE RestInv'
  <2>1. PICK i \in Inode : /\ tmp' = i
                           /\ fd' = [fd EXCEPT ![w] = i]
                           /\ content' = [content EXCEPT ![i] = {}]
    BY <1>1 DEF Open
  <2>2. /\ pc[w] = "idle" /\ next[w] = 1
        /\ pc' = [pc EXCEPT ![w] = "write"] /\ next' = next /\ dest' = dest
    BY <1>1 DEF Open, PutsCoherent
  <2>3. \A b \in Full : 1 <= b
    BY DEF Full
  <2>4. \A b \in Full : Pending(i, b)'
    BY <2>1, <2>2, <2>3 DEF Pending, TypeOK
  <2>5. ASSUME dest # i, dest # None, NEW b \in Full \ content'[dest]
        PROVE Pending(dest, b)'
    <3>1. b \in Full \ content[dest]
      BY <2>1, <2>5 DEF TypeOK
    <3>2. PICK v \in Writer : pc[v] = "write" /\ fd[v] = dest /\ next[v] <= b
      BY <1>0, <2>5, <3>1 DEF Pending
    <3> QED
      BY <2>1, <2>2, <3>2 DEF Pending, TypeOK
  <2> QED
    BY <2>1, <2>2, <2>4, <2>5 DEF RestInv
<1>2. ASSUME NEW w \in Writer, Write(w) PROVE RestInv'
  <2>1. pc[w] = "write" /\ fd[w] \in Inode /\ next[w] \in Full
    BY <1>2 DEF Write, PutsCoherent
  <2>2. /\ content' = [content EXCEPT ![fd[w]] = @ \cup {next[w]}]
        /\ UNCHANGED <<tmp, dest>>
    BY <1>2 DEF Write
  <2>3. ASSUME NEW i \in {tmp, dest} \ {None}, NEW b \in Full \ content'[i]
        PROVE Pending(i, b)'
    <3>1. i \in Inode /\ b \in Full \ content[i] /\ (i = fd[w] => b # next[w])
      BY <2>1, <2>2, <2>3 DEF TypeOK
    <3>2. PICK v \in Writer : pc[v] = "write" /\ fd[v] = i /\ next[v] <= b
      BY <1>0, <2>3, <3>1 DEF Pending
    <3>3. CASE v # w
      <4>1. pc'[v] = pc[v] /\ fd'[v] = fd[v] /\ next'[v] = next[v]
        BY <1>2, <3>3 DEF Write, TypeOK
      <4> QED
        BY <3>2, <4>1 DEF Pending
    <3>4. CASE v = w
      <4>1. next[w] # Blocks /\ next[w] + 1 <= b
        BY <2>1, <3>1, <3>2, <3>4, LocalFSAssumption DEF Full
      <4>2. pc' = pc /\ fd' = fd /\ next'[w] = next[w] + 1
        BY <1>2, <4>1 DEF Write, TypeOK
      <4> QED
        BY <3>2, <3>4, <4>1, <4>2 DEF Pending
    <3> QED
      BY <3>3, <3>4
  <2> QED
    BY <2>2, <2>3 DEF RestInv
<1>3. ASSUME NEW w \in Writer, WriteFails(w) PROVE RestInv'
  BY <1>3 DEF WriteFails
<1>4. ASSUME NEW w \in Writer, Rename(w) PROVE RestInv'
  <2>1. /\ {tmp', dest'} \ {None} \subseteq {tmp, dest} \ {None}
        /\ content' = content /\ pc[w] = "rename"
        /\ \A v \in Writer \ {w} : pc'[v] = pc[v] /\ fd'[v] = fd[v] /\ next'[v] = next[v]
    BY <1>4 DEF Rename, Return, TypeOK
  <2>2. \A i, b : Pending(i, b) => Pending(i, b)'
    BY <2>1 DEF Pending
  <2> QED
    BY <1>0, <2>1, <2>2 DEF RestInv
<1>5. CASE Delete
  BY <1>0, <1>5 DEF Delete, RestInv, Pending
<1>6. CASE Crash
  <2>1. \A w \in Writer : pc[w] # "write"
    BY <1>6 DEF Crash, TypeOK
  <2> QED
    BY <1>0, <1>6, <2>1 DEF Crash, RestInv, Pending
<1>7. CASE UNCHANGED vars
  BY <1>0, <1>7 DEF vars, RestInv, Pending
<1> QED
  BY <1>1, <1>2, <1>3, <1>4, <1>5, <1>6, <1>7 DEF Next

(***************************************************************************)
(* Puts that do overlap repair what they tear: once all have returned and  *)
(* none was cut short, the chunk under path is whole, for any number of    *)
(* Puts truncating and renaming each other's file (LocalFS.Put).           *)
(***************************************************************************)
THEOREM OverlapsHeal == Spec => []IntactAtRest
<1>1. Init => RestInv
  BY DEF Init, RestInv
<1>2. Inv /\ RestInv => IntactAtRest
  <2> SUFFICES ASSUME TypeOK, RestInv, ~cutShort, \A w \in Writer : pc[w] = "idle", dest # None
               PROVE  content[dest] = Full
    BY DEF Inv, IntactAtRest, Intact, Has
  <2>1. \A b \in Full \ content[dest] : FALSE
    BY DEF RestInv, Pending
  <2>2. content[dest] \subseteq Full
    BY DEF TypeOK
  <2> QED
    BY <2>1, <2>2
<1> QED
  BY <1>1, <1>2, InvAlways, RestPreserved, PTL DEF Spec
=============================================================================
