------------------------------- MODULE LocalFS ------------------------------
(***************************************************************************)
(* The on-disk chunk store of one node (storage.LocalFS), for one chunk:   *)
(* each chunk has a path of its own and its ID determines its bytes, so    *)
(* chunks do not interact and every Put of this one writes the same data.  *)
(*                                                                         *)
(* Put writes path.tmp and renames it to path.  All Puts of a chunk share  *)
(* the ONE temporary name, and handlers run concurrently: when a node dies *)
(* every surviving owner pushes the chunk to the new one.  os.WriteFile    *)
(* opens with O_CREATE and O_TRUNC, so a Put that finds a temporary file   *)
(* empties it under the feet of the Put that is writing it, and the first  *)
(* rename publishes that file with both Puts still holding it.             *)
(*                                                                         *)
(* Files are inodes, named by directory entries and held open by Puts; the *)
(* content of an inode is the set of its blocks that hold the right bytes. *)
(***************************************************************************)
EXTENDS Naturals, FiniteSets

CONSTANTS Writer,  \* concurrent calls of Put
          Inode,   \* inodes, enough for every writer and both entries
          None,    \* no directory entry, no open file
          Blocks   \* writes it takes to fill the file

ASSUME LocalFSAssumption == None \notin Inode /\ Blocks \in Nat \ {0}

VARIABLES tmp,         \* inode of path.tmp, or None
          dest,        \* inode of path, or None
          content,     \* inode -> blocks written since it was last truncated
          pc,          \* writer -> where it is in Put
          fd,          \* writer -> the inode it holds open
          next,        \* writer -> the block it writes next
          overlapped,  \* history: two Puts ran at the same time
          cutShort     \* history: a Put ended before its last write

vars == <<tmp, dest, content, pc, fd, next, overlapped, cutShort>>

Full == 1 .. Blocks

(***************************************************************************)
(* Entries and open files name inodes, and no Put writes past the end of   *)
(* the chunk.                                                              *)
(***************************************************************************)
TypeOK == /\ tmp \in Inode \cup {None}
          /\ dest \in Inode \cup {None}
          /\ content \in [Inode -> SUBSET Full]
          /\ pc \in [Writer -> {"idle", "write", "rename"}]
          /\ fd \in [Writer -> Inode \cup {None}]
          /\ next \in [Writer -> 1 .. Blocks + 1]
          /\ overlapped \in BOOLEAN
          /\ cutShort \in BOOLEAN

Init == /\ tmp = None
        /\ dest = None
        /\ content = [i \in Inode |-> {}]
        /\ pc = [w \in Writer |-> "idle"]
        /\ fd = [w \in Writer |-> None]
        /\ next = [w \in Writer |-> 1]
        /\ overlapped = FALSE
        /\ cutShort = FALSE

InUse == {tmp, dest} \cup {fd[w] : w \in Writer}

Return(w) == /\ pc' = [pc EXCEPT ![w] = "idle"]
             /\ fd' = [fd EXCEPT ![w] = None]
             /\ next' = [next EXCEPT ![w] = 1]

----------------------------------------------------------------------------
(***************************************************************************)
(* Put: os.WriteFile opens path.tmp, creating or truncating it.            *)
(***************************************************************************)
Open(w) ==
    /\ pc[w] = "idle"
    /\ \E i \in Inode :
           /\ IF tmp # None THEN i = tmp ELSE i \notin InUse
           /\ tmp' = i
           /\ fd' = [fd EXCEPT ![w] = i]
           /\ content' = [content EXCEPT ![i] = {}]
           /\ overlapped' = (overlapped \/ \E v \in Writer : pc[v] # "idle")
    /\ pc' = [pc EXCEPT ![w] = "write"]
    /\ UNCHANGED <<dest, next, cutShort>>

(***************************************************************************)
(* One write(2) at the writer's own offset; after the last the file is     *)
(* closed, but the writer goes on to rename the NAME it was opened under.  *)
(***************************************************************************)
FaultyWrite(w) ==  \* one write too many
    /\ pc[w] = "write"
    /\ content' = [content EXCEPT ![fd[w]] = @ \cup {next[w]}]
    /\ IF next[w] > Blocks
       THEN /\ pc' = [pc EXCEPT ![w] = "rename"]
            /\ fd' = [fd EXCEPT ![w] = None]
            /\ next' = [next EXCEPT ![w] = 1]
       ELSE /\ next' = [next EXCEPT ![w] = @ + 1]
            /\ UNCHANGED <<pc, fd>>
    /\ UNCHANGED <<tmp, dest, overlapped, cutShort>>

Write(w) ==
    /\ pc[w] = "write"
    /\ content' = [content EXCEPT ![fd[w]] = @ \cup {next[w]}]
    /\ IF next[w] = Blocks
       THEN /\ pc' = [pc EXCEPT ![w] = "rename"]
            /\ fd' = [fd EXCEPT ![w] = None]
            /\ next' = [next EXCEPT ![w] = 1]
       ELSE /\ next' = [next EXCEPT ![w] = @ + 1]
            /\ UNCHANGED <<pc, fd>>
    /\ UNCHANGED <<tmp, dest, overlapped, cutShort>>

(***************************************************************************)
(* A write fails (disk full): Put returns the error and leaves path.tmp.   *)
(***************************************************************************)
FaultyWriteFails(w) ==  \* the error is ignored
    /\ pc[w] = "write"
    /\ pc' = [pc EXCEPT ![w] = "rename"]
    /\ fd' = [fd EXCEPT ![w] = None]
    /\ next' = [next EXCEPT ![w] = 1]
    /\ UNCHANGED <<tmp, dest, content, overlapped, cutShort>>

WriteFails(w) ==
    /\ pc[w] = "write"
    /\ cutShort' = TRUE
    /\ Return(w)
    /\ UNCHANGED <<tmp, dest, content, overlapped>>

FaultyRename(w) ==  \* publishes before the data is written
    /\ pc[w] \in {"write", "rename"}
    /\ tmp # None
    /\ dest' = tmp
    /\ tmp' = None
    /\ Return(w)
    /\ UNCHANGED <<content, overlapped, cutShort>>

(***************************************************************************)
(* os.Rename: moves whatever path.tmp names by now; fails when another Put *)
(* has moved it already.                                                   *)
(***************************************************************************)
Rename(w) ==
    /\ pc[w] = "rename"
    /\ \/ /\ tmp # None
          /\ dest' = tmp
          /\ tmp' = None
       \/ /\ tmp = None
          /\ UNCHANGED <<tmp, dest>>
    /\ Return(w)
    /\ UNCHANGED <<content, overlapped, cutShort>>

Delete ==
    /\ dest # None
    /\ dest' = None
    /\ UNCHANGED <<tmp, content, pc, fd, next, overlapped, cutShort>>

(***************************************************************************)
(* The process dies and starts again; the files stay.                      *)
(***************************************************************************)
Crash ==
    /\ \E w \in Writer : pc[w] # "idle"
    /\ pc' = [w \in Writer |-> "idle"]
    /\ fd' = [w \in Writer |-> None]
    /\ next' = [w \in Writer |-> 1]
    /\ cutShort' = (cutShort \/ \E w \in Writer : pc[w] = "write")
    /\ UNCHANGED <<tmp, dest, content, overlapped>>

Next == \/ Delete
        \/ Crash
        \/ \E w \in Writer : Open(w) \/ Write(w) \/ WriteFails(w) \/ Rename(w)

Spec == Init /\ [][Next]_vars

----------------------------------------------------------------------------
(***************************************************************************)
(* Has and List see path and never path.tmp; Get reads what path names.    *)
(***************************************************************************)
Has == dest # None

Intact == Has => content[dest] = Full

(***************************************************************************)
(* Write-then-rename does its job where Puts of a chunk do not overlap: a  *)
(* reader finds the whole chunk or none of it, through failed writes,      *)
(* crashes at any point and the temporary files they leave behind.         *)
(***************************************************************************)
IntactUnlessOverlapped == ~overlapped => Intact

(***************************************************************************)
(* Where they do overlap, a torn chunk is put right by the Put that tore   *)
(* it: with no Put running and none cut short, the chunk is whole.         *)
(***************************************************************************)
IntactAtRest == (\A w \in Writer : pc[w] = "idle") /\ ~cutShort => Intact

(***************************************************************************)
(* The comment in repairLocalChunks on a peer that already has the chunk:  *)
(* it will "simply overwrite with identical content -- a no-op".           *)
(***************************************************************************)
OverwriteIsNoOp == [][Has /\ Intact /\ Has' => Intact']_vars
=============================================================================
