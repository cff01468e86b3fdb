----------------------------- MODULE MCLocalFS ------------------------------
(***************************************************************************)
(* LocalFS for TLC: three Puts at a time, each able to run again and       *)
(* again, two writes to a file, and an inode for every possible holder.    *)
(* Neither writers nor inodes are named, so both sets are symmetric.       *)
(***************************************************************************)
EXTENDS LocalFS, TLC

Interchangeable == Permutations(Inode) \cup Permutations(Writer)
=============================================================================
