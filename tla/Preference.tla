----------------------------- MODULE Preference -----------------------------
(***************************************************************************)
(* Owner sets of a consistent hash ring, without the ring.                 *)
(*                                                                         *)
(* Walking clockwise from a key, hashring.Ring.GetN meets the physical     *)
(* nodes in a fixed order of preference: node x before node y when x's     *)
(* first virtual point is nearer.  That order depends on the key alone,    *)
(* not on who is on the ring, so GetN(key, n) is "the n most preferred     *)
(* nodes of those on the ring".  Module HashRing walks the real sorted     *)
(* slice and is proved to return FirstN; the replication and recovery      *)
(* modules use FirstN directly.                                            *)
(***************************************************************************)
EXTENDS Naturals, FiniteSets

(***************************************************************************)
(* The members of S that rank places before x.                             *)
(***************************************************************************)
Before(rank, S, x) == {y \in S : rank[y] < rank[x]}

(***************************************************************************)
(* The n members of S with the least rank (all of S when it has fewer).    *)
(***************************************************************************)
FirstN(rank, S, n) == {x \in S : Cardinality(Before(rank, S, x)) < n}
=============================================================================
