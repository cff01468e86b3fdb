--------------------------- MODULE MCSelfHealing ----------------------------
(***************************************************************************)
(* SelfHealing for TLC: a node and two peers, each of which may fail and   *)
(* recover at will, with one callback of each kind outstanding per peer,   *)
(* which is enough for a late OnNodeDead to meet the next OnNodeAlive, and *)
(* one peer that may be marked alive by hand.  A node that was stopped and *)
(* whose callbacks have run takes no further step.                         *)
(***************************************************************************)
EXTENDS SelfHealing
=============================================================================
