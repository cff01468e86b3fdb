----------------------------- MODULE MCDownload -----------------------------
(***************************************************************************)
(* Download for TLC: three nodes, two copies.  Chunks hold two bytes.  One *)
(* upload is a chunk twice, one loses its client after a chunk and a half, *)
(* and the body of one cannot be read.  This node is an owner of the full  *)
(* chunk and not of the short one.  One peer and this node's own files     *)
(* change, twice in all.                                                   *)
(***************************************************************************)
EXTENDS Download, TLC

CONSTANTS n1, n2

MCNode == {self, n1, n2}
MCVersion == {"twice", "cut", "unread"}
MCSent == "twice" :> <<"x", "x", "x", "x">> @@ "cut" :> <<"x", "x", "y", "y">>
          @@ "unread" :> <<"x", "x", "z">>
MCBody == "twice" :> <<"x", "x", "x", "x">> @@ "cut" :> <<"x", "x", "y">>
          @@ "unread" :> <<"x", "x">>
MCEnding == "twice" :> "EOF" @@ "cut" :> "ErrUnexpectedEOF" @@ "unread" :> "other error"
MCRankOf(c) == IF c = ID(<<"y">>) THEN n1 :> 1 @@ n2 :> 2 @@ self :> 3
               ELSE n1 :> 1 @@ self :> 2 @@ n2 :> 3
=============================================================================
