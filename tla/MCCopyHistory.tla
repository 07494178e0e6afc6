--------------------------- MODULE MCCopyHistory ----------------------------
(* Instances of CopyHistory: tasks t1 and t2 enter tokens of their own, or task t1 *)
(* is alone.                                                               *)
EXTENDS CopyHistory, TLC

CONSTANTS t1, t2, m1, m2, w1, w2

MCOwnToken == (t1 :> m1) @@ (t2 :> m2)
MCOneTask == t1 :> m1
=============================================================================
