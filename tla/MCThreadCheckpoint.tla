------------------------- MODULE MCThreadCheckpoint -------------------------
(* Instances of ThreadCheckpoint for model checking.                       *)
EXTENDS ThreadCheckpoint, TLC

CONSTANTS t1, t2, t3
=============================================================================
