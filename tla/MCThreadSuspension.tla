-------------------------- MODULE MCThreadSuspension --------------------------
(* ThreadSuspension on three threads.                                      *)
EXTENDS ThreadSuspensionInv

CONSTANTS t1, t2, t3

===============================================================================
