--------------------------- MODULE MCCancellation ---------------------------
(* Model values for the constants of Cancellation: three threads are one   *)
(* that cancels, one that adds and one that removes or cancels again.      *)
EXTENDS Cancellation

CONSTANTS t1, t2, t3, l1, l2, l3
=============================================================================
