--------------------- MODULE MCBlockingConcurrentQueue ---------------------
(* Values for the constants of BlockingConcurrentQueue. *)
EXTENDS BlockingConcurrentQueue

CONSTANTS p1, c1, c2, k1, a, b, d
=============================================================================
