----------------------- MODULE MCBackgroundDispatcher -----------------------
(* Values for the constants of BackgroundDispatcher. *)
EXTENDS BackgroundDispatcher

CONSTANTS p1, p2, a, b, d
=============================================================================
