--------------------------- MODULE MCStateMachine ---------------------------
(* Values for the constants of StateMachine. *)
EXTENDS StateMachine

CONSTANTS o1, o2, s1, s2
=============================================================================
