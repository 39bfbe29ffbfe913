------------------------------- MODULE MCRouter -------------------------------
(* Values for the constants of Router. *)
EXTENDS Router

CONSTANTS one, two, l1, l2, l3

MCEventOf == (l1 :> one) @@ (l2 :> one) @@ (l3 :> two)
=============================================================================
