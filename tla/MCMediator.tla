------------------------------ MODULE MCMediator ------------------------------
(* Values for the constants of Mediator and of the Router it extends. *)
EXTENDS Mediator

CONSTANTS one, two, l1, l2, l3

MCEventOf == (l1 :> one) @@ (l2 :> one) @@ (l3 :> two)
=============================================================================
