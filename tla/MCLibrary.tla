------------------------------ MODULE MCLibrary ------------------------------
(* Values for the constants of Library. *)
EXTENDS Library

CONSTANTS gen, io, fut, sys

MCStandard == <<gen, io, fut, sys>>
=============================================================================
